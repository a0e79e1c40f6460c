-------------------------- MODULE MCLiveDashboard --------------------------
EXTENDS LiveDashboard

\* An error by its type, whatever its status, and a success.
MCMessages == <<[type |-> "APPLICATION_ERROR", status |-> 200],
                [type |-> "API_REQUEST", status |-> 200]>>
=============================================================================
