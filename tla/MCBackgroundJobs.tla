-------------------------- MODULE MCBackgroundJobs --------------------------
EXTENDS BackgroundJobs

Event(id, project, at, error) == [id |-> id, project |-> project, at |-> at, error |-> error]

\* A day has four ticks, 8 and 12 are midnights.  The errors make p spike at 11 and
\* 12, in two buckets, and q at 12; at 12 the first two events have expired and the
\* third is at the cutoff.
MCPosted == {
  Event(1, "p", 0, FALSE), Event(2, "p", 1, TRUE), Event(3, "q", 2, FALSE),
  Event(4, "p", 7, FALSE), Event(5, "p", 8, FALSE), Event(6, "p", 10, TRUE),
  Event(7, "p", 11, TRUE), Event(8, "q", 11, TRUE)}
=============================================================================
