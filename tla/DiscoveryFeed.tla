----------------------------- MODULE DiscoveryFeed -----------------------------
(***************************************************************************)
(* What discovery promises the person looking at the list, without         *)
(* threads, queues or tokens: the list shows one feed at a time, in the    *)
(* order that feed reported, with nothing missing unless the feed is       *)
(* already known to be lossy; a lossy or failed feed never leaves a list   *)
(* behind, and a feed is complete only if all of it is shown.              *)
(***************************************************************************)
EXTENDS Naturals, Sequences

VARIABLES
  feed,    \* which feed is being shown
  status,  \* "live", "complete", "failed" or "closed"
  lossy,   \* has the feed lost something it will have to fail for?
  list     \* what is shown: <<feed, number>> pairs

feedVars == <<feed, status, lossy, list>>

FeedInit ==
  /\ feed = 1
  /\ status = "live"
  /\ lossy = FALSE
  /\ list = <<>>

\* A feed numbers its events 1, 2, ...; n is the number of the one shown last.
Show ==
  /\ status = "live"
  /\ list' # <<>>
  /\ LET n == list'[Len(list')][2]
     IN /\ IF lossy THEN \A i \in DOMAIN list : list[i][2] < n
                    ELSE n = Len(list) + 1
        /\ list' = Append(list, <<feed, n>>)
  /\ UNCHANGED <<feed, status, lossy>>

\* A closed feed may still go wrong; nobody is looking at it any more.
Lose ==
  /\ status \in {"live", "closed"}
  /\ lossy' = TRUE
  /\ UNCHANGED <<feed, status, list>>

Complete ==
  /\ status = "live"
  /\ ~lossy
  /\ status' = "complete"
  /\ UNCHANGED <<feed, lossy, list>>

Fail ==
  /\ status = "live"
  /\ status' = "failed"
  /\ list' = <<>>
  /\ UNCHANGED <<feed, lossy>>

Restart ==
  /\ status # "closed"
  /\ feed' = feed + 1
  /\ status' = "live"
  /\ lossy' = FALSE
  /\ list' = <<>>

Close ==
  /\ status' = "closed"
  /\ UNCHANGED <<feed, lossy, list>>

FeedNext ==
  \/ Show \/ Lose \/ Complete \/ Fail \/ Restart \/ Close

FeedSpec == FeedInit /\ [][FeedNext]_feedVars

=============================================================================
