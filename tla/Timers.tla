------------------------------- MODULE Timers -------------------------------
(****************************************************************************)
(* What tick(ms, callback) promises the script: a callback has at most one  *)
(* periodic timer, setting it again replaces it, and a callback whose timer *)
(* was cancelled is not called any more.                                    *)
(****************************************************************************)
CONSTANTS Keys,    \* callbacks: functions and global names
          NoKey

VARIABLES active,  \* the callbacks that have a timer
          calling  \* the callback the scheduler is in, NoKey outside

tvars == <<active, calling>>

TypeOK == active \subseteq Keys /\ calling \in Keys \cup {NoKey}

Init == active = {} /\ calling = NoKey

(* The script changes the timer of k: sets it, or cancels it. *)
Set(k)    == active' = active \cup {k} /\ UNCHANGED calling
Cancel(k) == active' = active \ {k} /\ UNCHANGED calling
CancelAll == active' = {} /\ UNCHANGED calling

(* The callback of a timer is called, and returns. *)
Fire(k) ==
  /\ k \in active /\ calling = NoKey
  /\ calling' = k /\ UNCHANGED active
Return == calling' = NoKey /\ UNCHANGED active

Next == \/ \E k \in Keys : Set(k) \/ Cancel(k) \/ Fire(k)
        \/ CancelAll \/ Return

Spec == Init /\ [][Next]_tvars
=============================================================================
