--------------------------- MODULE RequestService ---------------------------
(***************************************************************************)
(* What the job queue promises the producers of batch work, without rows,  *)
(* leases, retries' limits or clocks.  Requests for a key wait, are taken  *)
(* together by one run, and are served, handed back or dropped with it.    *)
(*                                                                         *)
(* A run serves exactly the requests that were waiting when it began.  One *)
(* submitted while a run is in progress waits for the next run: a snapshot *)
(* taken before the request was made could miss what prompted it.          *)
(***************************************************************************)
CONSTANTS Key, Request

VARIABLES
    waiting,  \* requests waiting for a run of their key
    serving,  \* requests the current run of their key has taken; none: no run
    served,   \* requests a successful run has served
    dropped   \* requests given up on, by cancellation or final failure

vars == <<waiting, serving, served, dropped>>

Submitted ==
    UNION {waiting[k] \cup serving[k] \cup served[k] \cup dropped[k] : k \in Key}

Init == /\ waiting = [k \in Key |-> {}]
        /\ serving = [k \in Key |-> {}]
        /\ served = [k \in Key |-> {}]
        /\ dropped = [k \in Key |-> {}]

Submit(k, r) ==
    /\ r \notin Submitted
    /\ waiting' = [waiting EXCEPT ![k] = @ \cup {r}]
    /\ UNCHANGED <<serving, served, dropped>>

Begin(k) ==
    /\ serving[k] = {}
    /\ waiting[k] # {}
    /\ serving' = [serving EXCEPT ![k] = waiting[k]]
    /\ waiting' = [waiting EXCEPT ![k] = {}]
    /\ UNCHANGED <<served, dropped>>

HandBack(k) ==
    /\ serving[k] # {}
    /\ waiting' = [waiting EXCEPT ![k] = @ \cup serving[k]]
    /\ serving' = [serving EXCEPT ![k] = {}]
    /\ UNCHANGED <<served, dropped>>

Serve(k) ==
    /\ serving[k] # {}
    /\ served' = [served EXCEPT ![k] = @ \cup serving[k]]
    /\ serving' = [serving EXCEPT ![k] = {}]
    /\ UNCHANGED <<waiting, dropped>>

Drop(k) ==
    /\ serving[k] # {}
    /\ dropped' = [dropped EXCEPT ![k] = @ \cup serving[k]]
    /\ serving' = [serving EXCEPT ![k] = {}]
    /\ UNCHANGED <<waiting, served>>

Withdraw(k) ==
    /\ waiting[k] # {}
    /\ dropped' = [dropped EXCEPT ![k] = @ \cup waiting[k]]
    /\ waiting' = [waiting EXCEPT ![k] = {}]
    /\ UNCHANGED <<serving, served>>

Next == \E k \in Key :
          \/ \E r \in Request : Submit(k, r)
          \/ Begin(k)
          \/ HandBack(k)
          \/ Serve(k)
          \/ Drop(k)
          \/ Withdraw(k)

Spec == Init /\ [][Next]_vars
=============================================================================
