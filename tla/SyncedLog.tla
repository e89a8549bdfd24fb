----------------------------- MODULE SyncedLog -----------------------------
(***************************************************************************)
(* What the updates code promises about one pts stream: "synced" is a      *)
(* point of the server's log up to which the client has everything that    *)
(* counts, and the client never falls back behind it or forgets an update. *)
(***************************************************************************)
EXTENDS Naturals

VARIABLES log, seen, synced

Init == log = {} /\ seen = {} /\ synced = 0

(* The server adds an update beyond all the client can be synced to.       *)
Publish(u) ==
    /\ u \notin log
    /\ u.count > 0 => u.pts > synced
    /\ log' = log \cup {u}
    /\ UNCHANGED <<seen, synced>>

(* The client sees updates, and may find it has all of them up to pts.     *)
See(us, pts) ==
    /\ us \subseteq log
    /\ pts >= synced
    /\ UNCHANGED log
    /\ seen' = seen \cup us
    /\ \A u \in log : u.count > 0 /\ u.pts <= pts => u \in seen'
    /\ synced' = pts

Next ==
    \/ \E u \in log' : Publish(u)
    \/ See(seen' \ seen, synced')

Spec == Init /\ [][Next]_<<log, seen, synced>>
=============================================================================
