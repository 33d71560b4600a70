--------------------------- MODULE SessionLedger ---------------------------
(***************************************************************************)
(* What the proxy promises about its table of sessions, with every         *)
(* goroutine, connection, node and caller left out.  A session is live     *)
(* from the moment it is entered into the table; it stops being live when  *)
(* it is dropped (a kill has cancelled it, or its keepalive has given it   *)
(* up) or over.  Its entry is made once, stands as long as the session is  *)
(* live, is closed by whoever drops, ends or sweeps it, and is not opened  *)
(* again.  A lost write leaves an entry open, never the reverse.           *)
(***************************************************************************)
CONSTANT Sessions

VARIABLES phase,  \* "new", "live", "dropped" or "over"
          entry   \* "none", "active" or "closed"

vars == <<phase, entry>>

Init ==
    /\ phase = [s \in Sessions |-> "new"]
    /\ entry = [s \in Sessions |-> "none"]

Move(s, to) == phase' = [phase EXCEPT ![s] = to]
Write(s, e) == entry' = [entry EXCEPT ![s] = e]

\* The session is not admitted, or its entry could not be confirmed.
Refuse(s) ==
    /\ phase[s] = "new"
    /\ Move(s, "over")
    /\ UNCHANGED entry \/ Write(s, "active")

Enter(s) ==
    /\ phase[s] = "new"
    /\ Move(s, "live") /\ Write(s, "active")

Drop(s) ==
    /\ phase[s] = "live"
    /\ Move(s, "dropped")
    /\ UNCHANGED entry \/ Write(s, "closed")

\* The entry of a session that is no longer live is closed.
Close(s) ==
    /\ phase[s] \in {"dropped", "over"} /\ entry[s] = "active"
    /\ Write(s, "closed")
    /\ UNCHANGED phase

End(s) ==
    /\ phase[s] \in {"live", "dropped"}
    /\ Move(s, "over")
    /\ UNCHANGED entry \/ Write(s, "closed")

\* Sessions are cut off together; nothing is written.
CutOff(S) ==
    /\ phase' = [s \in Sessions |-> IF s \in S THEN "over" ELSE phase[s]]
    /\ UNCHANGED entry

\* Entries left open by sessions that are over are closed together.
Sweep(S) ==
    /\ \A s \in S : phase[s] = "over" /\ entry[s] = "active"
    /\ entry' = [s \in Sessions |-> IF s \in S THEN "closed" ELSE entry[s]]
    /\ UNCHANGED phase

Next ==
    \/ \E S \in SUBSET Sessions : CutOff(S) \/ Sweep(S)
    \/ \E s \in Sessions : Refuse(s) \/ Enter(s) \/ Drop(s) \/ Close(s) \/ End(s)

Spec == Init /\ [][Next]_vars
=============================================================================
