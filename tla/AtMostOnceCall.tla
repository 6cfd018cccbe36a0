--------------------------- MODULE AtMostOnceCall ---------------------------
(***************************************************************************)
(* What client.call(...) promises its caller, with no connection, mutex or  *)
(* frame in sight.  The server looks at each call at most once.  A call      *)
(* that returns a reply returns the outcome of its own execution, which had *)
(* ended by then.  A refused call is never executed; after an I/O error or  *)
(* a cancellation the caller does not know.                                 *)
(***************************************************************************)
CONSTANTS Calls, OnewayCalls

VARIABLES
    status,   \* idle, pending or done, for each call
    served,   \* what the server did with it
    outcome   \* what its caller got

absVars == <<status, served, outcome>>

Refusals == {"badargs", "notopen"}
Unknown  == {"ioerror", "cancelled"}

\* The client's view of what the server did.
Seen(s) == IF s \in {"value", "declared"} THEN s ELSE "appex"

AbsInit ==
    /\ status = [c \in Calls |-> "idle"]
    /\ served = [c \in Calls |-> "none"]
    /\ outcome = [c \in Calls |-> "pending"]

Invoke(c) ==
    /\ status[c] = "idle"
    /\ status' = [status EXCEPT ![c] = "pending"]
    /\ UNCHANGED <<served, outcome>>

Ends(c, o) ==
    /\ status' = [status EXCEPT ![c] = "done"]
    /\ outcome' = [outcome EXCEPT ![c] = o]
    /\ UNCHANGED served

Refuse(c) ==
    /\ status[c] # "done" /\ served[c] = "none"
    /\ \E o \in Refusals : Ends(c, o)

LoseTrack(c) ==
    /\ status[c] = "pending"
    /\ \E o \in Unknown : Ends(c, o)

Return(c) ==
    /\ status[c] = "pending"
    /\ \/ c \in OnewayCalls /\ Ends(c, "none")
       \/ /\ c \notin OnewayCalls /\ served[c] \notin {"none", "started"}
          /\ Ends(c, Seen(served[c]))

Serves(c, s) == served' = [served EXCEPT ![c] = s] /\ UNCHANGED <<status, outcome>>

\* The server may get to a call after its caller stopped waiting.
Serve(c) ==
    \/ /\ status[c] # "idle" /\ outcome[c] \notin Refusals
       /\ served[c] = "none"
       /\ \E s \in {"started", "rejected"} : Serves(c, s)
    \/ /\ served[c] = "started"
       /\ \E s \in {"value", "declared", "error"} : Serves(c, s)

AbsNext == \E c \in Calls :
    Invoke(c) \/ Refuse(c) \/ LoseTrack(c) \/ Return(c) \/ Serve(c)

AbsSpec == AbsInit /\ [][AbsNext]_absVars
=============================================================================
