----------------------------- MODULE ShrineStore -----------------------------
(***************************************************************************)
(* What shrine promises to one user who lets every command finish: a store *)
(* of secrets that each command changes at once, or not at all.            *)
(*                                                                         *)
(* A command that answers "ok" has taken effect.  One that answers "error" *)
(* may have taken effect too: it was saved and could not be committed, or  *)
(* the answer was lost.  A command that is cut short while it saves loses  *)
(* the store.  A user who interrupts a command that the agent works on is  *)
(* promised nothing more.  System shows that the commands, the agent and   *)
(* the file together implement this.                                       *)
(***************************************************************************)
CONSTANTS
    Key, Value,     \* secrets
    Uuid            \* the identities of stores

VARIABLES
    store,          \* the uuid and the secrets, or what became of them
    made,           \* the uuids that were given to a store
    call,           \* the command of the user
    answer          \* what the last command said

vars == <<store, made, call, answer>>

Secrets == UNION {[K -> Value] : K \in SUBSET Key}

\* There is no store yet; there was one, and it cannot be read any more; or
\* the user has interrupted a command, and nothing is known.
Absent == [kind |-> "absent"]
Lost == [kind |-> "lost"]
Unknown == [kind |-> "unknown"]
Whole(uuid, secrets) == [kind |-> "whole", uuid |-> uuid, secrets |-> secrets]

Idle == [op |-> "none"]

\* A command is known by the secrets it forgets and sets, by the uuid it gives
\* the store, and by whether it has taken effect.
Command == [op : {"init", "convert", "edit"}, uuid : Uuid, dels : SUBSET Key,
            sets : Secrets, done : BOOLEAN]

Edited(dels, sets, secrets) ==
    [k \in (DOMAIN secrets \ dels) \cup DOMAIN sets |->
        IF k \in DOMAIN sets THEN sets[k] ELSE secrets[k]]

\* The store after a command.
Effect(c) ==
    IF c.op = "init"
      THEN Whole(c.uuid, c.sets)
      ELSE Whole(IF c.op = "convert" THEN c.uuid ELSE store.uuid,
                 Edited(c.dels, c.sets, store.secrets))

Init ==
    /\ store = Absent
    /\ made = {}
    /\ call = Idle
    /\ answer = "none"

\* A command begins; init needs no store, all the others do.  init and
\* convert make a store with a uuid of its own.
Invoke ==
    /\ call = Idle
    /\ call' \in Command
    /\ store.kind = "whole" \/ call'.op = "init"
    /\ ~call'.done
    /\ IF call'.op = "edit"
         THEN UNCHANGED made
         ELSE call'.uuid \notin made /\ made' = made \cup {call'.uuid}
    /\ UNCHANGED <<store, answer>>

\* A command is refused, or finds no agent any more.
Refuse ==
    /\ call = Idle
    /\ answer' = "error"
    /\ UNCHANGED <<store, made, call>>

\* The effect, and then the answer or more work.
TakeEffect ==
    /\ call # Idle
    /\ ~call.done
    /\ store' = Effect(call)
    /\ \/ /\ call' = [call EXCEPT !.done = TRUE]
          /\ UNCHANGED answer
       \/ /\ call' = Idle
          /\ answer' \in {"ok", "error"}
    /\ UNCHANGED made

Answer(result) ==
    /\ call # Idle
    /\ result = "ok" => call.done
    /\ call' = Idle
    /\ answer' = result
    /\ UNCHANGED <<store, made>>

\* The save of a command is cut short.
Lose ==
    /\ call # Idle
    /\ ~call.done
    /\ store' = Lost
    /\ call' = Idle
    /\ answer' = "error"
    /\ UNCHANGED made

\* From here on, anything.
Interrupt ==
    /\ call # Idle
    /\ store' = Unknown

Next ==
    \/ /\ store # Unknown
       /\ \/ Invoke \/ Refuse \/ TakeEffect \/ Lose \/ Interrupt
          \/ \E result \in {"ok", "error"} : Answer(result)
    \/ store = Unknown /\ store' = Unknown

Spec == Init /\ [][Next]_vars
=============================================================================
