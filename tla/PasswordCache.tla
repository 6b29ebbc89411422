---------------------------- MODULE PasswordCache ----------------------------
(***************************************************************************)
(* The password cache of the agent (AgentState in src/src/agent/server.rs) *)
(* and the job that sweeps it.                                             *)
(*                                                                         *)
(* Handlers and the sweeping job run on different threads and share the    *)
(* map behind a mutex.  A handler reads the clock under the lock; the      *)
(* sweep reads it BEFORE it takes the lock, so handlers, and other sweeps, *)
(* may run between the two and the barrier it applies may be old.          *)
(*                                                                         *)
(* Time is discrete.  Utc::now is the wall clock, which somebody may set   *)
(* forth or back.  The scheduler is assumed to let a sweep finish often    *)
(* enough (MaxGap): the code asks for one every second and promises        *)
(* nothing more.                                                           *)
(***************************************************************************)
EXTENDS Integers

CONSTANTS
    Uuid,           \* the shrines
    Ttl,            \* how long an unused password is kept (15 minutes)
    MaxGap,         \* time stays this close to the last finished sweep
    MaxTime,        \* bound on the time
    MaxJump         \* bound on how far the clock is set, in all

ASSUME TimeAssumption ==
    /\ Ttl \in Nat \ {0}
    /\ MaxGap \in Nat \ {0}
    /\ MaxTime \in Nat /\ MaxJump \in Nat

VARIABLES
    now,            \* the time
    forth, back,    \* how far the wall clock was set forth and back, in all
    passwords,      \* AgentState.passwords: the last access time per shrine
    sweeping,       \* the sweeps that wait for the lock: when they read what
    swept,          \* when the finished sweep with the latest reading read it
    lastUse         \* history: when each password was last given or taken

clock == <<now, forth, back>>
vars == <<clock, passwords, sweeping, swept, lastUse>>

-----------------------------------------------------------------------------

\* Utc::now
Wall == now + forth - back

\* Mutant of Stamp: the time the password expires.
StampExpiry(uuid) ==
    [u \in DOMAIN passwords \cup {uuid} |->
        IF u = uuid THEN Wall + Ttl ELSE passwords[u]]

\* passwords.insert(uuid, (Utc::now(), password))
Stamp(uuid) ==
    [u \in DOMAIN passwords \cup {uuid} |-> IF u = uuid THEN Wall ELSE passwords[u]]

\* Mutant of Retained: atime >= barrier.
RetainedAtBarrier(reading) == {u \in DOMAIN passwords : passwords[u] + Ttl >= reading}

\* retain(|_, (atime, _)| atime > barrier), the barrier being Ttl before the
\* reading the sweep started with.
Retained(reading) == {u \in DOMAIN passwords : passwords[u] + Ttl > reading}

Init ==
    /\ now = 0 /\ forth = 0 /\ back = 0
    /\ passwords = [u \in {} |-> 0]
    /\ sweeping = {}
    /\ swept = 0
    /\ lastUse = [u \in Uuid |-> 0]

\* PUT /passwords
SetPassword(uuid) ==
    /\ passwords' = Stamp(uuid)
    /\ lastUse' = [lastUse EXCEPT ![uuid] = now]
    /\ UNCHANGED <<clock, sweeping, swept>>

\* Mutant of GetPassword: the password is put back with its old time.
PeekPassword(uuid) ==
    /\ uuid \in DOMAIN passwords
    /\ lastUse' = [lastUse EXCEPT ![uuid] = now]
    /\ UNCHANGED <<clock, passwords, sweeping, swept>>

\* open_shrine takes the password out and puts it back with a new time,
\* whatever its age and whether or not it then opens the shrine.
GetPassword(uuid) ==
    /\ uuid \in DOMAIN passwords
    /\ passwords' = Stamp(uuid)
    /\ lastUse' = [lastUse EXCEPT ![uuid] = now]
    /\ UNCHANGED <<clock, sweeping, swept>>

\* DELETE /passwords
DeletePasswords ==
    /\ passwords' = [u \in {} |-> 0]
    /\ UNCHANGED <<clock, sweeping, swept, lastUse>>

\* A sweep reads the clock.
StartSweep ==
    /\ sweeping' = sweeping \cup {[at |-> now, reading |-> Wall]}
    /\ UNCHANGED <<clock, passwords, swept, lastUse>>

\* A sweep gets the lock and drops what is older than its barrier.  Sweeps
\* may overlap, and end in any order; two with the same reading do the same.
EndSweep(sweep) ==
    /\ sweep \in sweeping
    /\ passwords' = [u \in Retained(sweep.reading) |-> passwords[u]]
    /\ sweeping' = sweeping \ {sweep}
    /\ swept' = IF sweep.at > swept THEN sweep.at ELSE swept
    /\ UNCHANGED <<clock, lastUse>>

Tick ==
    /\ now < MaxTime
    /\ now < swept + MaxGap
    /\ now' = now + 1
    /\ UNCHANGED <<forth, back, passwords, sweeping, swept, lastUse>>

\* The wall clock is set.
SetClock ==
    /\ forth + back < MaxJump
    /\ \/ forth' = forth + 1 /\ UNCHANGED back
       \/ back' = back + 1 /\ UNCHANGED forth
    /\ UNCHANGED <<now, passwords, sweeping, swept, lastUse>>

Next ==
    \/ \E uuid \in Uuid : SetPassword(uuid) \/ GetPassword(uuid)
    \/ DeletePasswords
    \/ StartSweep
    \/ \E sweep \in sweeping : EndSweep(sweep)
    \/ Tick \/ SetClock

Spec == Init /\ [][Next]_vars

-----------------------------------------------------------------------------
(* Properties.                                                             *)

\* Types of the state; nothing carries a time that no clock has shown.
TypeOK ==
    /\ now \in 0..MaxTime /\ forth \in 0..MaxJump /\ back \in 0..MaxJump
    /\ DOMAIN passwords \subseteq Uuid
    /\ passwords \in [DOMAIN passwords -> (-back)..(now + forth)]
    /\ sweeping \subseteq [at : 0..now, reading : (-back)..(now + forth)]
    /\ swept \in 0..now
    /\ lastUse \in [Uuid -> 0..now]

\* An unused password does not outlive Ttl by more than the gap between
\* sweeps, and by what the clock was set back: what open_shrine hands out was
\* used less than Ttl + MaxGap + back ago, although a sweep works with an old
\* reading and get_password never looks at the age.
IdlePasswordsExpire ==
    \A u \in DOMAIN passwords : now < lastUse[u] + Ttl + MaxGap + back

\* A sweep never takes a password that was given or used less than Ttl ago,
\* not even one used between the sweep's clock reading and its lock, unless
\* the clock was set: forth after the use, or back between the reading and the
\* use.  Only DELETE /passwords does.
FreshPasswordsStay ==
    [][~DeletePasswords =>
         \A u \in DOMAIN passwords \ DOMAIN passwords' :
            lastUse[u] + Ttl <= now + forth \/ lastUse[u] + Ttl <= now + back]_vars
=============================================================================
