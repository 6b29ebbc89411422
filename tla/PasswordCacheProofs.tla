------------------------- MODULE PasswordCacheProofs -------------------------
(***************************************************************************)
(* Proofs about PasswordCache, for any number of shrines, any time to      *)
(* live, any gap between sweeps, and any settings of the clock.            *)
(*                                                                         *)
(* Times of use are compared with the last finished sweep: every entry was *)
(* used less than Ttl before that sweep read the clock, give or take what  *)
(* the clock was set back, and the time is at most MaxGap past it.  What a *)
(* stamp and a reading are off differs by less than the clock was set      *)
(* between them, so it matters which of the two came first.                *)
(***************************************************************************)
EXTENDS PasswordCache, TLAPS

\* How far a stamp, and a reading, are off the time they were taken.
OffStamp(u) == passwords[u] - lastUse[u]
OffReading(sweep) == sweep.reading - sweep.at

Bounded(off) == -back <= off /\ off <= forth

StampsBounded == \A u \in DOMAIN passwords : Bounded(OffStamp(u))
ReadingsBounded == \A sweep \in sweeping : Bounded(OffReading(sweep))

\* A stamp and a reading: either the stamp came first, or the reading did.
Near(u, sweep) ==
    \/ /\ OffStamp(u) - OffReading(sweep) <= back
       /\ OffReading(sweep) - OffStamp(u) <= forth
    \/ /\ sweep.at <= lastUse[u]
       /\ OffReading(sweep) - OffStamp(u) <= back

AllNear == \A u \in DOMAIN passwords : \A sweep \in sweeping : Near(u, sweep)

\* The last finished sweep left nothing it should have dropped, and what came
\* after it is younger.
YoungAtSweep == \A u \in DOMAIN passwords : lastUse[u] + Ttl + back > swept

CacheInv ==
    /\ TypeOK
    /\ StampsBounded
    /\ ReadingsBounded
    /\ AllNear
    /\ YoungAtSweep
    /\ now <= swept + MaxGap

\* The types in the form the arithmetic needs.
LEMMA Numbers ==
    ASSUME TypeOK
    PROVE  /\ now \in Nat /\ forth \in Nat /\ back \in Nat /\ swept \in Nat
           /\ swept <= now /\ Wall \in Int
           /\ \A u \in DOMAIN passwords :
                 /\ u \in Uuid /\ passwords[u] \in Int
                 /\ lastUse[u] \in Nat /\ lastUse[u] <= now
           /\ \A sweep \in sweeping :
                 /\ sweep.at \in Nat /\ sweep.at <= now /\ sweep.reading \in Int
<1>1. now \in Nat /\ forth \in Nat /\ back \in Nat
  BY TimeAssumption DEF TypeOK
<1>2. swept \in Nat /\ swept <= now /\ Wall \in Int
  BY <1>1 DEF TypeOK, Wall
<1>3. \A u \in DOMAIN passwords :
         /\ u \in Uuid /\ passwords[u] \in Int
         /\ lastUse[u] \in Nat /\ lastUse[u] <= now
  BY <1>1 DEF TypeOK
<1>4. \A sweep \in sweeping :
         /\ sweep.at \in Nat /\ sweep.at <= now /\ sweep.reading \in Int
  BY <1>1 DEF TypeOK
<1>5. QED
  BY <1>1, <1>2, <1>3, <1>4

\* The times a clock has shown are no fewer after it was set.
LEMMA WiderInterval ==
    ASSUME NEW n \in Nat, NEW f \in Nat, NEW b \in Nat,
           NEW n2 \in Nat, NEW f2 \in Nat, NEW b2 \in Nat,
           n <= n2, f <= f2, b <= b2
    PROVE  (-b)..(n + f) \subseteq (-b2)..(n2 + f2)
<1>1. n + f <= n2 + f2 /\ -b2 <= -b
  OBVIOUS
<1>2. QED
  BY <1>1

LEMMA InitCacheInv == Init => CacheInv
<1> SUFFICES ASSUME Init PROVE CacheInv
  OBVIOUS
<1>1. DOMAIN passwords = {} /\ passwords \in [{} -> (-back)..(now + forth)]
  BY DEF Init
<1>2. TypeOK
  BY <1>1, TimeAssumption DEF Init, TypeOK
<1>3. QED
  BY <1>1, <1>2, TimeAssumption
  DEF Init, CacheInv, StampsBounded, ReadingsBounded, AllNear, YoungAtSweep

\* Giving or taking a password stamps it with the clock; a sweep that has read
\* the clock has read it before.
LEMMA StampKeepsInv ==
    ASSUME CacheInv, NEW uuid \in Uuid,
           passwords' = Stamp(uuid),
           lastUse' = [lastUse EXCEPT ![uuid] = now],
           UNCHANGED <<clock, sweeping, swept>>
    PROVE  CacheInv'
<1>1. /\ DOMAIN passwords' = DOMAIN passwords \cup {uuid}
      /\ \A u \in DOMAIN passwords' :
            passwords'[u] = IF u = uuid THEN Wall ELSE passwords[u]
  BY DEF Stamp
<1>2. TypeOK /\ now' = now /\ forth' = forth /\ back' = back
  BY DEF CacheInv, clock
<1>3. /\ now \in Nat /\ forth \in Nat /\ back \in Nat /\ swept \in Nat
      /\ swept <= now /\ Wall \in (-back)..(now + forth)
  BY <1>2, Numbers DEF Wall
<1>4. TypeOK'
  <2>1. passwords' \in [DOMAIN passwords' -> (-back)..(now + forth)]
    BY <1>2, <1>3 DEF TypeOK, Stamp
  <2>2. lastUse' \in [Uuid -> 0..now]
    BY <1>2, <1>3 DEF TypeOK
  <2>3. QED
    BY <1>1, <1>2, <2>1, <2>2 DEF TypeOK
<1>5. \A u \in DOMAIN passwords' :
         /\ u = uuid => lastUse'[u] = now /\ passwords'[u] = now + forth - back
         /\ u # uuid => /\ u \in DOMAIN passwords
                        /\ lastUse'[u] = lastUse[u] /\ passwords'[u] = passwords[u]
  BY <1>1, <1>2 DEF TypeOK, Wall
<1>6. StampsBounded'
  BY <1>2, <1>3, <1>5, Numbers DEF CacheInv, StampsBounded, Bounded, OffStamp
<1>7. ReadingsBounded'
  BY <1>2 DEF CacheInv, ReadingsBounded, Bounded, OffReading
<1>8. AllNear'
  <2> SUFFICES ASSUME NEW u \in DOMAIN passwords', NEW sweep \in sweeping
               PROVE  Near(u, sweep)'
    BY DEF AllNear
  <2>1. CASE u = uuid
    <3>1. sweep.at \in Nat /\ sweep.at <= now /\ sweep.reading \in Int
      BY <1>2, Numbers
    <3>2. sweep.reading - sweep.at <= forth
      BY DEF CacheInv, ReadingsBounded, Bounded, OffReading
    <3>3. QED
      BY <1>2, <1>3, <1>5, <2>1, <3>1, <3>2 DEF Near, OffStamp, OffReading
  <2>2. CASE u # uuid
    BY <1>2, <1>5, <2>2 DEF CacheInv, AllNear, Near, OffStamp, OffReading
  <2>3. QED
    BY <2>1, <2>2
<1>9. YoungAtSweep'
  BY <1>2, <1>3, <1>5, TimeAssumption DEF CacheInv, YoungAtSweep
<1>10. QED
  BY <1>2, <1>4, <1>6, <1>7, <1>8, <1>9 DEF CacheInv

\* A sweep with an old reading drops less than the last one did; one with a
\* newer reading leaves only what is young seen from it.
LEMMA EndSweepKeepsInv ==
    ASSUME CacheInv, NEW sweep \in sweeping, EndSweep(sweep)
    PROVE  CacheInv'
<1>1. /\ DOMAIN passwords' = Retained(sweep.reading)
      /\ Retained(sweep.reading) \subseteq DOMAIN passwords
      /\ \A u \in Retained(sweep.reading) : passwords'[u] = passwords[u]
  BY DEF EndSweep, Retained
<1>2. /\ swept' = IF sweep.at > swept THEN sweep.at ELSE swept
      /\ sweeping' = sweeping \ {sweep}
      /\ now' = now /\ forth' = forth /\ back' = back
      /\ lastUse' = lastUse
  BY DEF EndSweep, clock
<1>3. /\ now \in Nat /\ forth \in Nat /\ back \in Nat /\ swept \in Nat /\ swept <= now
      /\ sweep.at \in Nat /\ sweep.at <= now /\ sweep.reading \in Int
  BY Numbers DEF CacheInv
<1>4. TypeOK'
  <2>1. passwords' \in [DOMAIN passwords' -> (-back)..(now + forth)]
    BY <1>1 DEF CacheInv, TypeOK, EndSweep
  <2>2. swept' \in 0..now
    BY <1>2, <1>3
  <2>3. QED
    BY <1>1, <1>2, <2>1, <2>2 DEF CacheInv, TypeOK
<1>5. StampsBounded' /\ ReadingsBounded' /\ AllNear'
  BY <1>1, <1>2
  DEF CacheInv, StampsBounded, ReadingsBounded, AllNear, Near, Bounded, OffStamp, OffReading
<1>6. YoungAtSweep'
  <2> SUFFICES ASSUME NEW u \in Retained(sweep.reading)
               PROVE  lastUse[u] + Ttl + back > swept'
    BY <1>1, <1>2 DEF YoungAtSweep
  <2>1. passwords[u] \in Int /\ lastUse[u] \in Nat /\ u \in DOMAIN passwords
    BY <1>1, Numbers DEF CacheInv
  <2>2. lastUse[u] + Ttl + back > swept
    BY <2>1 DEF CacheInv, YoungAtSweep
  <2>3. passwords[u] + Ttl > sweep.reading
    BY DEF Retained
  <2>4. Near(u, sweep)
    BY <2>1 DEF CacheInv, AllNear
  <2>5. lastUse[u] + Ttl + back > sweep.at
    BY <1>3, <2>1, <2>3, <2>4, TimeAssumption DEF Near, OffStamp, OffReading
  <2>6. QED
    BY <1>2, <2>2, <2>5
<1>7. now' <= swept' + MaxGap
  BY <1>2, <1>3, TimeAssumption DEF CacheInv
<1>8. QED
  BY <1>4, <1>5, <1>6, <1>7 DEF CacheInv

\* A sweep that reads the clock: what a stamp is off lies between what the
\* clock was set back and forth, whenever the stamp was made.
LEMMA StartSweepKeepsInv ==
    ASSUME CacheInv, StartSweep
    PROVE  CacheInv'
<1> DEFINE new == [at |-> now, reading |-> Wall]
<1>1. /\ sweeping' = sweeping \cup {new}
      /\ now' = now /\ forth' = forth /\ back' = back
      /\ passwords' = passwords /\ swept' = swept /\ lastUse' = lastUse
  BY DEF StartSweep, clock
<1>2. now \in Nat /\ forth \in Nat /\ back \in Nat
  BY Numbers DEF CacheInv
<1>3. new.at = now /\ new.reading = now + forth - back
  BY DEF Wall
<1>4. TypeOK'
  <2>1. new \in [at : 0..now, reading : (-back)..(now + forth)]
    BY <1>2 DEF Wall
  <2>2. QED
    BY <1>1, <2>1 DEF CacheInv, TypeOK
<1>5. ReadingsBounded'
  BY <1>1, <1>2, <1>3 DEF CacheInv, ReadingsBounded, Bounded, OffReading
<1>6. AllNear'
  <2> SUFFICES ASSUME NEW u \in DOMAIN passwords, NEW sweep \in sweeping'
               PROVE  Near(u, sweep)'
    BY <1>1 DEF AllNear
  <2>1. CASE sweep \in sweeping
    BY <1>1, <2>1 DEF CacheInv, AllNear, Near, OffStamp, OffReading
  <2>2. CASE sweep = new
    <3>1. passwords[u] \in Int /\ lastUse[u] \in Nat
      BY Numbers DEF CacheInv
    <3>2. -back <= passwords[u] - lastUse[u] /\ passwords[u] - lastUse[u] <= forth
      BY DEF CacheInv, StampsBounded, Bounded, OffStamp
    <3>3. QED
      BY <1>1, <1>2, <1>3, <2>2, <3>1, <3>2 DEF Near, OffStamp, OffReading
  <2>3. QED
    BY <1>1, <2>1, <2>2
<1>7. StampsBounded' /\ YoungAtSweep' /\ now' <= swept' + MaxGap
  BY <1>1 DEF CacheInv, StampsBounded, YoungAtSweep, Bounded, OffStamp
<1>8. QED
  BY <1>4, <1>5, <1>6, <1>7 DEF CacheInv

\* Time passes, or the clock is set: every bound moves the way it must.
LEMMA ClockKeepsInv ==
    ASSUME CacheInv, Tick \/ SetClock
    PROVE  CacheInv'
<1>1. /\ passwords' = passwords /\ sweeping' = sweeping
      /\ swept' = swept /\ lastUse' = lastUse
  BY DEF Tick, SetClock
<1>2. /\ now' \in 0..MaxTime /\ forth' \in 0..MaxJump /\ back' \in 0..MaxJump
      /\ now <= now' /\ forth <= forth' /\ back <= back'
      /\ now' <= swept + MaxGap
  BY Numbers, TimeAssumption DEF CacheInv, TypeOK, Tick, SetClock
<1>3. /\ now \in Nat /\ forth \in Nat /\ back \in Nat /\ swept \in Nat
      /\ now' \in Nat /\ forth' \in Nat /\ back' \in Nat
  BY <1>2, Numbers, TimeAssumption DEF CacheInv
<1>4. TypeOK'
  <2>1. /\ 0..now \subseteq 0..now'
        /\ (-back)..(now + forth) \subseteq (-back')..(now' + forth')
    <3>1. /\ now <= now' /\ forth <= forth' /\ back <= back'
          /\ now \in Nat /\ forth \in Nat /\ back \in Nat
          /\ now' \in Nat /\ forth' \in Nat /\ back' \in Nat
      BY <1>2, <1>3
    <3>2. (-back)..(now + forth) \subseteq (-back')..(now' + forth')
      BY <3>1, WiderInterval
    <3>3. 0..now \subseteq 0..now'
      BY <1>2, <1>3
    <3>4. QED
      BY <3>2, <3>3
  <2>2. passwords \in [DOMAIN passwords -> (-back')..(now' + forth')]
    BY <2>1 DEF CacheInv, TypeOK
  <2>3. sweeping \subseteq [at : 0..now', reading : (-back')..(now' + forth')]
    BY <2>1 DEF CacheInv, TypeOK
  <2>4. swept \in 0..now' /\ lastUse \in [Uuid -> 0..now']
    BY <2>1 DEF CacheInv, TypeOK
  <2>5. QED
    BY <1>1, <1>2, <2>2, <2>3, <2>4 DEF CacheInv, TypeOK
<1>5. StampsBounded' /\ YoungAtSweep'
  <2> SUFFICES ASSUME NEW u \in DOMAIN passwords
               PROVE  /\ -back' <= passwords[u] - lastUse[u]
                      /\ passwords[u] - lastUse[u] <= forth'
                      /\ lastUse[u] + Ttl + back' > swept
    BY <1>1 DEF StampsBounded, YoungAtSweep, Bounded, OffStamp
  <2>1. passwords[u] \in Int /\ lastUse[u] \in Nat
    BY Numbers DEF CacheInv
  <2>2. /\ -back <= passwords[u] - lastUse[u] /\ passwords[u] - lastUse[u] <= forth
        /\ lastUse[u] + Ttl + back > swept
    BY DEF CacheInv, StampsBounded, YoungAtSweep, Bounded, OffStamp
  <2>3. QED
    BY <1>2, <1>3, <2>1, <2>2, TimeAssumption
<1>6. ReadingsBounded'
  <2> SUFFICES ASSUME NEW sweep \in sweeping
               PROVE  /\ -back' <= sweep.reading - sweep.at
                      /\ sweep.reading - sweep.at <= forth'
    BY <1>1 DEF ReadingsBounded, Bounded, OffReading
  <2>1. sweep.at \in Nat /\ sweep.reading \in Int
    BY Numbers DEF CacheInv
  <2>2. -back <= sweep.reading - sweep.at /\ sweep.reading - sweep.at <= forth
    BY DEF CacheInv, ReadingsBounded, Bounded, OffReading
  <2>3. QED
    BY <1>2, <1>3, <2>1, <2>2
<1>7. AllNear'
  <2> SUFFICES ASSUME NEW u \in DOMAIN passwords, NEW sweep \in sweeping
               PROVE  Near(u, sweep)'
    BY <1>1 DEF AllNear
  <2>1. /\ passwords[u] \in Int /\ lastUse[u] \in Nat
        /\ sweep.at \in Nat /\ sweep.reading \in Int
    BY Numbers DEF CacheInv
  <2>2. Near(u, sweep)
    BY DEF CacheInv, AllNear
  <2>3. QED
    BY <1>1, <1>2, <1>3, <2>1, <2>2 DEF Near, OffStamp, OffReading
<1>8. QED
  BY <1>1, <1>2, <1>4, <1>5, <1>6, <1>7 DEF CacheInv

LEMMA NextCacheInv == CacheInv /\ [Next]_vars => CacheInv'
<1> SUFFICES ASSUME CacheInv, [Next]_vars PROVE CacheInv'
  OBVIOUS
<1>1. CASE \E uuid \in Uuid : SetPassword(uuid) \/ GetPassword(uuid)
  BY <1>1, StampKeepsInv DEF SetPassword, GetPassword
<1>2. CASE DeletePasswords
  <2>1. DOMAIN passwords' = {} /\ passwords' \in [{} -> (-back)..(now + forth)]
    BY <1>2 DEF DeletePasswords
  <2>2. UNCHANGED <<now, forth, back, sweeping, swept, lastUse>>
    BY <1>2 DEF DeletePasswords, clock
  <2>3. TypeOK'
    BY <2>1, <2>2 DEF CacheInv, TypeOK
  <2>4. QED
    BY <2>1, <2>2, <2>3
    DEF CacheInv, StampsBounded, ReadingsBounded, AllNear, YoungAtSweep, Bounded, OffReading
<1>3. CASE StartSweep
  BY <1>3, StartSweepKeepsInv
<1>4. CASE \E sweep \in sweeping : EndSweep(sweep)
  BY <1>4, EndSweepKeepsInv
<1>5. CASE Tick \/ SetClock
  BY <1>5, ClockKeepsInv
<1>6. CASE UNCHANGED vars
  BY <1>6 DEF vars, clock, CacheInv, TypeOK, StampsBounded, ReadingsBounded, AllNear,
              Near, YoungAtSweep, Bounded, OffStamp, OffReading
<1>7. QED
  BY <1>1, <1>2, <1>3, <1>4, <1>5, <1>6 DEF Next

LEMMA CacheInvHolds == Spec => []CacheInv
<1>1. QED
  BY InitCacheInv, NextCacheInv, PTL DEF Spec

-----------------------------------------------------------------------------

\* The cache keeps its types, and no time in it is one no clock has shown.
THEOREM TypeCorrect == Spec => []TypeOK
<1>1. CacheInv => TypeOK
  BY DEF CacheInv
<1>2. QED
  BY <1>1, CacheInvHolds, PTL

\* A password that is not used is not handed out Ttl + MaxGap after its last
\* use, plus what the clock was set back.
THEOREM IdlePasswordsExpireHolds == Spec => []IdlePasswordsExpire
<1>1. ASSUME CacheInv, NEW u \in DOMAIN passwords
      PROVE  now < lastUse[u] + Ttl + MaxGap + back
  <2>1. /\ now \in Nat /\ back \in Nat /\ swept \in Nat /\ lastUse[u] \in Nat
    BY <1>1, Numbers DEF CacheInv
  <2>2. lastUse[u] + Ttl + back > swept /\ now <= swept + MaxGap
    BY <1>1 DEF CacheInv, YoungAtSweep
  <2>3. QED
    BY <2>1, <2>2, TimeAssumption
<1>2. CacheInv => IdlePasswordsExpire
  BY <1>1 DEF IdlePasswordsExpire
<1>3. QED
  BY <1>2, CacheInvHolds, PTL

\* No sweep, however late it gets the lock, drops a password used less than
\* Ttl ago, but for what the clock was set.
THEOREM FreshPasswordsStayHolds == Spec => FreshPasswordsStay
<1>1. ASSUME CacheInv, Next, ~DeletePasswords,
             NEW u \in DOMAIN passwords \ DOMAIN passwords'
      PROVE  lastUse[u] + Ttl <= now + forth \/ lastUse[u] + Ttl <= now + back
  <2>1. PICK sweep \in sweeping : EndSweep(sweep)
    BY <1>1 DEF Next, SetPassword, GetPassword, Stamp, StartSweep, Tick, SetClock
  <2>2. u \notin Retained(sweep.reading)
    BY <2>1 DEF EndSweep, Retained
  <2>3. /\ now \in Nat /\ forth \in Nat /\ back \in Nat
        /\ passwords[u] \in Int /\ lastUse[u] \in Nat
        /\ sweep.at \in Nat /\ sweep.at <= now /\ sweep.reading \in Int
    BY <1>1, Numbers DEF CacheInv
  <2>4. passwords[u] + Ttl <= sweep.reading
    BY <2>2, <2>3, TimeAssumption DEF Retained
  <2>5. Near(u, sweep)
    BY <1>1 DEF CacheInv, AllNear
  <2>6. QED
    BY <2>3, <2>4, <2>5, TimeAssumption DEF Near, OffStamp, OffReading
<1>2. CacheInv /\ [Next]_vars =>
        [~DeletePasswords =>
           \A u \in DOMAIN passwords \ DOMAIN passwords' :
              lastUse[u] + Ttl <= now + forth \/ lastUse[u] + Ttl <= now + back]_vars
  BY <1>1
<1>3. QED
  BY <1>2, CacheInvHolds, PTL DEF Spec, FreshPasswordsStay
=============================================================================
