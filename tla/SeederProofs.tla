---------------------------- MODULE SeederProofs ----------------------------
(* Proofs of what servers that seed one database keep, for any number of them. *)
EXTENDS SeederAudit, TLAPS

USE DEF Starting, Item, Operators, Last

\* The places of the seeds, spelled out for the provers.
LEMMA SeedPlaces ==
    /\ \A k \in 1..Last : Seeds[k] \in Item
    /\ \A i \in Item : \E k \in 1..Last : Seeds[k] = i
    /\ \A k, l \in 1..Last : Seeds[k] = Seeds[l] => k = l
    /\ \A k \in 1..Last : Seeds[k] \in Operators =>
         \E l \in 1..Last : l < k /\ Seeds[l] = RoleOf(Seeds[k]) /\ Seeds[l] \notin Operators
  BY SMTT(60) DEF Seeds, RoleOf

LEMMA SeederInit ==
    ASSUME AuditInit
    PROVE  SeederIInv
  <1>. USE DEF AuditInit, Init
  <1>1. \A s \in Server : step[s] = "down"
    OBVIOUS
  <1>2. Passed /\ ListeningIsSeeded /\ StartRestores /\ TakenLater
    BY <1>1 DEF Passed, ListeningIsSeeded, StartRestores, TakenLater
  <1>3. TypeOK
    BY DEF TypeOK
  <1>4. InserterUp
    BY DEF InserterUp
  <1>. QED
    BY <1>2, <1>3, <1>4 DEF SeederIInv, AuditTypeOK

\* What a server that is up after a step remembers, it remembered before.
LEMMA Remembered ==
    ASSUME since \in [Server -> SUBSET Operators], Forget
    PROVE  /\ since' \in [Server -> SUBSET Operators]
           /\ \A r \in Server : since'[r] = IF step'[r] = "down" THEN {} ELSE since[r]
  BY DEF Forget

\* A server that advances has come past what it leaves.
LEMMA Advancing ==
    ASSUME SeederIInv, AuditTypeOK', Forget, NEW s \in Server, Advance(s), step[s] \in Starting,
           \A i \in Item : row[i] = "seeded" \/ i \in removed => row'[i] = "seeded" \/ i \in removed',
           \A i \in Item : row[i] # "none" => row'[i] # "none",
           row'[Seeding(s)] # "none",
           row'[Seeding(s)] = "seeded" \/ Seeding(s) \in removed'
    PROVE  Passed' /\ ListeningIsSeeded' /\ StartRestores'
  <1>. USE DEF SeederIInv, AuditTypeOK, TypeOK
  <1>0. \A r \in Server : since'[r] = IF step'[r] = "down" THEN {} ELSE since[r]
    BY Remembered
  <1>1. CASE at[s] = Last
    <2>1. step' = [step EXCEPT ![s] = "listening"] /\ at' = at
      BY <1>1 DEF Advance, Goto
    <2>2. Passed'
      BY <1>0, <2>1, SeedPlaces DEF Passed, Seeding
    <2>3. \A i \in Item : /\ row'[i] = "seeded" \/ i \in removed'
                          /\ row'[i] # "none" \/ i \in since'[s]
      BY <1>0, <1>1, <2>1, SeedPlaces DEF Passed, Seeding
    <2>. QED
      BY <1>0, <2>1, <2>2, <2>3 DEF ListeningIsSeeded, StartRestores
  <1>2. CASE at[s] # Last
    <2>1. step' = [step EXCEPT ![s] = "find"] /\ at' = [at EXCEPT ![s] = @ + 1]
      BY <1>2 DEF Advance
    <2>2. \A r \in Server \ {s} : step'[r] = step[r] /\ at'[r] = at[r]
      BY <2>1
    <2>3. step'[s] = "find" /\ at'[s] = at[s] + 1 /\ since'[s] = since[s]
      BY <1>0, <2>1
    <2>4. \A k \in 1..Last : k < at'[s] =>
            /\ row'[Seeds[k]] = "seeded" \/ Seeds[k] \in removed'
            /\ row'[Seeds[k]] # "none" \/ Seeds[k] \in since'[s]
      BY <2>3, SeedPlaces DEF Passed, Seeding
    <2>5. Passed'
      BY <1>0, <2>2, <2>3, <2>4, SeedPlaces DEF Passed, Seeding
    <2>. QED
      BY <1>0, <2>1, <2>5 DEF ListeningIsSeeded, StartRestores
  <1>. QED
    BY <1>1, <1>2

\* A server that stops, or goes on with the same item.
LEMMA Staying ==
    ASSUME SeederIInv, AuditTypeOK', Forget, NEW s \in Server, NEW p \in Starting \cup {"down"}, Goto(s, p),
           step[s] \in Starting \/ p = "down",
           p = "findRole" => Seeding(s) \in Operators,
           row' = row, removed' = removed
    PROVE  Passed' /\ ListeningIsSeeded' /\ StartRestores' /\ TakenLater'
  <1>. USE DEF SeederIInv, AuditTypeOK, TypeOK
  <1>1. \A r \in Server : since'[r] = IF step'[r] = "down" THEN {} ELSE since[r]
    BY Remembered
  <1>2. at' = at /\ step'[s] = p /\ \A r \in Server \ {s} : step'[r] = step[r]
    BY DEF Goto
  <1>3. Passed'
    BY <1>1, <1>2 DEF Passed, Seeding
  <1>. QED
    BY <1>1, <1>2, <1>3 DEF ListeningIsSeeded, StartRestores, TakenLater

\* A step of a starting server ends no server that listens.
LEMMA ListeningStays ==
    ASSUME SeederIInv, NEW s \in Server, step[s] # "listening", Listening,
           \A r \in Server \ {s} : step'[r] = step[r]
    PROVE  InserterUp'
  BY DEF Listening, InserterUp

LEMMA SeederStep ==
    ASSUME SeederIInv, [AuditNext]_auditVars
    PROVE  SeederIInv'
  <1>. USE SeederAuditAssumption DEF SeederIInv, AuditTypeOK, TypeOK
  <1>1. ASSUME NEW s \in Server, Inserts(s)
        PROVE  SeederIInv'
    <2>1. CASE row[Seeding(s)] = "none"
      <3>1. /\ row' = [row EXCEPT ![Seeding(s)] = "seeded"] /\ Advance(s)
            /\ Seeding(s) \in Item /\ step[s] = "insert"
        BY <1>1, <2>1, SeedPlaces DEF Inserts, Insert, Seeding
      <3>2. row' # row
        BY <2>1, <3>1
      <3>3. inserter' = s /\ removed' = removed \ {Seeding(s)} /\ broke' = broke /\ Forget
        BY <1>1, <3>2 DEF Inserts
      <3>4. AuditTypeOK'
        <4>1. step' \in [Server -> Starting \cup {"down", "listening"}] /\ at' \in [Server -> 1..Last]
          BY <3>1 DEF Advance, Goto
        <4>. QED
          BY <3>1, <3>3, <4>1, Remembered
      <3>5. Passed' /\ ListeningIsSeeded' /\ StartRestores'
        BY <3>1, <3>3, <3>4, Advancing
      <3>6. step'[s] \in {"find", "listening"}
        BY <3>1 DEF Advance, Goto
      <3>7. TakenLater'
        BY <3>1, <3>3 DEF TakenLater
      <3>. QED
        BY <3>3, <3>4, <3>5, <3>6, <3>7 DEF InserterUp
    <2>2. CASE row[Seeding(s)] # "none"
      <3>1. row' = row /\ Goto(s, "down") /\ step[s] = "insert" /\ Forget
        BY <1>1, <2>2 DEF Inserts, Insert
      <3>2. UNCHANGED <<inserter, removed, broke>>
        BY <1>1, <3>1 DEF Inserts
      <3>3. AuditTypeOK'
        BY <3>1, <3>2, Remembered DEF Goto
      <3>4. Passed' /\ ListeningIsSeeded' /\ StartRestores' /\ TakenLater'
        BY <3>1, <3>2, <3>3, Staying
      <3>5. at' = at /\ \A r \in Server \ {s} : step'[r] = step[r]
        BY <3>1 DEF Goto
      <3>6. broke \/ Listening \/ inserter # s
        <4>1. Seeding(s) \in Item
          BY SeedPlaces DEF Seeding
        <4>. QED
          BY <2>2, <3>1, <4>1 DEF InserterUp
      <3>7. CASE Listening
        BY <3>1, <3>3, <3>4, <3>5, <3>7, ListeningStays
      <3>8. CASE ~Listening
        BY <3>1, <3>2, <3>3, <3>4, <3>5, <3>6, <3>8 DEF InserterUp, Seeding
      <3>. QED
        BY <3>7, <3>8
    <2>. QED
      BY <2>1, <2>2
  <1>2. ASSUME NEW s \in Server, Boots(s)
        PROVE  SeederIInv'
    <2>1. /\ step[s] = "down" /\ step' = [step EXCEPT ![s] = "find"] /\ at' = [at EXCEPT ![s] = 1]
          /\ UNCHANGED <<row, inserter, removed, since, broke>>
      BY <1>2 DEF Boots, Bootstrap
    <2>2. AuditTypeOK'
      BY <2>1
    <2>3. Passed' /\ ListeningIsSeeded' /\ StartRestores' /\ TakenLater'
      BY <2>1 DEF Passed, ListeningIsSeeded, StartRestores, TakenLater, Seeding
    <2>4. (broke \/ InserterUp)'
      BY <2>1 DEF InserterUp, Listening, Seeding
    <2>. QED
      BY <2>2, <2>3, <2>4
  <1>3. ASSUME NEW s \in Server, Others(s)
        PROVE  SeederIInv'
    <2>1. row' = row /\ UNCHANGED <<inserter, removed, broke>> /\ Forget
      BY <1>3 DEF Others, Find, FindRole
    <2>2. CASE Find(s)
      <3>1. CASE row[Seeding(s)] # "none"
        <4>1. Advance(s) /\ step[s] = "find"
          BY <2>2, <3>1 DEF Find
        <4>2. AuditTypeOK'
          BY <2>1, <4>1, Remembered DEF Advance, Goto
        <4>3. Seeding(s) \in Item
          BY SeedPlaces DEF Seeding
        <4>4. row[Seeding(s)] = "seeded" \/ Seeding(s) \in removed
          BY <3>1, <4>3 DEF TakenLater
        <4>5. Passed' /\ ListeningIsSeeded' /\ StartRestores'
          BY <2>1, <3>1, <4>1, <4>2, <4>4, Advancing
        <4>6. step'[s] \in {"find", "listening"} /\ \A r \in Server \ {s} : step'[r] = step[r] /\ at'[r] = at[r]
          BY <4>1 DEF Advance, Goto
        <4>7. (broke \/ InserterUp)'
          BY <2>1, <4>1, <4>6 DEF InserterUp, Listening, Seeding
        <4>. QED
          BY <2>1, <4>2, <4>5, <4>7 DEF TakenLater
      <3>2. CASE row[Seeding(s)] = "none"
        <4>1. PICK p \in {"findRole", "insert"} :
                Goto(s, p) /\ step[s] = "find" /\ (p = "findRole" => Seeding(s) \in Operators)
          BY <2>2, <3>2 DEF Find
        <4>2. AuditTypeOK'
          BY <2>1, <4>1, Remembered DEF Goto
        <4>3. Passed' /\ ListeningIsSeeded' /\ StartRestores' /\ TakenLater'
          BY <2>1, <4>1, <4>2, Staying
        <4>4. (broke \/ InserterUp)'
          BY <2>1, <3>2, <4>1 DEF InserterUp, Listening, Goto, Seeding
        <4>. QED
          BY <4>2, <4>3, <4>4
      <3>. QED
        BY <3>1, <3>2
    <2>3. CASE FindRole(s)
      <3>1. step[s] = "findRole" /\ Seeding(s) \in Operators
        BY <2>3 DEF FindRole, Passed
      <3>2. row[RoleOf(Seeding(s))] # "none"
        BY <3>1, SeedPlaces DEF Passed, Seeding
      <3>3. Goto(s, "insert")
        BY <2>3, <3>2 DEF FindRole
      <3>4. AuditTypeOK'
        BY <2>1, <3>3, Remembered DEF Goto
      <3>5. Passed' /\ ListeningIsSeeded' /\ StartRestores' /\ TakenLater'
        BY <2>1, <3>1, <3>3, <3>4, Staying
      <3>6. (broke \/ InserterUp)'
        BY <2>1, <3>1, <3>3 DEF InserterUp, Listening, Goto, Seeding
      <3>. QED
        BY <2>1, <3>4, <3>5, <3>6
    <2>. QED
      BY <1>3, <2>2, <2>3 DEF Others
  <1>4. ASSUME NEW s \in Server, Breaks(s)
        PROVE  SeederIInv'
    <2>1. Goto(s, "down") /\ row' = row /\ broke' = TRUE /\ UNCHANGED <<inserter, removed>> /\ Forget
      BY <1>4 DEF Breaks, Stops
    <2>2. AuditTypeOK'
      BY <2>1, Remembered DEF Goto
    <2>. QED
      BY <2>1, <2>2, Staying
  <1>5. ASSUME NEW o \in Operators, Frees(o)
        PROVE  SeederIInv'
    <2>1. row' = [row EXCEPT ![o] = "none"] /\ removed' = removed \cup {o} /\ Listening
      BY <1>5 DEF Frees, Remove, Rename
    <2>2. UNCHANGED <<step, at, inserter, broke>>
      BY <1>5 DEF Frees, Remove, Rename
    <2>3. since' = [s \in Server |-> since[s] \cup {p \in {o} : step[s] # "down"}]
      BY <1>5 DEF Frees
    <2>4. \A r \in Server : /\ \A i \in Item : i \in since[r] => i \in since'[r]
                            /\ step[r] # "down" => o \in since'[r]
                            /\ step[r] = "down" => since'[r] = since[r]
      BY <2>3
    <2>5. AuditTypeOK'
      BY <2>1, <2>2, <2>3
    <2>6. \A j \in Item : IF j = o THEN row'[j] = "none" /\ j \in removed'
                          ELSE row'[j] = row[j] /\ (j \in removed' <=> j \in removed)
      BY <2>1
    <2>7. Passed'
      <3>1. ASSUME NEW r \in Server, step[r] \in Starting, NEW k \in 1..Last, k < at[r]
            PROVE  /\ row'[Seeds[k]] = "seeded" \/ Seeds[k] \in removed'
                   /\ row'[Seeds[k]] # "none" \/ Seeds[k] \in since'[r]
        <4>1. /\ Seeds[k] \in Item
              /\ row[Seeds[k]] = "seeded" \/ Seeds[k] \in removed
              /\ row[Seeds[k]] # "none" \/ Seeds[k] \in since[r]
          BY <3>1, SeedPlaces DEF Passed
        <4>. QED
          BY <2>4, <2>6, <3>1, <4>1
      <3>. QED
        BY <2>2, <2>4, <3>1 DEF Passed, Seeding
    <2>8. ListeningIsSeeded' /\ StartRestores' /\ TakenLater'
      BY <2>2, <2>4, <2>6 DEF ListeningIsSeeded, StartRestores, TakenLater
    <2>9. (broke \/ InserterUp)'
      BY <2>1, <2>2 DEF InserterUp, Listening
    <2>. QED
      BY <2>5, <2>7, <2>8, <2>9
  <1>6. ASSUME NEW o \in Operators, Takes(o)
        PROVE  SeederIInv'
    <2>1. row[o] = "none" /\ row' = [row EXCEPT ![o] = "took"] /\ Listening
      BY <1>6 DEF Takes, Take
    <2>2. UNCHANGED <<step, at, inserter, removed, since, broke>>
      BY <1>6 DEF Takes, Take
    <2>3. o \in removed
      BY <2>1 DEF Listening, ListeningIsSeeded
    <2>4. \A j \in Item : IF j = o THEN row'[j] = "took" ELSE row'[j] = row[j]
      BY <2>1
    <2>5. AuditTypeOK'
      BY <2>1, <2>2
    <2>6. Passed' /\ ListeningIsSeeded'
      BY <2>2, <2>3, <2>4, SeedPlaces DEF Passed, ListeningIsSeeded, Seeding
    <2>7. StartRestores' /\ TakenLater'
      BY <2>2, <2>3, <2>4 DEF StartRestores, TakenLater
    <2>8. (broke \/ InserterUp)'
      BY <2>1, <2>2 DEF InserterUp, Listening
    <2>. QED
      BY <2>5, <2>6, <2>7, <2>8
  <1>7. CASE UNCHANGED auditVars
    BY <1>7 DEF auditVars, vars, Passed, TakenLater, ListeningIsSeeded, StartRestores, InserterUp, Listening, Seeding
  <1>. QED
    BY <1>1, <1>2, <1>3, <1>4, <1>5, <1>6, <1>7 DEF AuditNext

\* The invariant about what the servers have come past, and who inserted last.
THEOREM SeederInductive == AuditSpec => []SeederIInv
  BY SeederInit, SeederStep, PTL DEF AuditSpec

\* A server that listens has all roles, the flag and the operators nobody
\* deleted or gave another e-mail.
THEOREM ListeningAlwaysSeeded == AuditSpec => []ListeningIsSeeded
  <1>1. SeederIInv => ListeningIsSeeded
    BY DEF SeederIInv
  <1>. QED
    BY <1>1, SeederInductive, PTL

\* Refused inserts never end the last of the servers that start together.
THEOREM AServerStaysUp == AuditSpec => []SomeServerUp
  <1>1. SeederIInv => SomeServerUp
    BY DEF SeederIInv, AuditTypeOK, InserterUp, Listening, SomeServerUp
  <1>. QED
    BY <1>1, SeederInductive, PTL

\* For any number of servers: an operator's configured e-mail is without a user
\* only under servers that started before it was freed.
THEOREM StartsRestore == AuditSpec => []StartRestores
  <1>1. SeederIInv => StartRestores
    BY DEF SeederIInv
  <1>. QED
    BY <1>1, SeederInductive, PTL

=============================================================================
