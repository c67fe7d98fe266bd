------------------------------ MODULE ApkProofs -----------------------------
(* Proofs of what becomes of the published file, for any uploads.            *)
EXTENDS ApkAudit, TLAPS

LEMMA ApkInit ==
    ASSUME AuditInit
    PROVE  ApkIInv
  BY ApkAssumption DEF AuditInit, Init, ApkIInv, AuditTypeOK, TypeOK, Alone, SinceDelete, SettledLast,
     Writers, OnlyOverlapsMix, Busy, Working

LEMMA ApkStep ==
    ASSUME ApkIInv, [AuditNext]_auditVars
    PROVE  ApkIInv'
  <1>. USE ApkAssumption DEF ApkIInv, AuditTypeOK, TypeOK, Working
  <1>1. ASSUME NEW u \in Upload, Begins(u)
        PROVE  ApkIInv'
    <2>1. /\ pc[u] = "new" /\ pc' = [pc EXCEPT ![u] = "write"] /\ apks' = apks
          /\ file' = {u} \cup {w \in Upload : pc[w] = "write"} /\ settled' = None
          /\ crossed' = IF Busy = {} THEN crossed ELSE crossed \cup Busy \cup {u}
      BY <1>1 DEF Begins, Begin, Goto
    <2>2. Busy' = Busy \cup {u}
      BY <2>1 DEF Busy
    <2>3. AuditTypeOK'
      BY <2>1 DEF Busy
    <2>4. Alone'
      BY <2>1, <2>2 DEF Alone, Busy
    <2>5. SinceDelete' /\ SettledLast' /\ Writers'
      BY <2>1 DEF SinceDelete, SettledLast, Writers
    <2>6. OnlyOverlapsMix'
      BY <2>1 DEF OnlyOverlapsMix, Busy
    <2>. QED
      BY <2>3, <2>4, <2>5, <2>6
  <1>2. ASSUME NEW u \in Upload, Inserts(u)
        PROVE  ApkIInv'
    <2>1. pc[u] = "insert" /\ u \in Busy /\ file' = file /\ crossed' = crossed
      BY <1>2 DEF Inserts, Insert, Busy
    <2>2. CASE VersionOf[u] \in Nat \ apks
      <3>1. pc' = [pc EXCEPT ![u] = "done"] /\ apks' = apks \cup {VersionOf[u]}
        BY <1>2, <2>2 DEF Inserts, Insert, Goto
      <3>2. settled' = IF u \notin crossed THEN u ELSE settled
        BY <1>2, <2>1, <3>1 DEF Inserts
      <3>3. Busy' = Busy \ {u}
        BY <3>1 DEF Busy
      <3>4. AuditTypeOK' /\ Writers'
        <4>1. TypeOK'
          BY <2>1, <2>2, <3>1
        <4>2. settled' \in Upload \cup {None}
          BY <3>2
        <4>. QED
          BY <2>1, <3>1, <4>1, <4>2 DEF Writers
      <3>5. CASE u \in crossed
        <4>1. settled' = None
          BY <2>1, <3>2, <3>5 DEF SettledLast
        <4>2. VersionOf[u] \in {VersionOf[w] : w \in crossed}
          BY <3>5
        <4>3. SinceDelete' /\ OnlyOverlapsMix'
          BY <2>1, <3>1, <4>2 DEF SinceDelete, OnlyOverlapsMix
        <4>4. Alone'
          BY <2>1, <3>1, <3>3, <3>5 DEF Alone
        <4>. QED
          BY <3>4, <4>1, <4>3, <4>4 DEF SettledLast
      <3>6. CASE u \notin crossed
        <4>1. Busy = {u} /\ file = {u} /\ apks = {}
          BY <2>1, <3>6 DEF Alone
        <4>2. SinceDelete'
          BY <3>1, <4>1 DEF SinceDelete, Busy
        <4>. QED
          BY <2>1, <3>1, <3>2, <3>3, <3>4, <3>6, <4>1, <4>2 DEF Alone, SettledLast, OnlyOverlapsMix
      <3>. QED
        BY <3>5, <3>6
    <2>3. CASE VersionOf[u] \notin Nat \ apks
      <3>1. pc' = [pc EXCEPT ![u] = "refused"] /\ apks' = apks /\ settled' = settled
        BY <1>2, <2>3 DEF Inserts, Insert, Goto
      <3>2. Busy' = Busy \ {u}
        BY <3>1 DEF Busy
      <3>. QED
        BY <2>1, <3>1, <3>2 DEF Alone, SinceDelete, SettledLast, Writers, OnlyOverlapsMix
    <2>. QED
      BY <2>2, <2>3
  <1>3. ASSUME NEW u \in Upload, Refuse(u)
        PROVE  pc' = [pc EXCEPT ![u] = "refused"] /\ Busy' = Busy \ {u} /\ UNCHANGED <<file, apks>>
    BY <1>3 DEF Refuse, Goto, Busy
  <1>4. ASSUME NEW u \in Upload, Fails(u)
        PROVE  pc' = [pc EXCEPT ![u] = "refused"] /\ Busy' = Busy \ {u} /\ UNCHANGED <<file, apks>>
    BY <1>4 DEF Fails, Goto, Busy
  <1>5. ASSUME NEW u \in Upload, Refuse(u) \/ Fails(u), UNCHANGED <<crossed, settled>>
        PROVE  ApkIInv'
    <2>1. pc' = [pc EXCEPT ![u] = "refused"] /\ Busy' = Busy \ {u} /\ UNCHANGED <<file, apks>>
      BY <1>3, <1>4, <1>5
    <2>2. Alone' /\ SettledLast'
      BY <1>5, <2>1 DEF Alone, SettledLast
    <2>. QED
      BY <1>5, <2>1, <2>2 DEF SinceDelete, Writers, OnlyOverlapsMix
  <1>6. ASSUME NEW u \in Upload, Written(u), UNCHANGED <<crossed, settled>>
        PROVE  ApkIInv'
    <2>1. pc[u] = "write" /\ pc' = [pc EXCEPT ![u] = "delete"] /\ UNCHANGED <<file, apks>> /\ Busy' = Busy
      BY <1>6 DEF Written, Goto, Busy
    <2>. QED
      BY <1>6, <2>1 DEF Alone, SinceDelete, SettledLast, Writers, OnlyOverlapsMix
  <1>7. ASSUME NEW u \in Upload, Delete(u), UNCHANGED <<crossed, settled>>
        PROVE  ApkIInv'
    <2>1. pc[u] = "delete" /\ pc' = [pc EXCEPT ![u] = "insert"] /\ apks' = {} /\ file' = file
      BY <1>7 DEF Delete, Goto
    <2>2. u \in Busy /\ Busy' = Busy
      BY <2>1 DEF Busy
    <2>3. settled = None
      BY <2>2 DEF SettledLast
    <2>. QED
      BY <1>7, <2>1, <2>2, <2>3 DEF Alone, SinceDelete, SettledLast, Writers, OnlyOverlapsMix
  <1>8. CASE UNCHANGED auditVars
    BY <1>8 DEF auditVars, vars, Alone, SinceDelete, SettledLast, Writers, OnlyOverlapsMix, Busy
  <1>. QED
    BY <1>1, <1>2, <1>5, <1>6, <1>7, <1>8 DEF AuditNext, Others

\* The invariant about uploads that are alone, and what they have done so far.
THEOREM ApkInductive == AuditSpec => []ApkIInv
  BY ApkInit, ApkStep, PTL DEF AuditSpec

\* What an undisturbed upload published is announced and sent.
THEOREM UploadsTakeEffect == AuditSpec => []UploadTakesEffect
  <1>1. ApkIInv => UploadTakesEffect
    BY ApkAssumption DEF ApkIInv, AuditTypeOK, TypeOK, SettledLast, UploadTakesEffect, Announced, Downloaded, Latest
  <1>. QED
    BY <1>1, ApkInductive, PTL

\* Several versions, or the bytes of several files, come only from overlaps.
THEOREM MixedOnlyByOverlaps == AuditSpec => []OnlyOverlapsMix
  <1>1. ApkIInv => OnlyOverlapsMix
    BY DEF ApkIInv
  <1>. QED
    BY <1>1, ApkInductive, PTL

=============================================================================
