-------------------------- MODULE KeyRotationProofs --------------------------
(****************************************************************************)
(* What the key directory keeps, for every --keep-prev, wherever the script *)
(* dies and however often it is run again: PairsMatch and GraceNeverLost;   *)
(* and what the processes that load it in the meantime make of it:          *)
(* TornPairsSignOlder and GraceTokensVerify.                                *)
(*                                                                          *)
(* The argument.  When the cascade turns to a slot, the slot is empty: the  *)
(* oldest was dropped, each other one has just been moved on.  So the       *)
(* unlinks of _move_pair find nothing, a rename never overwrites a file,    *)
(* and a name is never filled from two keys.  And no key is moved more than *)
(* once by a run of the script, so a key sits no further from current than  *)
(* the rotations completed since, plus the deaths, plus the run under way.  *)
(* To a reader such a step only ages the files: he may miss a key that      *)
(* moves, but the private half of a name that he reads first is never       *)
(* younger than the public half he reads after it.                          *)
(****************************************************************************)
EXTENDS KeyRotation, FiniteSetTheorems, TLAPS

Cascading == {"move", "unlink key", "unlink pub", "rename key", "rename pub"}

\* Where a run of the script has got to, and what it has therefore emptied.
ScriptInv ==
    /\ script.op \in Cascading => script.slot \in 1..KeepPrev
    /\ script.op \in {"drop key", "drop pub"} => script.slot = KeepPrev
    /\ script.op = "drop pub" => files[KeepPrev].key = 0
    /\ script.op \in {"idle", "install key", "install pub"} => script.slot = Current
    /\ script.op \in Cascading \ {"rename pub"} => files[script.slot] = NoPair
    /\ script.op = "rename pub" =>
         /\ files[script.slot].pub = 0
         /\ files[script.slot - 1].key = 0
         /\ \/ files[script.slot].key = 0
            \/ files[script.slot - 1].pub = 0
            \/ files[script.slot].key = files[script.slot - 1].pub
    /\ script.op = "install key" => files[Current] = NoPair
    /\ script.op = "install pub" => files[Current] = Pair(made, 0)
    /\ script.op # "idle" => made \notin completed

DirectoryInv == DirectoryTypeOK /\ PairsMatch /\ ScriptInv

LEMMA SlotFacts ==
  /\ KeepPrev \in Nat /\ KeepPrev >= 1
  /\ Slots = 0..(KeepPrev + 1) /\ Current \in Slots /\ Legacy \in Slots
  /\ 0..KeepPrev \subseteq Slots /\ KeepPrev \in 0..KeepPrev /\ KeepPrev \in Slots
  /\ Current = 0 /\ NoPair \in Pairs /\ NoPair.key = 0 /\ NoPair.pub = 0
  BY KeyRotationAssumption DEF Slots, Current, Legacy, NoPair, Pairs, Pair

\* A pair is its halves.
LEMMA PairHalves ==
  /\ \A k, q \in Nat : Pair(k, q) \in Pairs /\ Pair(k, q).key = k /\ Pair(k, q).pub = q
  /\ \A a \in Pairs : a.key \in Nat /\ a.pub \in Nat /\ a = Pair(a.key, a.pub)
  BY DEF Pairs, Pair

\* Where the script goes next.
LEMMA ThenFacts ==
  ASSUME NEW op \in Ops, NEW slot \in 0..KeepPrev, Then(op, slot)
  PROVE  script' \in [op : Ops, slot : 0..KeepPrev] /\ script'.op = op /\ script'.slot = slot
  BY DEF Then

LEMMA NextMoveFacts ==
  ASSUME NEW slot \in 1..KeepPrev, NextMove(slot)
  PROVE  /\ script' \in [op : Ops, slot : 0..KeepPrev]
         /\ slot > 1 => script'.op = "move" /\ script'.slot = slot - 1
         /\ ~(slot > 1) => script'.op = "install key" /\ script'.slot = 0
<1>1. CASE slot > 1
  <2>1. Then("move", slot - 1)
    BY <1>1, Zenon DEF NextMove
  <2>2. slot - 1 \in 0..KeepPrev /\ "move" \in Ops
    BY SlotFacts DEF Ops
  <2>3. /\ script' \in [op : Ops, slot : 0..KeepPrev]
        /\ script'.op = "move" /\ script'.slot = slot - 1
    BY <2>1, <2>2, ThenFacts, Zenon
  <2>4. QED
    BY <2>3, <1>1, Zenon
<1>2. CASE ~(slot > 1)
  <2>1. Then("install key", Current)
    BY <1>2, Zenon DEF NextMove
  <2>2. Current \in 0..KeepPrev /\ Current = 0 /\ "install key" \in Ops
    BY SlotFacts DEF Ops
  <2>3. /\ script' \in [op : Ops, slot : 0..KeepPrev]
        /\ script'.op = "install key" /\ script'.slot = 0
    BY <2>1, <2>2, ThenFacts, Zenon
  <2>4. QED
    BY <2>3, <1>2, Zenon
<1>3. QED
  BY <1>1, <1>2, Zenon

LEMMA DirectoryInit == Init => DirectoryInv
<1> SUFFICES ASSUME Init PROVE DirectoryInv
  OBVIOUS
<1>1. PICK s \in {Current, Legacy} :
        /\ files = [NoKeys EXCEPT ![s] = Pair(1, 1)]
        /\ completed = IF s = Current THEN {1} ELSE {}
  BY DEF Init
<1>2. /\ files \in [Slots -> Pairs]
      /\ \A x \in Slots : files[x] = NoPair \/ files[x] = Pair(1, 1)
  BY <1>1, SlotFacts, PairHalves DEF NoKeys
<1>3. PairsMatch
  BY <1>2, SlotFacts, PairHalves DEF PairsMatch
<1>4. script = [op |-> "idle", slot |-> Current] /\ made = 1 /\ crashes = 0
  BY DEF Init
<1>5. DirectoryTypeOK
  BY <1>1, <1>2, <1>4, SlotFacts DEF DirectoryTypeOK, Ops
<1>6. ScriptInv
  BY <1>4 DEF ScriptInv, Cascading
<1>7. QED
  BY <1>3, <1>5, <1>6 DEF DirectoryInv

\* The cascade goes on one slot down, which the last move has emptied, or to the
\* installation of the new pair.
LEMMA NextMoveInv ==
  ASSUME DirectoryInv, script.slot \in 1..KeepPrev, NextMove(script.slot),
         files' \in [Slots -> Pairs], PairsMatch', files'[script.slot - 1] = NoPair,
         script.op # "idle", made' = made, completed' = completed, crashes' = crashes
  PROVE  DirectoryInv'
<1>1. made' \notin completed'
  BY DEF DirectoryInv, ScriptInv
<1>2. DirectoryTypeOK'
  BY NextMoveFacts DEF DirectoryInv, DirectoryTypeOK
<1>3. CASE script.slot > 1
  <2>1. script'.op = "move" /\ script'.slot = script.slot - 1
    BY <1>3, NextMoveFacts
  <2>2. script'.slot \in 1..KeepPrev /\ files'[script'.slot] = NoPair
    BY <2>1, <1>3, SlotFacts
  <2>3. ScriptInv'
    BY <2>1, <2>2, <1>1 DEF ScriptInv, Cascading
  <2>4. QED
    BY <2>3, <1>2 DEF DirectoryInv
<1>4. CASE ~(script.slot > 1)
  <2>1. script'.op = "install key" /\ script'.slot = 0
    BY <1>4, NextMoveFacts, Zenon
  <2>a. script.slot - 1 = 0
    BY <1>4, SlotFacts
  <2>2. files'[Current] = NoPair /\ script'.slot = Current
    BY <2>1, <2>a, SlotFacts
  <2>3. ScriptInv'
    BY <2>1, <2>2, <1>1 DEF ScriptInv, Cascading
  <2>4. QED
    BY <2>3, <1>2 DEF DirectoryInv
<1>5. QED
  BY <1>3, <1>4, Zenon

\* What a removed half leaves.
LEMMA RemoveKeyFacts ==
  ASSUME NEW s \in Slots, files \in [Slots -> Pairs], RemoveKey(s)
  PROVE  /\ files' \in [Slots -> Pairs]
         /\ files'[s].key = 0 /\ files'[s].pub = files[s].pub
         /\ \A x \in Slots : x # s => files'[x] = files[x]
<1>1. files[s] \in Pairs /\ files[s].pub \in Nat
  BY PairHalves
<1>2. Pair(0, files[s].pub) \in Pairs
  BY <1>1, PairHalves
<1>3. files' = [files EXCEPT ![s] = Pair(0, files[s].pub)]
  BY DEF RemoveKey
<1>4. files'[s] = Pair(0, files[s].pub)
  BY <1>3
<1>5. QED
  BY <1>1, <1>2, <1>3, <1>4, PairHalves

LEMMA RemovePubFacts ==
  ASSUME NEW s \in Slots, files \in [Slots -> Pairs], RemovePub(s)
  PROVE  /\ files' \in [Slots -> Pairs]
         /\ files'[s].key = files[s].key /\ files'[s].pub = 0
         /\ \A x \in Slots : x # s => files'[x] = files[x]
<1>1. files[s] \in Pairs /\ files[s].key \in Nat
  BY PairHalves
<1>2. Pair(files[s].key, 0) \in Pairs
  BY <1>1, PairHalves
<1>3. files' = [files EXCEPT ![s] = Pair(files[s].key, 0)]
  BY DEF RemovePub
<1>4. files'[s] = Pair(files[s].key, 0)
  BY <1>3
<1>5. QED
  BY <1>1, <1>2, <1>3, <1>4, PairHalves

\* A pair without halves is no pair.
LEMMA EmptyPair == \A a \in Pairs : a.key = 0 /\ a.pub = 0 <=> a = NoPair
  BY PairHalves DEF NoPair

\* A step of the script that goes on to op, and what is left to show of it.
LEMMA ThenInv ==
  ASSUME DirectoryInv, NEW op \in Ops \ {"idle"}, NEW slot \in 0..KeepPrev, Then(op, slot),
         files' \in [Slots -> Pairs], PairsMatch',
         script.op # "idle", made' = made, completed' = completed, crashes' = crashes
  PROVE  /\ script'.op = op /\ script'.slot = slot
         /\ DirectoryTypeOK' /\ PairsMatch' /\ made' \notin completed'
<1>1. script' \in [op : Ops, slot : 0..KeepPrev] /\ script'.op = op /\ script'.slot = slot
  BY ThenFacts, Zenon
<1>2. DirectoryTypeOK'
  BY <1>1 DEF DirectoryInv, DirectoryTypeOK
<1>3. QED
  BY <1>1, <1>2 DEF DirectoryInv, ScriptInv

LEMMA RotateInv == ASSUME DirectoryInv, Rotate PROVE DirectoryInv'
<1>1. /\ script.op = "idle" /\ made' = made + 1 /\ Then("drop key", KeepPrev)
      /\ files' = files /\ completed' = completed /\ crashes' = crashes
  BY DEF Rotate, At, Oldest
<1>2. KeepPrev \in 0..KeepPrev /\ "drop key" \in Ops
  BY SlotFacts DEF Ops
<1>3. /\ script' \in [op : Ops, slot : 0..KeepPrev]
      /\ script'.op = "drop key" /\ script'.slot = KeepPrev
  BY <1>1, <1>2, ThenFacts, Zenon
<1>4. /\ made' \in Nat \ {0} /\ made' \notin completed'
      /\ completed' \subseteq 1..made'
  <2>1. made \in Nat \ {0} /\ completed \subseteq 1..made
    BY DEF DirectoryInv, DirectoryTypeOK
  <2>2. made + 1 \in Nat \ {0} /\ made + 1 \notin 1..made /\ 1..made \subseteq 1..(made + 1)
    BY <2>1
  <2>3. QED
    BY <1>1, <2>1, <2>2
<1>5. DirectoryTypeOK' /\ PairsMatch'
  BY <1>1, <1>3, <1>4 DEF DirectoryInv, DirectoryTypeOK, PairsMatch
<1>6. ScriptInv'
  BY <1>3, <1>4 DEF ScriptInv, Cascading
<1>7. QED
  BY <1>5, <1>6 DEF DirectoryInv

LEMMA DropKeyInv == ASSUME DirectoryInv, DropKey PROVE DirectoryInv'
<1>1. /\ script.op = "drop key" /\ RemoveKey(KeepPrev) /\ Then("drop pub", KeepPrev)
      /\ made' = made /\ completed' = completed /\ crashes' = crashes
  BY DEF DropKey, DirUnchanged, At, Oldest
<1>2. /\ KeepPrev \in 0..KeepPrev /\ KeepPrev \in Slots /\ "drop pub" \in Ops \ {"idle"}
      /\ files \in [Slots -> Pairs]
  BY SlotFacts DEF Ops, DirectoryInv, DirectoryTypeOK
<1>3. /\ files' \in [Slots -> Pairs] /\ files'[KeepPrev].key = 0
      /\ \A x \in Slots : x # KeepPrev => files'[x] = files[x]
  BY <1>1, <1>2, RemoveKeyFacts, Zenon
<1>4. PairsMatch'
  BY <1>3 DEF DirectoryInv, PairsMatch
<1>5. /\ script'.op = "drop pub" /\ script'.slot = KeepPrev
      /\ DirectoryTypeOK' /\ made' \notin completed'
  BY <1>1, <1>2, <1>3, <1>4, ThenInv
<1>6. ScriptInv'
  BY <1>3, <1>5 DEF ScriptInv, Cascading
<1>7. QED
  BY <1>4, <1>5, <1>6 DEF DirectoryInv

LEMMA DropPubInv == ASSUME DirectoryInv, DropPub PROVE DirectoryInv'
<1>1. /\ script.op = "drop pub" /\ RemovePub(KeepPrev) /\ Then("move", KeepPrev)
      /\ made' = made /\ completed' = completed /\ crashes' = crashes
  BY DEF DropPub, DirUnchanged, At, Oldest, Target
<1>2. /\ KeepPrev \in 0..KeepPrev /\ KeepPrev \in Slots /\ "move" \in Ops \ {"idle"}
      /\ files \in [Slots -> Pairs]
  BY SlotFacts DEF Ops, DirectoryInv, DirectoryTypeOK
<1>3. /\ files' \in [Slots -> Pairs] /\ files'[KeepPrev].pub = 0
      /\ files'[KeepPrev].key = files[KeepPrev].key
      /\ \A x \in Slots : x # KeepPrev => files'[x] = files[x]
  BY <1>1, <1>2, RemovePubFacts, Zenon
<1>4. PairsMatch'
  BY <1>3 DEF DirectoryInv, PairsMatch
<1>5. /\ script'.op = "move" /\ script'.slot = KeepPrev
      /\ DirectoryTypeOK' /\ made' \notin completed'
  BY <1>1, <1>2, <1>3, <1>4, ThenInv
<1>6. files[KeepPrev].key = 0
  BY <1>1 DEF DirectoryInv, ScriptInv
<1>7. files'[KeepPrev] = NoPair
  BY <1>2, <1>3, <1>6, EmptyPair
<1>8. KeepPrev \in 1..KeepPrev
  BY SlotFacts
<1>9. ScriptInv'
  BY <1>5, <1>7, <1>8 DEF ScriptInv, Cascading
<1>10. QED
  BY <1>4, <1>5, <1>9 DEF DirectoryInv

\* In a cascade both slots of the move are slots of the directory.
LEMMA CascadeFacts ==
  ASSUME DirectoryInv, script.op \in Cascading
  PROVE  /\ script.slot \in 1..KeepPrev /\ script.slot \in 0..KeepPrev
         /\ script.slot \in Slots /\ script.slot - 1 \in Slots
         /\ script.slot # script.slot - 1
         /\ files \in [Slots -> Pairs]
         /\ files[script.slot] \in Pairs /\ files[script.slot - 1] \in Pairs
<1>1. script.slot \in 1..KeepPrev /\ files \in [Slots -> Pairs]
  BY DEF DirectoryInv, DirectoryTypeOK, ScriptInv
<1>2. /\ script.slot \in 0..KeepPrev /\ script.slot - 1 \in 0..KeepPrev
      /\ script.slot # script.slot - 1
  BY <1>1, SlotFacts
<1>3. QED
  BY <1>1, <1>2, SlotFacts

LEMMA MoveInv == ASSUME DirectoryInv, Move PROVE DirectoryInv'
<1>1. /\ script.op = "move" /\ files' = files
      /\ made' = made /\ completed' = completed /\ crashes' = crashes
  BY DEF Move, DirUnchanged, At
<1>2. script.op \in Cascading /\ script.op # "idle" /\ files[script.slot] = NoPair
  BY <1>1 DEF Cascading, DirectoryInv, ScriptInv
<1>3. files' \in [Slots -> Pairs] /\ PairsMatch'
  BY <1>1 DEF DirectoryInv, DirectoryTypeOK, PairsMatch
<1>4. CASE files[script.slot - 1] = NoPair
  <2>1. NextMove(script.slot)
    BY <1>4 DEF Move
  <2>2. QED
    BY <1>1, <1>2, <1>3, <1>4, <2>1, CascadeFacts, NextMoveInv
<1>5. CASE files[script.slot - 1] # NoPair
  <2>1. Then("unlink key", script.slot) /\ "unlink key" \in Ops \ {"idle"}
    BY <1>5 DEF Move, Ops
  <2>2. /\ script'.op = "unlink key" /\ script'.slot = script.slot
        /\ DirectoryTypeOK' /\ made' \notin completed'
    BY <1>1, <1>2, <1>3, <2>1, CascadeFacts, ThenInv
  <2>3. script.slot \in 1..KeepPrev
    BY <1>2, CascadeFacts
  <2>4. ScriptInv'
    BY <1>1, <1>2, <2>2, <2>3 DEF ScriptInv, Cascading
  <2>5. QED
    BY <1>3, <2>2, <2>4 DEF DirectoryInv
<1>6. QED
  BY <1>4, <1>5

LEMMA UnlinkKeyInv == ASSUME DirectoryInv, UnlinkKey PROVE DirectoryInv'
<1>1. /\ script.op = "unlink key" /\ RemoveKey(script.slot) /\ Then("unlink pub", script.slot)
      /\ made' = made /\ completed' = completed /\ crashes' = crashes
  BY DEF UnlinkKey, DirUnchanged, At
<1>2. script.op \in Cascading /\ files[script.slot] = NoPair /\ script.op # "idle"
  BY <1>1 DEF Cascading, DirectoryInv, ScriptInv
<1>3. /\ files' \in [Slots -> Pairs] /\ files'[script.slot].key = 0
      /\ files'[script.slot].pub = files[script.slot].pub
      /\ \A x \in Slots : x # script.slot => files'[x] = files[x]
  BY <1>1, <1>2, CascadeFacts, RemoveKeyFacts
<1>4. files'[script.slot] = NoPair
  BY <1>2, <1>3, CascadeFacts, EmptyPair, SlotFacts
<1>5. PairsMatch'
  BY <1>3 DEF DirectoryInv, PairsMatch
<1>6. "unlink pub" \in Ops \ {"idle"} /\ script.slot \in 0..KeepPrev /\ script.slot \in 1..KeepPrev
  BY <1>2, CascadeFacts DEF Ops
<1>7. /\ script'.op = "unlink pub" /\ script'.slot = script.slot
      /\ DirectoryTypeOK' /\ made' \notin completed'
  BY <1>1, <1>2, <1>3, <1>5, <1>6, ThenInv
<1>8. ScriptInv'
  BY <1>4, <1>6, <1>7 DEF ScriptInv, Cascading
<1>9. QED
  BY <1>5, <1>7, <1>8 DEF DirectoryInv

LEMMA UnlinkPubInv == ASSUME DirectoryInv, UnlinkPub PROVE DirectoryInv'
<1>1. /\ script.op = "unlink pub" /\ RemovePub(script.slot) /\ Then("rename key", script.slot)
      /\ made' = made /\ completed' = completed /\ crashes' = crashes
  BY DEF UnlinkPub, DirUnchanged, At
<1>2. script.op \in Cascading /\ files[script.slot] = NoPair /\ script.op # "idle"
  BY <1>1 DEF Cascading, DirectoryInv, ScriptInv
<1>3. /\ files' \in [Slots -> Pairs] /\ files'[script.slot].pub = 0
      /\ files'[script.slot].key = files[script.slot].key
      /\ \A x \in Slots : x # script.slot => files'[x] = files[x]
  BY <1>1, <1>2, CascadeFacts, RemovePubFacts
<1>4. files'[script.slot] = NoPair
  BY <1>2, <1>3, CascadeFacts, EmptyPair, SlotFacts
<1>5. PairsMatch'
  BY <1>3 DEF DirectoryInv, PairsMatch
<1>6. "rename key" \in Ops \ {"idle"} /\ script.slot \in 0..KeepPrev /\ script.slot \in 1..KeepPrev
  BY <1>2, CascadeFacts DEF Ops
<1>7. /\ script'.op = "rename key" /\ script'.slot = script.slot
      /\ DirectoryTypeOK' /\ made' \notin completed'
  BY <1>1, <1>2, <1>3, <1>5, <1>6, ThenInv
<1>8. ScriptInv'
  BY <1>4, <1>6, <1>7 DEF ScriptInv, Cascading
<1>9. QED
  BY <1>5, <1>7, <1>8 DEF DirectoryInv

LEMMA RenameKeyInv == ASSUME DirectoryInv, RenameKey PROVE DirectoryInv'
<1> DEFINE slot == script.slot
           source == script.slot - 1
<1>1. /\ script.op = "rename key" /\ Then("rename pub", slot)
      /\ files' = [files EXCEPT ![slot] = Pair(files[source].key, @.pub),
                                ![source] = Pair(0, @.pub)]
      /\ made' = made /\ completed' = completed /\ crashes' = crashes
  BY DEF RenameKey, DirUnchanged, At
<1>2. script.op \in Cascading /\ files[slot] = NoPair /\ script.op # "idle"
  BY <1>1 DEF Cascading, DirectoryInv, ScriptInv
<1>3. /\ slot \in Slots /\ source \in Slots /\ slot # source
      /\ slot \in 1..KeepPrev /\ slot \in 0..KeepPrev
      /\ files \in [Slots -> Pairs] /\ files[slot] \in Pairs /\ files[source] \in Pairs
  BY <1>2, CascadeFacts
<1> HIDE DEF slot, source
<1>4. /\ files[source].key \in Nat /\ files[source].pub \in Nat /\ files[slot].pub = 0
      /\ Pair(files[source].key, files[slot].pub) \in Pairs
      /\ Pair(0, files[source].pub) \in Pairs
  BY <1>2, <1>3, PairHalves, SlotFacts
<1>5. /\ files' \in [Slots -> Pairs]
      /\ files'[slot] = Pair(files[source].key, files[slot].pub)
      /\ files'[source] = Pair(0, files[source].pub)
      /\ \A x \in Slots : x # slot /\ x # source => files'[x] = files[x]
  BY <1>1, <1>3, <1>4
<1>6. /\ files'[slot].key = files[source].key /\ files'[slot].pub = 0
      /\ files'[source].key = 0 /\ files'[source].pub = files[source].pub
  BY <1>4, <1>5, PairHalves
<1>7. PairsMatch'
  BY <1>5, <1>6 DEF DirectoryInv, PairsMatch
<1>8. "rename pub" \in Ops \ {"idle"}
  BY DEF Ops
<1>9. /\ script'.op = "rename pub" /\ script'.slot = slot
      /\ DirectoryTypeOK' /\ made' \notin completed'
  BY <1>1, <1>2, <1>3, <1>5, <1>7, <1>8, ThenInv
<1>10. \/ files'[slot].key = 0
       \/ files'[source].pub = 0
       \/ files'[slot].key = files'[source].pub
  BY <1>3, <1>6 DEF DirectoryInv, PairsMatch
<1>11. script'.slot - 1 = source
  BY <1>9 DEF slot, source
<1>12. ScriptInv'
  BY <1>3, <1>6, <1>9, <1>10, <1>11 DEF ScriptInv, Cascading
<1>13. QED
  BY <1>7, <1>9, <1>12 DEF DirectoryInv

LEMMA RenamePubInv == ASSUME DirectoryInv, RenamePub PROVE DirectoryInv'
<1> DEFINE slot == script.slot
           source == script.slot - 1
<1>1. /\ script.op = "rename pub" /\ NextMove(slot)
      /\ files' = [files EXCEPT ![slot] = Pair(@.key, files[source].pub),
                                ![source] = Pair(@.key, 0)]
      /\ made' = made /\ completed' = completed /\ crashes' = crashes
  BY DEF RenamePub, DirUnchanged, At
<1>2. /\ script.op \in Cascading /\ script.op # "idle" /\ files[source].key = 0
      /\ \/ files[slot].key = 0
         \/ files[source].pub = 0
         \/ files[slot].key = files[source].pub
  BY <1>1 DEF Cascading, DirectoryInv, ScriptInv
<1>3. /\ slot \in Slots /\ source \in Slots /\ slot # source
      /\ slot \in 1..KeepPrev
      /\ files \in [Slots -> Pairs] /\ files[slot] \in Pairs /\ files[source] \in Pairs
  BY <1>2, CascadeFacts
<1>a. source = script.slot - 1 /\ slot = script.slot
  OBVIOUS
<1> HIDE DEF slot, source
<1>4. /\ files[slot].key \in Nat /\ files[source].pub \in Nat
      /\ Pair(files[slot].key, files[source].pub) \in Pairs
      /\ Pair(files[source].key, 0) \in Pairs /\ Pair(files[source].key, 0) = NoPair
  BY <1>2, <1>3, PairHalves, SlotFacts DEF NoPair
<1>5. /\ files' \in [Slots -> Pairs]
      /\ files'[slot] = Pair(files[slot].key, files[source].pub)
      /\ files'[source] = NoPair
      /\ \A x \in Slots : x # slot /\ x # source => files'[x] = files[x]
  BY <1>1, <1>3, <1>4
<1>6. /\ files'[slot].key = files[slot].key /\ files'[slot].pub = files[source].pub
      /\ files'[source].key = 0
  BY <1>4, <1>5, PairHalves, SlotFacts
<1>7. PairsMatch'
  BY <1>2, <1>5, <1>6 DEF DirectoryInv, PairsMatch
<1>8. QED
  BY <1>a, <1>1, <1>2, <1>3, <1>5, <1>7, NextMoveInv

LEMMA InstallKeyInv == ASSUME DirectoryInv, InstallKey PROVE DirectoryInv'
<1>1. /\ script.op = "install key" /\ Then("install pub", Current)
      /\ files' = [files EXCEPT ![Current] = Pair(made, @.pub)]
      /\ made' = made /\ completed' = completed /\ crashes' = crashes
  BY DEF InstallKey, DirUnchanged, At
<1>2. /\ script.op # "idle" /\ files[Current] = NoPair /\ files \in [Slots -> Pairs]
      /\ made \in Nat
  BY <1>1 DEF DirectoryInv, DirectoryTypeOK, ScriptInv
<1>3. Pair(made, 0) \in Pairs /\ Pair(made, 0).pub = 0 /\ Pair(made, files[Current].pub) = Pair(made, 0)
  BY <1>2, PairHalves, SlotFacts
<1>4. /\ files' \in [Slots -> Pairs] /\ files'[Current] = Pair(made, 0)
      /\ \A x \in Slots : x # Current => files'[x] = files[x]
  BY <1>1, <1>2, <1>3, SlotFacts
<1>5. PairsMatch'
  BY <1>3, <1>4 DEF DirectoryInv, PairsMatch
<1>6. "install pub" \in Ops \ {"idle"} /\ Current \in 0..KeepPrev
  BY SlotFacts DEF Ops
<1>7. /\ script'.op = "install pub" /\ script'.slot = Current
      /\ DirectoryTypeOK' /\ made' \notin completed'
  BY <1>1, <1>2, <1>4, <1>5, <1>6, ThenInv
<1>8. files'[Current] = Pair(made', 0)
  BY <1>1, <1>4
<1>9. ScriptInv'
  BY <1>7, <1>8 DEF ScriptInv, Cascading
<1>10. QED
  BY <1>5, <1>7, <1>9 DEF DirectoryInv

LEMMA InstallPubInv == ASSUME DirectoryInv, InstallPub PROVE DirectoryInv'
<1>1. /\ script.op = "install pub" /\ Then("idle", Current)
      /\ files' = [files EXCEPT ![Current] = Pair(@.key, made)]
      /\ made' = made /\ completed' = completed \union {made} /\ crashes' = crashes
  BY DEF InstallPub, At
<1>2. /\ files[Current] = Pair(made, 0) /\ files \in [Slots -> Pairs]
      /\ made \in Nat \ {0} /\ completed \subseteq 1..made
  BY <1>1 DEF DirectoryInv, DirectoryTypeOK, ScriptInv
<1>3. /\ Pair(made, made) \in Pairs /\ Pair(made, made).pub = Pair(made, made).key
      /\ Pair(files[Current].key, made) = Pair(made, made)
  BY <1>2, PairHalves
<1>4. /\ files' \in [Slots -> Pairs] /\ files'[Current] = Pair(made, made)
      /\ \A x \in Slots : x # Current => files'[x] = files[x]
  BY <1>1, <1>2, <1>3, SlotFacts
<1>5. PairsMatch'
  BY <1>3, <1>4 DEF DirectoryInv, PairsMatch
<1>6. "idle" \in Ops /\ Current \in 0..KeepPrev
  BY SlotFacts DEF Ops
<1>7. /\ script' \in [op : Ops, slot : 0..KeepPrev]
      /\ script'.op = "idle" /\ script'.slot = Current
  BY <1>1, <1>6, ThenFacts, Zenon
<1>8. completed' \subseteq 1..made'
  <2>1. made \in 1..made
    BY <1>2
  <2>2. QED
    BY <1>1, <1>2, <2>1
<1>9. DirectoryTypeOK'
  BY <1>1, <1>4, <1>7, <1>8 DEF DirectoryInv, DirectoryTypeOK
<1>10. ScriptInv'
  BY <1>7 DEF ScriptInv, Cascading
<1>11. QED
  BY <1>5, <1>9, <1>10 DEF DirectoryInv

LEMMA CrashInv == ASSUME DirectoryInv, Crash PROVE DirectoryInv'
<1>1. /\ Then("idle", Current) /\ crashes' = crashes + 1
      /\ files' = files /\ made' = made /\ completed' = completed
  BY DEF Crash
<1>2. "idle" \in Ops /\ Current \in 0..KeepPrev
  BY SlotFacts DEF Ops
<1>3. /\ script' \in [op : Ops, slot : 0..KeepPrev]
      /\ script'.op = "idle" /\ script'.slot = Current
  BY <1>1, <1>2, ThenFacts, Zenon
<1>4. crashes' \in Nat
  BY <1>1 DEF DirectoryInv, DirectoryTypeOK
<1>5. DirectoryTypeOK' /\ PairsMatch'
  BY <1>1, <1>3, <1>4 DEF DirectoryInv, DirectoryTypeOK, PairsMatch
<1>6. ScriptInv'
  BY <1>3 DEF ScriptInv, Cascading
<1>7. QED
  BY <1>5, <1>6 DEF DirectoryInv

\* The processes only read the directory.
LEMMA ProcessFacts ==
  ASSUME NEW p \in Processes, Process(p)
  PROVE  UNCHANGED dirVars
  BY DEF Process, BeginLoad, ReadKey, ReadPub, Restart, Issue

LEMMA DirectoryUnchanged ==
  ASSUME DirectoryInv, UNCHANGED dirVars
  PROVE  DirectoryInv'
<1>1. /\ files' = files /\ script' = script /\ made' = made
      /\ completed' = completed /\ crashes' = crashes
  BY DEF dirVars
<1>2. QED
  BY <1>1 DEF DirectoryInv, DirectoryTypeOK, PairsMatch, ScriptInv

\* Every step keeps what the directory's invariant says.
LEMMA DirectoryStep ==
  ASSUME DirectoryInv, [Next]_vars
  PROVE  DirectoryInv'
<1>1. CASE Script
  BY <1>1, RotateInv, DropKeyInv, DropPubInv, MoveInv, UnlinkKeyInv, UnlinkPubInv,
     RenameKeyInv, RenamePubInv, InstallKeyInv, InstallPubInv, CrashInv DEF Script
<1>2. CASE \E p \in Processes : Process(p)
  BY <1>2, ProcessFacts, DirectoryUnchanged
<1>3. CASE UNCHANGED vars
  BY <1>3, DirectoryUnchanged DEF vars
<1>4. QED
  BY <1>1, <1>2, <1>3 DEF Next

\* Wherever the script dies and however often it is run again, for every --keep-prev,
\* no name ever pairs a private key with the public half of another.
THEOREM PairsAlwaysMatch == Spec => []PairsMatch
<1>1. DirectoryInv => PairsMatch
  BY DEF DirectoryInv
<1>2. DirectoryInv /\ [Next]_vars => DirectoryInv'
  BY DirectoryStep
<1>3. QED
  BY <1>1, <1>2, DirectoryInit, PTL DEF Spec

----------------------------------------------------------------------------
(* Grace *)

\* A run that has dropped the oldest pair.
Moving == script.op \notin {"idle", "drop key", "drop pub"}

\* What slot s holds was moved there by the run under way.
Shifted(s) == Moving /\ s >= script.slot

\* The public half of k is in slot s, no further from current than k's age, the
\* deaths and the run under way account for.
KeptAt(k, s) ==
    /\ files[s].pub = k
    /\ s <= Age(k) + crashes + (IF Shifted(s) THEN 1 ELSE 0)

GraceInv == \A k \in completed : InGrace(k) => \E s \in Slots : KeptAt(k, s)

GraceIInv == DirectoryInv /\ GraceInv

LEMMA LaterFacts ==
  ASSUME NEW n \in Nat, NEW keys \in SUBSET (1..n), NEW k
  PROVE  /\ IsFiniteSet({j \in keys : j > k})
         /\ Cardinality({j \in keys : j > k}) \in Nat
<1>1. IsFiniteSet(1..n)
  BY FS_Interval
<1>2. {j \in keys : j > k} \subseteq 1..n
  OBVIOUS
<1>3. IsFiniteSet({j \in keys : j > k})
  BY <1>1, <1>2, FS_Subset
<1>4. QED
  BY <1>3, FS_CardinalityType

LEMMA AgeFacts ==
  ASSUME DirectoryTypeOK
  PROVE  \A k : IsFiniteSet({j \in completed : j > k}) /\ Age(k) \in Nat
<1>1. made \in Nat /\ completed \in SUBSET (1..made)
  BY DEF DirectoryTypeOK
<1>2. QED
  BY <1>1, LaterFacts DEF Age

\* A key in grace is kept in one of the slots the script looks after.
LEMMA GraceFound ==
  ASSUME GraceIInv, NEW k \in completed, InGrace(k)
  PROVE  \E s \in Slots : KeptAt(k, s) /\ s <= KeepPrev
<1>1. PICK s \in Slots : KeptAt(k, s)
  BY DEF GraceIInv, GraceInv
<1>2. Age(k) \in Nat /\ crashes \in Nat
  BY AgeFacts DEF GraceIInv, DirectoryInv, DirectoryTypeOK
<1>3. Shifted(s) => ~At("idle")
  BY DEF Shifted, Moving, At
<1>4. /\ s <= Age(k) + crashes + (IF Shifted(s) THEN 1 ELSE 0)
      /\ Age(k) + crashes + (IF At("idle") THEN 0 ELSE 1) <= KeepPrev
  BY <1>1 DEF KeptAt, InGrace
<1>5. s \in Int /\ KeepPrev \in Nat
  BY SlotFacts
<1>6. s <= KeepPrev
  BY <1>2, <1>3, <1>4, <1>5
<1>7. QED
  BY <1>1, <1>6

\* A step that neither completes a rotation, nor dies, nor touches a public half.
LEMMA GraceFrame ==
  ASSUME GraceIInv, completed' = completed, crashes' = crashes,
         script'.op = "idle" => script.op = "idle",
         \A s \in Slots : files'[s].pub = files[s].pub,
         \A s \in Slots : Shifted(s) => Shifted(s)'
  PROVE  GraceInv'
<1> SUFFICES ASSUME NEW k \in completed', InGrace(k)'
             PROVE  \E s \in Slots : KeptAt(k, s)'
  BY DEF GraceInv
<1>1. k \in completed /\ Age(k)' = Age(k)
  BY DEF Age
<1>2. Age(k) \in Nat /\ crashes \in Nat /\ KeepPrev \in Nat
  BY AgeFacts, SlotFacts DEF GraceIInv, DirectoryInv, DirectoryTypeOK
<1>3. Age(k) + crashes + (IF script'.op = "idle" THEN 0 ELSE 1) <= KeepPrev
  BY <1>1 DEF InGrace, At
<1>4. Age(k) + crashes + (IF script.op = "idle" THEN 0 ELSE 1) <= KeepPrev
  BY <1>2, <1>3
<1>5. InGrace(k)
  BY <1>1, <1>4 DEF InGrace, At
<1>6. PICK s \in Slots : KeptAt(k, s)
  BY <1>1, <1>5 DEF GraceIInv, GraceInv
<1>7. /\ files'[s].pub = k /\ s \in Int
      /\ s <= Age(k) + crashes + (IF Shifted(s) THEN 1 ELSE 0)
  BY <1>6, SlotFacts DEF KeptAt
<1>8. Shifted(s) => Shifted(s)'
  OBVIOUS
<1>9. s <= Age(k) + crashes + (IF Shifted(s)' THEN 1 ELSE 0)
  BY <1>2, <1>7, <1>8
<1>10. KeptAt(k, s)'
  BY <1>1, <1>7, <1>9 DEF KeptAt
<1>11. QED
  BY <1>10

\* The run has not gone back up the slots.
Down == script'.slot \in Int /\ script.slot \in Int /\ script'.slot <= script.slot

LEMMA ShiftedFacts ==
  ASSUME Moving', Down
  PROVE  \A s \in Slots : Shifted(s) => Shifted(s)'
<1>1. TAKE s \in Slots
<1>2. s \in Int
  BY SlotFacts
<1>3. s >= script.slot => s >= script'.slot
  BY <1>2 DEF Down
<1>4. QED
  BY <1>3 DEF Shifted

LEMMA DownFacts ==
  ASSUME NEW n \in Int, script.slot \in Int, n <= script.slot, script'.slot = n
  PROVE  Down
  BY Zenon DEF Down

LEMMA ThenDown ==
  ASSUME NEW op, script.slot \in 1..KeepPrev, Then(op, script.slot)
  PROVE  script'.op = op /\ Down
<1>1. script'.op = op /\ script'.slot = script.slot
  BY DEF Then
<1>2. script.slot \in Int /\ script.slot <= script.slot
  BY SlotFacts
<1>3. QED
  BY <1>1, <1>2 DEF Down

LEMMA NextMoveDown ==
  ASSUME script.slot \in 1..KeepPrev, NextMove(script.slot)
  PROVE  script'.op \in {"move", "install key"} /\ Down
<1>1. /\ script.slot > 1 => script'.op = "move" /\ script'.slot = script.slot - 1
      /\ ~(script.slot > 1) => script'.op = "install key" /\ script'.slot = 0
  BY NextMoveFacts
<1>2. /\ script.slot \in Int /\ script.slot - 1 \in Int /\ script.slot >= 1
      /\ script.slot - 1 <= script.slot /\ 0 <= script.slot /\ 0 \in Int
  BY SlotFacts
<1>3. CASE script.slot > 1
  <2>1. script'.op = "move" /\ script'.slot = script.slot - 1
    BY <1>1, <1>3
  <2>2. QED
    BY <1>2, <2>1 DEF Down
<1>4. CASE ~(script.slot > 1)
  <2>1. script'.op = "install key" /\ script'.slot = 0
    BY <1>1, <1>4
  <2>2. QED
    BY <1>2, <2>1, DownFacts
<1>5. QED
  BY <1>3, <1>4

LEMMA RotateGrace == ASSUME GraceIInv, Rotate PROVE GraceInv'
<1>1. /\ script.op = "idle" /\ files' = files /\ completed' = completed /\ crashes' = crashes
  BY DEF Rotate, At
<1>2. \A s \in Slots : ~Shifted(s)
  BY <1>1 DEF Shifted, Moving
<1>3. QED
  BY <1>1, <1>2, GraceFrame

LEMMA DropKeyGrace == ASSUME GraceIInv, DropKey PROVE GraceInv'
<1>1. /\ script.op = "drop key" /\ RemoveKey(KeepPrev) /\ Then("drop pub", KeepPrev)
      /\ completed' = completed /\ crashes' = crashes
  BY DEF DropKey, DirUnchanged, At, Oldest
<1>2. KeepPrev \in Slots /\ files \in [Slots -> Pairs]
  BY SlotFacts DEF GraceIInv, DirectoryInv, DirectoryTypeOK
<1>3. \A s \in Slots : files'[s].pub = files[s].pub
  BY <1>1, <1>2, RemoveKeyFacts
<1>4. script'.op # "idle"
  BY <1>1 DEF Then
<1>5. \A s \in Slots : ~Shifted(s)
  BY <1>1 DEF Shifted, Moving
<1>6. QED
  BY <1>1, <1>3, <1>4, <1>5, GraceFrame

\* The oldest pair is dropped only when its key has outlived its grace.
LEMMA DropPubGrace == ASSUME GraceIInv, DropPub PROVE GraceInv'
<1>1. /\ script.op = "drop pub" /\ RemovePub(KeepPrev) /\ Then("move", KeepPrev)
      /\ completed' = completed /\ crashes' = crashes
  BY DEF DropPub, DirUnchanged, At, Oldest, Target
<1>2. KeepPrev \in Slots /\ files \in [Slots -> Pairs]
  BY SlotFacts DEF GraceIInv, DirectoryInv, DirectoryTypeOK
<1>3. \A s \in Slots : s # KeepPrev => files'[s] = files[s]
  BY <1>1, <1>2, RemovePubFacts
<1>4. script'.op # "idle"
  BY <1>1 DEF Then
<1> SUFFICES ASSUME NEW k \in completed', InGrace(k)'
             PROVE  \E s \in Slots : KeptAt(k, s)'
  BY DEF GraceInv
<1>5. k \in completed /\ Age(k)' = Age(k)
  BY <1>1 DEF Age
<1>6. Age(k) \in Nat /\ crashes \in Nat /\ KeepPrev \in Nat
  BY AgeFacts, SlotFacts DEF GraceIInv, DirectoryInv, DirectoryTypeOK
<1>7. Age(k) + crashes + 1 <= KeepPrev
  BY <1>1, <1>4, <1>5 DEF InGrace, At
<1>8. InGrace(k)
  BY <1>1, <1>5, <1>7 DEF InGrace, At
<1>9. PICK s \in Slots : KeptAt(k, s)
  BY <1>5, <1>8 DEF GraceIInv, GraceInv
<1>10. files[s].pub = k /\ s <= Age(k) + crashes /\ s \in Int
  <2>1. ~Shifted(s)
    BY <1>1 DEF Shifted, Moving
  <2>a. s \in Int
    BY SlotFacts
  <2>2. QED
    BY <1>6, <1>9, <2>1, <2>a DEF KeptAt
<1>11. s # KeepPrev
  BY <1>6, <1>7, <1>10
<1>12. files'[s].pub = k
  BY <1>3, <1>10, <1>11
<1>13. s <= Age(k) + crashes + (IF Shifted(s)' THEN 1 ELSE 0)
  BY <1>6, <1>10
<1>14. KeptAt(k, s)'
  BY <1>1, <1>5, <1>12, <1>13 DEF KeptAt
<1>15. QED
  BY <1>14

LEMMA MoveGrace == ASSUME GraceIInv, Move PROVE GraceInv'
<1>1. /\ script.op = "move" /\ files' = files /\ completed' = completed /\ crashes' = crashes
      /\ NextMove(script.slot) \/ Then("unlink key", script.slot)
  BY DEF Move, DirUnchanged, At
<1>2. DirectoryInv /\ DirectoryInv' /\ script.op \in Cascading
  BY <1>1, MoveInv DEF GraceIInv, Cascading
<1>3. script.slot \in 1..KeepPrev
  BY <1>2, CascadeFacts
<1>4. /\ script'.op \in {"move", "install key", "unlink key"} /\ Down
  <2>1. CASE NextMove(script.slot)
    BY <1>3, <2>1, NextMoveDown
  <2>2. CASE Then("unlink key", script.slot)
    BY <1>3, <2>2, ThenDown
  <2>3. QED
    BY <1>1, <2>1, <2>2
<1>5. \A s \in Slots : Shifted(s) => Shifted(s)'
  BY <1>2, <1>4, ShiftedFacts DEF Moving
<1>6. QED
  BY <1>1, <1>4, <1>5, GraceFrame

\* The slot a cascade fills has no public half to lose.
LEMMA UnlinkKeyGrace == ASSUME GraceIInv, UnlinkKey PROVE GraceInv'
<1>1. /\ script.op = "unlink key" /\ RemoveKey(script.slot) /\ Then("unlink pub", script.slot)
      /\ completed' = completed /\ crashes' = crashes
  BY DEF UnlinkKey, DirUnchanged, At
<1>2. DirectoryInv /\ DirectoryInv' /\ script.op \in Cascading
  BY <1>1, UnlinkKeyInv DEF GraceIInv, Cascading
<1>3. script.slot \in 1..KeepPrev /\ script.slot \in Slots /\ files \in [Slots -> Pairs]
  BY <1>2, CascadeFacts
<1>4. \A s \in Slots : files'[s].pub = files[s].pub
  BY <1>1, <1>3, RemoveKeyFacts
<1>5. script'.op = "unlink pub" /\ Down
  BY <1>1, <1>3, ThenDown
<1>6. \A s \in Slots : Shifted(s) => Shifted(s)'
  BY <1>2, <1>5, ShiftedFacts DEF Moving
<1>7. QED
  BY <1>1, <1>4, <1>5, <1>6, GraceFrame

LEMMA UnlinkPubGrace == ASSUME GraceIInv, UnlinkPub PROVE GraceInv'
<1>1. /\ script.op = "unlink pub" /\ RemovePub(script.slot) /\ Then("rename key", script.slot)
      /\ completed' = completed /\ crashes' = crashes
  BY DEF UnlinkPub, DirUnchanged, At
<1>2. DirectoryInv /\ DirectoryInv' /\ script.op \in Cascading /\ files[script.slot] = NoPair
  BY <1>1, UnlinkPubInv DEF GraceIInv, DirectoryInv, ScriptInv, Cascading
<1>3. script.slot \in 1..KeepPrev /\ script.slot \in Slots /\ files \in [Slots -> Pairs]
  BY <1>2, CascadeFacts
<1>4. \A s \in Slots : files'[s].pub = files[s].pub
  BY <1>1, <1>2, <1>3, RemovePubFacts, SlotFacts
<1>5. script'.op = "rename key" /\ Down
  BY <1>1, <1>3, ThenDown
<1>6. \A s \in Slots : Shifted(s) => Shifted(s)'
  BY <1>2, <1>5, ShiftedFacts DEF Moving
<1>7. QED
  BY <1>1, <1>4, <1>5, <1>6, GraceFrame

LEMMA RenameKeyGrace == ASSUME GraceIInv, RenameKey PROVE GraceInv'
<1> DEFINE slot == script.slot
           source == script.slot - 1
<1>1. /\ script.op = "rename key" /\ Then("rename pub", slot)
      /\ files' = [files EXCEPT ![slot] = Pair(files[source].key, @.pub),
                                ![source] = Pair(0, @.pub)]
      /\ completed' = completed /\ crashes' = crashes
  BY DEF RenameKey, DirUnchanged, At
<1>2. DirectoryInv /\ script.op \in Cascading
  BY <1>1 DEF GraceIInv, Cascading
<1>3. /\ slot \in Slots /\ source \in Slots /\ slot # source /\ slot \in 1..KeepPrev
      /\ files \in [Slots -> Pairs] /\ files[slot] \in Pairs /\ files[source] \in Pairs
  BY <1>2, CascadeFacts
<1>4. script'.op = "rename pub" /\ Down
  BY <1>1, <1>3, ThenDown
<1> HIDE DEF slot, source
<1>5. /\ Pair(files[source].key, files[slot].pub).pub = files[slot].pub
      /\ Pair(0, files[source].pub).pub = files[source].pub
  BY <1>3, PairHalves
<1>6. /\ files'[slot] = Pair(files[source].key, files[slot].pub)
      /\ files'[source] = Pair(0, files[source].pub)
      /\ \A s \in Slots : s # slot /\ s # source => files'[s] = files[s]
  BY <1>1, <1>3
<1>7. \A s \in Slots : files'[s].pub = files[s].pub
  BY <1>5, <1>6
<1>8. \A s \in Slots : Shifted(s) => Shifted(s)'
  BY <1>4, ShiftedFacts DEF Moving
<1>9. QED
  BY <1>1, <1>4, <1>7, <1>8, GraceFrame

\* The public half moves on by one slot, once in a run.
LEMMA RenamePubGrace == ASSUME GraceIInv, RenamePub PROVE GraceInv'
<1>a. script.op = "rename pub" /\ script.op \in Cascading /\ DirectoryInv
  BY DEF RenamePub, At, Cascading, GraceIInv
<1>b. PICK slot \in 1..KeepPrev : slot = script.slot
  BY <1>a, CascadeFacts
<1>c. PICK source \in Slots : source = script.slot - 1
  BY <1>a, CascadeFacts
<1>1. /\ script.op = "rename pub" /\ NextMove(slot)
      /\ files' = [files EXCEPT ![slot] = Pair(@.key, files[source].pub),
                                ![source] = Pair(@.key, 0)]
      /\ completed' = completed /\ crashes' = crashes /\ made' = made
  BY <1>b, <1>c DEF RenamePub, DirUnchanged, At
<1>2. /\ DirectoryInv /\ script.op \in Cascading
      /\ files[slot].pub = 0
  BY <1>a, <1>b DEF DirectoryInv, ScriptInv
<1>3. /\ slot \in Slots /\ source \in Slots /\ slot # source /\ slot \in 1..KeepPrev
      /\ files \in [Slots -> Pairs] /\ files[slot] \in Pairs /\ files[source] \in Pairs
  BY <1>2, <1>b, <1>c, CascadeFacts
<1>4. script'.op \in {"move", "install key"} /\ Down
  BY <1>1, <1>3, <1>b, NextMoveDown
<1>5. \A s \in Slots : Shifted(s) => Shifted(s)'
  BY <1>4, ShiftedFacts DEF Moving
<1>6. slot \in Int /\ source \in Int /\ slot = source + 1
  BY <1>3, <1>b, <1>c, SlotFacts
<1>7. ~Shifted(source)
  <2>1. ~(source >= script.slot)
    BY <1>6, <1>b
  <2>2. QED
    BY <2>1 DEF Shifted, Moving
<1>8. Shifted(slot)'
  <2>1. Shifted(slot)
    <3>1. slot >= script.slot
      BY <1>6, <1>b
    <3>2. QED
      BY <1>1, <3>1 DEF Shifted, Moving
  <2>2. QED
    BY <1>3, <1>5, <2>1
<1>9. Pair(files[slot].key, files[source].pub).pub = files[source].pub
  BY <1>3, PairHalves
<1>10. /\ files'[slot].pub = files[source].pub
       /\ \A s \in Slots : s # slot /\ s # source => files'[s] = files[s]
  BY <1>1, <1>3, <1>9
<1> SUFFICES ASSUME NEW k \in completed', InGrace(k)'
             PROVE  \E s \in Slots : KeptAt(k, s)'
  BY DEF GraceInv
<1>11. k \in completed /\ Age(k)' = Age(k)
  BY <1>1 DEF Age
<1>12. InGrace(k)
  <2>1. ~At("idle") /\ ~At("idle")'
    BY <1>1, <1>4 DEF At
  <2>2. QED
    BY <1>1, <1>11, <2>1 DEF InGrace
<1>13. Age(k) \in Nat /\ crashes \in Nat /\ k # 0
  <2>1. Age(k) \in Nat /\ crashes \in Nat
    BY AgeFacts DEF GraceIInv, DirectoryInv, DirectoryTypeOK
  <2>2. completed \subseteq 1..made /\ made \in Nat
    BY DEF GraceIInv, DirectoryInv, DirectoryTypeOK
  <2>3. QED
    BY <1>11, <2>1, <2>2
<1>14. PICK s \in Slots : KeptAt(k, s)
  BY <1>11, <1>12 DEF GraceIInv, GraceInv
<1>15. CASE s = source
  <2>1. source <= Age(k) + crashes /\ files[source].pub = k
    BY <1>7, <1>13, <1>14, <1>15 DEF KeptAt
  <2>2. slot <= Age(k) + crashes + 1
    BY <1>6, <1>13, <2>1
  <2>3. files'[slot].pub = k
    BY <1>10, <2>1
  <2>4. slot <= Age(k) + crashes + (IF Shifted(slot)' THEN 1 ELSE 0)
    BY <1>8, <2>2
  <2>5. KeptAt(k, slot)'
    BY <1>1, <1>11, <2>3, <2>4 DEF KeptAt
  <2>6. QED
    BY <1>3, <2>5
<1>16. CASE s # source
  <2>1. files[s].pub = k /\ s <= Age(k) + crashes + (IF Shifted(s) THEN 1 ELSE 0)
    BY <1>14 DEF KeptAt
  <2>2. s # slot /\ s \in Int
    BY <1>2, <1>13, <2>1, SlotFacts
  <2>3. files'[s].pub = k
    BY <1>10, <1>16, <2>1, <2>2
  <2>4. s <= Age(k) + crashes + (IF Shifted(s)' THEN 1 ELSE 0)
    BY <1>5, <1>13, <2>1, <2>2
  <2>5. KeptAt(k, s)'
    BY <1>1, <1>11, <2>3, <2>4 DEF KeptAt
  <2>6. QED
    BY <2>5
<1>17. QED
  BY <1>15, <1>16

LEMMA InstallKeyGrace == ASSUME GraceIInv, InstallKey PROVE GraceInv'
<1>1. /\ script.op = "install key" /\ Then("install pub", Current)
      /\ files' = [files EXCEPT ![Current] = Pair(made, @.pub)]
      /\ completed' = completed /\ crashes' = crashes
  BY DEF InstallKey, DirUnchanged, At
<1>2. /\ script.slot = Current /\ files \in [Slots -> Pairs] /\ made \in Nat
      /\ Current \in Slots /\ files[Current] \in Pairs
  BY <1>1, SlotFacts DEF GraceIInv, DirectoryInv, DirectoryTypeOK, ScriptInv
<1>3. Pair(made, files[Current].pub).pub = files[Current].pub
  BY <1>2, PairHalves
<1>4. \A s \in Slots : files'[s].pub = files[s].pub
  BY <1>1, <1>2, <1>3
<1>5. script'.op = "install pub" /\ script'.slot = Current
  BY <1>1 DEF Then
<1>6. Down
  <2>1. 0 \in Int /\ 0 <= 0
    OBVIOUS
  <2>2. script.slot = 0 /\ script'.slot = 0
    BY <1>2, <1>5, SlotFacts
  <2>3. QED
    BY <2>1, <2>2 DEF Down
<1>7. \A s \in Slots : Shifted(s) => Shifted(s)'
  BY <1>5, <1>6, ShiftedFacts DEF Moving
<1>8. QED
  BY <1>1, <1>4, <1>5, <1>7, GraceFrame

\* A completed rotation ages every other key by one, and the run under way is over.
LEMMA InstallPubGrace == ASSUME GraceIInv, InstallPub PROVE GraceInv'
<1>1. /\ script.op = "install pub" /\ Then("idle", Current)
      /\ files' = [files EXCEPT ![Current] = Pair(@.key, made)]
      /\ made' = made /\ completed' = completed \union {made} /\ crashes' = crashes
  BY DEF InstallPub, At
<1>2. /\ DirectoryInv /\ files[Current] = Pair(made, 0) /\ files \in [Slots -> Pairs]
      /\ made \in Nat \ {0} /\ completed \subseteq 1..made /\ made \notin completed
      /\ crashes \in Nat
  BY <1>1 DEF GraceIInv, DirectoryInv, DirectoryTypeOK, ScriptInv
<1>3. /\ files[Current].pub = 0 /\ Pair(files[Current].key, made).pub = made
  BY <1>2, PairHalves
<1>4. /\ files'[Current].pub = made
      /\ \A s \in Slots : s # Current => files'[s] = files[s]
  BY <1>1, <1>2, <1>3, SlotFacts
<1>5. script'.op = "idle"
  BY <1>1 DEF Then
<1>6. DirectoryInv'
  BY <1>1, <1>2, InstallPubInv
<1> SUFFICES ASSUME NEW k \in completed', InGrace(k)'
             PROVE  \E s \in Slots : KeptAt(k, s)'
  BY DEF GraceInv
<1>7. Age(k)' \in Nat /\ Age(k) \in Nat /\ KeepPrev \in Nat
  <2>1. Age(k)' \in Nat
    <3>1. made' \in Nat /\ completed' \in SUBSET (1..made')
      BY <1>6 DEF DirectoryInv, DirectoryTypeOK
    <3>2. QED
      BY <3>1, LaterFacts DEF Age
  <2>2. \A j : Age(j) \in Nat
    BY <1>2, AgeFacts DEF DirectoryInv
  <2>3. QED
    BY <2>1, <2>2, SlotFacts
<1>8. ~Shifted(0)' /\ \A s \in Slots : ~Shifted(s)'
  BY <1>5 DEF Shifted, Moving
<1>9. CASE k = made
  <2>1. 0 <= Age(k)' + crashes + 0
    BY <1>2, <1>7
  <2>2. KeptAt(k, 0)'
    BY <1>1, <1>4, <1>8, <1>9, <2>1, SlotFacts DEF KeptAt
  <2>3. QED
    BY <2>2, SlotFacts
<1>10. CASE k # made
  <2>1. k \in completed /\ k \in Nat /\ k # 0 /\ made > k
    <3>1. k \in completed
      BY <1>1, <1>10
    <3>2. k \in 1..made
      BY <1>2, <3>1
    <3>3. QED
      BY <1>2, <1>10, <3>1, <3>2
  <2>2. Age(k)' = Age(k) + 1
    <3> DEFINE Later == {j \in completed : j > k}
    <3>1. {j \in completed' : j > k} = Later \union {made}
      BY <1>1, <2>1
    <3>2. IsFiniteSet(Later) /\ made \notin Later
      BY <1>2, AgeFacts DEF DirectoryInv
    <3> HIDE DEF Later
    <3>3. Cardinality(Later \union {made}) = Cardinality(Later) + 1
      BY <3>2, FS_AddElement
    <3>4. QED
      BY <3>1, <3>3 DEF Age, Later
  <2>3. Age(k)' + crashes + 0 <= KeepPrev
    BY <1>1, <1>5 DEF InGrace, At
  <2>4. Age(k) + crashes + 1 <= KeepPrev
    BY <1>2, <1>7, <2>2, <2>3
  <2>5. InGrace(k)
    BY <1>1, <2>1, <2>4 DEF InGrace, At
  <2>6. PICK s \in Slots : KeptAt(k, s)
    BY <2>1, <2>5 DEF GraceIInv, GraceInv
  <2>7. files[s].pub = k /\ s <= Age(k) + crashes + (IF Shifted(s) THEN 1 ELSE 0)
    BY <2>6 DEF KeptAt
  <2>8. s # Current
    BY <1>3, <2>1, <2>7
  <2>9. files'[s].pub = k
    BY <1>4, <2>7, <2>8
  <2>10. s <= Age(k)' + crashes + 0
    <3>1. s \in Int
      BY SlotFacts
    <3>2. QED
      BY <1>2, <1>7, <2>2, <2>7, <3>1
  <2>11. KeptAt(k, s)'
    BY <1>1, <1>8, <2>9, <2>10 DEF KeptAt
  <2>12. QED
    BY <2>11
<1>11. QED
  BY <1>9, <1>10

\* A death costs what the run under way would have.
LEMMA CrashGrace == ASSUME GraceIInv, Crash PROVE GraceInv'
<1>1. /\ script.op # "idle" /\ Then("idle", Current) /\ crashes' = crashes + 1
      /\ files' = files /\ completed' = completed
  BY DEF Crash, At
<1>2. script'.op = "idle"
  BY <1>1 DEF Then
<1> SUFFICES ASSUME NEW k \in completed', InGrace(k)'
             PROVE  \E s \in Slots : KeptAt(k, s)'
  BY DEF GraceInv
<1>3. k \in completed /\ Age(k)' = Age(k)
  BY <1>1 DEF Age
<1>4. Age(k) \in Nat /\ crashes \in Nat /\ KeepPrev \in Nat
  BY AgeFacts, SlotFacts DEF GraceIInv, DirectoryInv, DirectoryTypeOK
<1>5. Age(k) + (crashes + 1) + 0 <= KeepPrev
  BY <1>1, <1>2, <1>3 DEF InGrace, At
<1>6. Age(k) + crashes + 1 <= KeepPrev
  BY <1>4, <1>5
<1>7. InGrace(k)
  BY <1>1, <1>3, <1>6 DEF InGrace, At
<1>8. PICK s \in Slots : KeptAt(k, s)
  BY <1>3, <1>7 DEF GraceIInv, GraceInv
<1>9. files[s].pub = k /\ s <= Age(k) + crashes + (IF Shifted(s) THEN 1 ELSE 0)
  BY <1>8 DEF KeptAt
<1>10. ~Shifted(s)'
  BY <1>2 DEF Shifted, Moving
<1>11. s <= Age(k) + (crashes + 1) + 0
  <2>1. s \in Int
    BY SlotFacts
  <2>2. QED
    BY <1>4, <1>9, <2>1
<1>12. KeptAt(k, s)'
  BY <1>1, <1>3, <1>9, <1>10, <1>11 DEF KeptAt
<1>13. QED
  BY <1>12

LEMMA GraceUnchanged ==
  ASSUME GraceIInv, UNCHANGED dirVars
  PROVE  GraceInv'
<1>1. /\ files' = files /\ script' = script /\ completed' = completed /\ crashes' = crashes
  BY DEF dirVars
<1>2. \A s \in Slots : Shifted(s) => Shifted(s)'
  BY <1>1 DEF Shifted, Moving
<1>3. QED
  BY <1>1, <1>2, GraceFrame

\* At the start the only key is where it was installed.
LEMMA GraceInit == Init => GraceInv
<1> SUFFICES ASSUME Init, NEW k \in completed PROVE \E s \in Slots : KeptAt(k, s)
  BY DEF GraceInv
<1>1. PICK s \in {Current, Legacy} :
        /\ files = [NoKeys EXCEPT ![s] = Pair(1, 1)]
        /\ completed = IF s = Current THEN {1} ELSE {}
  BY DEF Init
<1>2. s = Current /\ k = 1
  BY <1>1
<1>3. files[Current].pub = k
  BY <1>1, <1>2, SlotFacts, PairHalves DEF NoKeys
<1>4. Age(k) \in Nat /\ crashes \in Nat
  BY DirectoryInit, AgeFacts DEF DirectoryInv, DirectoryTypeOK
<1>5. ~Shifted(Current)
  BY DEF Init, Shifted, Moving
<1>6. 0 <= Age(k) + crashes + 0
  BY <1>4
<1>7. KeptAt(k, Current)
  BY <1>3, <1>5, <1>6, SlotFacts DEF KeptAt
<1>8. QED
  BY <1>7, SlotFacts

LEMMA GraceStep ==
  ASSUME GraceIInv, [Next]_vars
  PROVE  GraceIInv'
<1>1. CASE Script
  BY <1>1, RotateGrace, DropKeyGrace, DropPubGrace, MoveGrace, UnlinkKeyGrace,
     UnlinkPubGrace, RenameKeyGrace, RenamePubGrace, InstallKeyGrace, InstallPubGrace,
     CrashGrace, DirectoryStep DEF Script, GraceIInv, Next
<1>2. CASE \E p \in Processes : Process(p)
  BY <1>2, ProcessFacts, GraceUnchanged, DirectoryStep DEF GraceIInv
<1>3. CASE UNCHANGED vars
  BY <1>3, GraceUnchanged, DirectoryStep DEF vars, GraceIInv
<1>4. QED
  BY <1>1, <1>2, <1>3 DEF Next

\* For every --keep-prev, a key that no more than that many rotations and deaths of the
\* script have aged has its public half in the directory at every moment of a rotation.
THEOREM GraceIsNeverLost == Spec => []GraceNeverLost
<1>1. Init => GraceIInv
  BY DirectoryInit, GraceInit DEF GraceIInv
<1>2. GraceIInv /\ [Next]_vars => GraceIInv'
  BY GraceStep
<1>3. GraceIInv => GraceNeverLost
  BY GraceFound DEF GraceNeverLost, KeptAt
<1>4. QED
  BY <1>1, <1>2, <1>3, PTL DEF Spec
----------------------------------------------------------------------------
(* The readers.                                                             *)
(*                                                                          *)
(* Seen by a process that loads, a step of the script only ages the files:  *)
(* a half is removed, moves one slot on into a slot without a public half,  *)
(* or is new and newer than every other.  So a key that has left a slot     *)
(* never comes back to it or to a younger one: what a load has read of a    *)
(* name is what the listing saw of it, or the name has been given away; and *)
(* the private half read first is never younger than the public half read   *)
(* after it.                                                                *)

Names == 0..KeepPrev

\* The names of the rotation hold different keys, each slot's private half no younger
\* than the public halves of the younger slots; the legacy pair is one key.
AgedInv ==
    /\ \A s \in Names : files[s].pub = 0 \/ files[s].pub \in completed
    /\ \A s, t \in Names : s # t /\ files[s].pub # 0 => files[s].pub # files[t].pub
    /\ \A s \in Names : files[s].key <= made
    /\ \A s, t \in Names : t <= s /\ files[t].pub # 0 => files[s].key <= files[t].pub
    /\ files[Legacy].key = files[Legacy].pub

\* k has left slot s and the younger ones.
Gone(k, s) == \A t \in Names : t <= s => files[t].pub # k

\* k was listed in slot s and is still there, to be read or read, or is gone.
Followed(k, s, todo, keys) ==
    /\ k \in completed
    /\ \/ files[s].pub = k /\ (s \in todo \/ keys[s].pub = k)
       \/ Gone(k, s)

\* The private half k has been read in slot s.
HalfRead(k, s) ==
    IF s = Legacy
    THEN k = files[Legacy].key
    ELSE k <= made /\ \A t \in Names : t <= s /\ files[t].pub # 0 => k <= files[t].pub

\* No private half without its public one but the one just read, and none is younger.
SignsOlder(keys) == \A s \in Slots : keys[s].pub # 0 => keys[s].key <= keys[s].pub

FollowedAll(keys, todo, seen) ==
    \A s \in Names : seen[s].pub # 0 => Followed(seen[s].pub, s, todo, keys)

LoadInv(load) ==
    /\ SignsOlder(load.keys)
    /\ \A s \in load.todo : load.keys[s].pub = 0
    /\ load.op = "pub" => \A s \in NextFile(load.todo) : HalfRead(load.keys[s].key, s)
    /\ FollowedAll(load.keys, load.todo, load.seen)

Files == [Slots -> Pairs]
Loads == [op : {"key", "pub"}, keys : Files, todo : SUBSET Slots, seen : Files]

ProcessTypeOK ==
    /\ loaded \in [Processes -> [done : BOOLEAN, keys : Files]]
    /\ loading \in [Processes -> {NotLoading} \union Loads]
    /\ promised \in [Processes -> SUBSET Nat]

\* A process that holds keys verifies with them every key of kept.
CopyInv(keys, kept) ==
    /\ SignsOlder(keys)
    /\ \A k \in kept : k # 0 /\ \E s \in Slots : keys[s].pub = k

LoadedInv(p) == CopyInv(loaded[p].keys, promised[p])

ReaderInv ==
    /\ ProcessTypeOK
    /\ \A p \in Processes : LoadedInv(p) /\ (loading[p] # NotLoading => LoadInv(loading[p]))

ReaderIInv == GraceIInv /\ AgedInv /\ ReaderInv

----------------------------------------------------------------------------
(* A step of the script, seen by the readers *)

PubAged(s) ==
    \/ files'[s].pub = 0
    \/ files'[s].pub = files[s].pub
    \/ s > 0 /\ files[s].pub = 0 /\ files'[s].pub = files[s - 1].pub /\ files'[s - 1].pub = 0
    \/ /\ s = 0 /\ files[s].pub = 0 /\ files'[s].pub = made
       /\ made \notin completed /\ made \in completed'

KeyAged(s) ==
    \/ files'[s].key = 0
    \/ files'[s].key = files[s].key
    \/ s > 0 /\ files'[s].pub = 0 /\ files'[s].key = files[s - 1].key
    \/ s = 0 /\ files'[s].pub = 0 /\ files'[s].key = made

Ages ==
    /\ files' \in Files
    /\ files'[Legacy] = files[Legacy]
    /\ made' \in Nat /\ made' >= made
    /\ completed \subseteq completed'
    /\ \A s \in Names : PubAged(s) /\ KeyAged(s)

\* The names the rotation uses, and what they hold.
LEMMA NameFacts ==
  /\ Names \subseteq Slots /\ \A s \in Slots : s \in Names \/ s = Legacy
  /\ Legacy \notin Names /\ Legacy \in Slots
  /\ \A s \in Names : s \in Nat /\ s >= 0 /\ (s > 0 => s - 1 \in Names)
  /\ 0 \in Names
  BY SlotFacts DEF Names, Legacy

LEMMA FileFacts ==
  ASSUME DirectoryTypeOK
  PROVE  /\ files \in Files /\ made \in Nat /\ made # 0
         /\ \A s \in Slots : files[s].key \in Nat /\ files[s].pub \in Nat
         /\ \A k \in completed : k \in Nat /\ k # 0 /\ k <= made
<1>1. /\ files \in [Slots -> Pairs] /\ made \in Nat \ {0} /\ completed \subseteq 1..made
  BY DEF DirectoryTypeOK
<1>2. \A s \in Slots : files[s] \in Pairs
  BY <1>1
<1>3. QED
  BY <1>1, <1>2, PairHalves DEF Files

\* A step that touches neither files nor history but may begin a rotation.
LEMMA StillAges ==
  ASSUME files' = files, made' \in {made, made + 1}, completed' = completed, DirectoryTypeOK
  PROVE  Ages
<1>1. \A s \in Names : PubAged(s) /\ KeyAged(s)
  BY DEF PubAged, KeyAged
<1>2. made' \in Nat /\ made' >= made
  BY FileFacts
<1>3. QED
  BY <1>1, <1>2, FileFacts DEF Ages

\* A step that removes halves of one name.
LEMMA RemovalAges ==
  ASSUME NEW slot \in Names, files' \in Files,
         \A s \in Slots : s # slot => files'[s] = files[s],
         files'[slot].key \in {0, files[slot].key},
         files'[slot].pub \in {0, files[slot].pub},
         made' = made, completed' = completed, made \in Nat
  PROVE  Ages
<1>1. ASSUME NEW s \in Names PROVE PubAged(s) /\ KeyAged(s)
  BY NameFacts DEF PubAged, KeyAged
<1>2. files'[Legacy] = files[Legacy] /\ made' \in Nat /\ made' >= made
  BY NameFacts
<1>3. QED
  BY <1>1, <1>2 DEF Ages

LEMMA DropAges ==
  ASSUME DirectoryInv, DropKey \/ DropPub \/ UnlinkKey \/ UnlinkPub
  PROVE  Ages
<1>1. PICK slot \in Names : RemoveKey(slot) \/ RemovePub(slot)
  <2>1. CASE DropKey
    BY <2>1, SlotFacts DEF DropKey, Oldest, Names
  <2>2. CASE DropPub
    BY <2>2, SlotFacts DEF DropPub, Oldest, Names
  <2>3. CASE UnlinkKey
    <3>1. script.slot \in Names
      BY <2>3, CascadeFacts DEF UnlinkKey, At, Cascading, Names
    <3>2. QED
      BY <2>3, <3>1 DEF UnlinkKey
  <2>4. CASE UnlinkPub
    <3>1. script.slot \in Names
      BY <2>4, CascadeFacts DEF UnlinkPub, At, Cascading, Names
    <3>2. QED
      BY <2>4, <3>1 DEF UnlinkPub
  <2>5. QED
    BY <2>1, <2>2, <2>3, <2>4
<1>2. made' = made /\ completed' = completed
  BY DEF DropKey, DropPub, UnlinkKey, UnlinkPub, DirUnchanged
<1>3. slot \in Slots /\ files \in [Slots -> Pairs] /\ made \in Nat
  BY NameFacts DEF DirectoryInv, DirectoryTypeOK
<1>4. /\ files' \in Files /\ \A s \in Slots : s # slot => files'[s] = files[s]
      /\ files'[slot].key \in {0, files[slot].key} /\ files'[slot].pub \in {0, files[slot].pub}
  <2>1. CASE RemoveKey(slot)
    BY <1>3, <2>1, RemoveKeyFacts DEF Files
  <2>2. CASE RemovePub(slot)
    BY <1>3, <2>2, RemovePubFacts DEF Files
  <2>3. QED
    BY <1>1, <2>1, <2>2
<1>5. QED
  BY <1>2, <1>3, <1>4, RemovalAges

\* A step that rewrites the pairs of a slot and of the younger one.
LEMMA MovedFacts ==
  ASSUME NEW slot \in Slots, NEW source \in Slots, slot # source,
         NEW a \in Pairs, NEW b \in Pairs, files \in [Slots -> Pairs],
         files' = [files EXCEPT ![slot] = a, ![source] = b]
  PROVE  /\ files' \in Files /\ files'[slot] = a /\ files'[source] = b
         /\ \A s \in Slots : s # slot /\ s # source => files'[s] = files[s]
  BY DEF Files

LEMMA RenameKeyAges == ASSUME DirectoryInv, RenameKey PROVE Ages
<1>1. script.op = "rename key" /\ script.op \in Cascading
  BY DEF RenameKey, At, Cascading
<1>2. PICK slot \in Slots, source \in Slots :
        /\ slot = script.slot /\ source = slot - 1 /\ slot # source
        /\ slot \in 1..KeepPrev /\ files \in [Slots -> Pairs]
        /\ files[slot] \in Pairs /\ files[source] \in Pairs
  BY <1>1, CascadeFacts
<1>3. /\ files' = [files EXCEPT ![slot] = Pair(files[source].key, @.pub),
                                ![source] = Pair(0, @.pub)]
      /\ made' = made /\ completed' = completed
  BY <1>2 DEF RenameKey, DirUnchanged
<1>4. files[slot].pub = 0 /\ made \in Nat
  BY <1>1, <1>2, SlotFacts DEF DirectoryInv, ScriptInv, DirectoryTypeOK, Cascading
<1>5. PICK a \in Pairs, b \in Pairs :
        /\ a = Pair(files[source].key, files[slot].pub) /\ b = Pair(0, files[source].pub)
        /\ a.key = files[source].key /\ a.pub = files[slot].pub
        /\ b.key = 0 /\ b.pub = files[source].pub
  <2>1. /\ files[source].key \in Nat /\ files[source].pub \in Nat /\ files[slot].pub \in Nat
    BY <1>2, PairHalves
  <2>2. QED
    BY <2>1, PairHalves
<1>6. /\ files' \in Files /\ files'[slot] = a /\ files'[source] = b
      /\ \A s \in Slots : s # slot /\ s # source => files'[s] = files[s]
  <2>1. files' = [files EXCEPT ![slot] = a, ![source] = b]
    BY <1>2, <1>3, <1>5
  <2>2. QED
    BY <1>2, <2>1, MovedFacts
<1>7. \A s \in Names : PubAged(s) /\ KeyAged(s)
  <2> SUFFICES ASSUME NEW s \in Names PROVE PubAged(s) /\ KeyAged(s)
    OBVIOUS
  <2>1. s \in Slots /\ s \in Nat
    BY NameFacts
  <2>2. PubAged(s)
    BY <1>5, <1>6, <2>1 DEF PubAged
  <2>3. CASE s = slot
    <3>1. s > 0 /\ files'[s].pub = 0 /\ files'[s].key = files[s - 1].key
      BY <1>2, <1>4, <1>5, <1>6, <2>3
    <3>2. QED
      BY <2>2, <3>1 DEF KeyAged
  <2>4. CASE s # slot
    BY <1>5, <1>6, <2>1, <2>2, <2>4 DEF KeyAged
  <2>5. QED
    BY <2>3, <2>4
<1>8. files'[Legacy] = files[Legacy]
  <2>1. slot \in Names /\ source \in Names
    BY <1>2, SlotFacts DEF Names
  <2>2. QED
    BY <1>6, <2>1, NameFacts
<1>9. QED
  BY <1>3, <1>4, <1>6, <1>7, <1>8 DEF Ages

LEMMA RenamePubAges == ASSUME DirectoryInv, RenamePub PROVE Ages
<1>1. script.op = "rename pub" /\ script.op \in Cascading
  BY DEF RenamePub, At, Cascading
<1>2. PICK slot \in Slots, source \in Slots :
        /\ slot = script.slot /\ source = slot - 1 /\ slot # source
        /\ slot \in 1..KeepPrev /\ files \in [Slots -> Pairs]
        /\ files[slot] \in Pairs /\ files[source] \in Pairs
  BY <1>1, CascadeFacts
<1>3. /\ files' = [files EXCEPT ![slot] = Pair(@.key, files[source].pub),
                                ![source] = Pair(@.key, 0)]
      /\ made' = made /\ completed' = completed
  BY <1>2 DEF RenamePub, DirUnchanged
<1>4. files[slot].pub = 0 /\ made \in Nat
  BY <1>1, <1>2 DEF DirectoryInv, ScriptInv, DirectoryTypeOK
<1>5. PICK a \in Pairs, b \in Pairs :
        /\ a = Pair(files[slot].key, files[source].pub) /\ b = Pair(files[source].key, 0)
        /\ a.key = files[slot].key /\ a.pub = files[source].pub
        /\ b.key = files[source].key /\ b.pub = 0
  <2>1. /\ files[source].key \in Nat /\ files[source].pub \in Nat /\ files[slot].key \in Nat
    BY <1>2, PairHalves
  <2>2. QED
    BY <2>1, PairHalves
<1>6. /\ files' \in Files /\ files'[slot] = a /\ files'[source] = b
      /\ \A s \in Slots : s # slot /\ s # source => files'[s] = files[s]
  <2>1. files' = [files EXCEPT ![slot] = a, ![source] = b]
    BY <1>2, <1>3, <1>5
  <2>2. QED
    BY <1>2, <2>1, MovedFacts
<1>7. \A s \in Names : PubAged(s) /\ KeyAged(s)
  <2> SUFFICES ASSUME NEW s \in Names PROVE PubAged(s) /\ KeyAged(s)
    OBVIOUS
  <2>1. s \in Slots /\ s \in Nat
    BY NameFacts
  <2>2. KeyAged(s)
    BY <1>5, <1>6, <2>1 DEF KeyAged
  <2>3. CASE s = slot
    <3>1. /\ s > 0 /\ files[s].pub = 0 /\ files'[s].pub = files[s - 1].pub
          /\ files'[s - 1].pub = 0
      BY <1>2, <1>4, <1>5, <1>6, <2>3
    <3>2. QED
      BY <2>2, <3>1 DEF PubAged
  <2>4. CASE s # slot
    BY <1>5, <1>6, <2>1, <2>2, <2>4 DEF PubAged
  <2>5. QED
    BY <2>3, <2>4
<1>8. files'[Legacy] = files[Legacy]
  <2>1. slot \in Names /\ source \in Names
    BY <1>2, SlotFacts DEF Names
  <2>2. QED
    BY <1>6, <2>1, NameFacts
<1>9. QED
  BY <1>3, <1>4, <1>6, <1>7, <1>8 DEF Ages

LEMMA InstallAges == ASSUME DirectoryInv, InstallKey \/ InstallPub PROVE Ages
<1>1. /\ files \in [Slots -> Pairs] /\ files[Current] \in Pairs /\ made \in Nat
      /\ Current \in Slots /\ Current \in Names /\ Current = 0
  BY SlotFacts, NameFacts DEF DirectoryInv, DirectoryTypeOK
<1>2. PICK a \in Pairs :
        /\ files' = [files EXCEPT ![Current] = a]
        /\ \/ /\ a.key = made /\ a.pub = 0 /\ completed' = completed /\ made' = made
              /\ files[Current].pub = 0
           \/ /\ a.key = files[Current].key /\ a.pub = made /\ files[Current].pub = 0
              /\ completed' = completed \union {made} /\ made' = made
              /\ made \notin completed
  <2>1. CASE InstallKey
    <3>1. /\ files' = [files EXCEPT ![Current] = Pair(made, @.pub)] /\ script.op = "install key"
          /\ made' = made /\ completed' = completed
      BY <2>1 DEF InstallKey, At, DirUnchanged
    <3>2. files[Current].pub = 0
      BY <3>1, SlotFacts DEF DirectoryInv, ScriptInv
    <3>3. /\ Pair(made, files[Current].pub) \in Pairs
          /\ Pair(made, files[Current].pub).key = made /\ Pair(made, files[Current].pub).pub = 0
      BY <1>1, <3>2, PairHalves
    <3>4. QED
      BY <1>1, <3>1, <3>2, <3>3
  <2>2. CASE InstallPub
    <3>1. /\ files' = [files EXCEPT ![Current] = Pair(@.key, made)] /\ script.op = "install pub"
          /\ made' = made /\ completed' = completed \union {made}
      BY <2>2 DEF InstallPub, At
    <3>2. files[Current] = Pair(made, 0) /\ made \notin completed
      BY <3>1 DEF DirectoryInv, ScriptInv
    <3>3. /\ files[Current].pub = 0
          /\ Pair(files[Current].key, made) \in Pairs
          /\ Pair(files[Current].key, made).key = files[Current].key
          /\ Pair(files[Current].key, made).pub = made
      BY <1>1, <3>2, PairHalves
    <3>4. QED
      BY <1>1, <3>1, <3>2, <3>3
  <2>3. QED
    BY <2>1, <2>2
<1>3. /\ files' \in Files /\ files'[Current] = a
      /\ \A s \in Slots : s # Current => files'[s] = files[s]
  BY <1>1, <1>2 DEF Files
<1>4. \A s \in Names : PubAged(s) /\ KeyAged(s)
  <2> SUFFICES ASSUME NEW s \in Names PROVE PubAged(s) /\ KeyAged(s)
    OBVIOUS
  <2>1. s \in Slots
    BY NameFacts
  <2>2. CASE s = Current
    BY <1>1, <1>2, <1>3, <2>2 DEF PubAged, KeyAged
  <2>3. CASE s # Current
    BY <1>3, <2>1, <2>3 DEF PubAged, KeyAged
  <2>4. QED
    BY <2>2, <2>3
<1>5. files'[Legacy] = files[Legacy] /\ made' \in Nat /\ made' >= made /\ completed \subseteq completed'
  BY <1>1, <1>2, <1>3, NameFacts
<1>6. QED
  BY <1>3, <1>4, <1>5 DEF Ages

\* Every step of the script only ages the files.
LEMMA ScriptAges == ASSUME DirectoryInv, Script PROVE Ages
<1>1. DirectoryTypeOK /\ made \in Nat
  BY DEF DirectoryInv, DirectoryTypeOK
<1>2. CASE Rotate \/ Move \/ Crash
  <2>1. files' = files /\ completed' = completed /\ made' \in {made, made + 1}
    BY <1>2 DEF Rotate, Move, Crash, DirUnchanged
  <2>2. QED
    BY <1>1, <2>1, StillAges
<1>3. QED
  BY <1>2, DropAges, RenameKeyAges, RenamePubAges, InstallAges DEF Script

LEMMA AgesTyped ==
  ASSUME DirectoryTypeOK, Ages
  PROVE  /\ \A s \in Slots : files'[s].key \in Nat /\ files'[s].pub \in Nat
         /\ made' >= made /\ made' \in Int
         /\ \A s \in Names : /\ files[s].key \in Nat /\ files[s].pub \in Nat
                             /\ files'[s].key \in Nat /\ files'[s].pub \in Nat
                             /\ s > 0 => /\ s - 1 \in Names
                                         /\ files[s - 1].key \in Nat /\ files[s - 1].pub \in Nat
<1>1. \A s \in Slots : files'[s] \in Pairs
  BY DEF Ages, Files
<1>2. \A s \in Slots : files'[s].key \in Nat /\ files'[s].pub \in Nat
  BY <1>1, PairHalves
<1>3. made' \in Int
  BY DEF Ages
<1>4. QED
  BY <1>2, <1>3, FileFacts, NameFacts DEF Ages

\* A key that has left a slot and the younger ones does not come back to them.
LEMMA GoneForGood ==
  ASSUME DirectoryTypeOK, Ages, NEW k \in completed, NEW s \in Names, Gone(k, s)
  PROVE  Gone(k, s)'
<1> SUFFICES ASSUME NEW t \in Names, t <= s PROVE files'[t].pub # k
  BY DEF Gone
<1>1. k # 0
  BY FileFacts
<1>2. PubAged(t) /\ files[t].pub # k
  BY DEF Ages, Gone
<1>3. t > 0 => files[t - 1].pub # k
  <2>1. t > 0 => t - 1 \in Names /\ t - 1 <= s
    BY NameFacts
  <2>2. QED
    BY <2>1 DEF Gone
<1>4. QED
  BY <1>1, <1>2, <1>3 DEF PubAged

\* A listed key stays where it is or is gone: the slot it is in was not empty to be
\* filled, and a key that moves on is nowhere else.
LEMMA StillFollowed ==
  ASSUME DirectoryTypeOK, AgedInv, Ages,
         NEW k, NEW s \in Names, NEW todo, NEW keys, Followed(k, s, todo, keys)
  PROVE  Followed(k, s, todo, keys)'
<1>1. k \in completed /\ k \in completed' /\ k # 0
  BY FileFacts DEF Followed, Ages
<1>2. CASE Gone(k, s)
  BY <1>1, <1>2, GoneForGood DEF Followed
<1>3. CASE files[s].pub = k /\ (s \in todo \/ keys[s].pub = k)
  <2>1. CASE files'[s].pub = k
    BY <1>1, <1>3, <2>1 DEF Followed
  <2>2. CASE files'[s].pub # k
    <3> SUFFICES ASSUME NEW t \in Names, t <= s PROVE files'[t].pub # k
      BY <1>1 DEF Followed, Gone
    <3>1. PubAged(t)
      BY DEF Ages
    <3>2. CASE t = s
      BY <2>2, <3>2
    <3>3. CASE t # s
      <4>1. files[t].pub # k
        BY <1>1, <1>3, <3>3 DEF AgedInv
      <4>2. t > 0 => t - 1 \in Names /\ t - 1 # s
        BY NameFacts
      <4>3. t > 0 => files[t - 1].pub # k
        BY <1>1, <1>3, <4>2 DEF AgedInv
      <4>4. QED
        BY <1>1, <3>1, <4>1, <4>3 DEF PubAged
    <3>4. QED
      BY <3>2, <3>3
  <2>3. QED
    BY <2>1, <2>2
<1>4. QED
  BY <1>2, <1>3 DEF Followed

\* No public half that comes to a slot later is older than the private half read there.
LEMMA StillHalfRead ==
  ASSUME DirectoryTypeOK, Ages, NEW k \in Nat, NEW s \in Slots, HalfRead(k, s)
  PROVE  HalfRead(k, s)'
<1>1. CASE s = Legacy
  <2>1. k = files[Legacy].key /\ files'[Legacy] = files[Legacy]
    BY <1>1 DEF HalfRead, Ages
  <2>2. QED
    BY <1>1, <2>1 DEF HalfRead
<1>2. CASE s # Legacy
  <2>1. s \in Names
    BY <1>2, NameFacts
  <2>2. /\ k <= made
        /\ \A t \in Names : t <= s /\ files[t].pub # 0 => k <= files[t].pub
    BY <1>2 DEF HalfRead
  <2>3. k <= made'
    BY <2>2, AgesTyped, FileFacts
  <2>4. ASSUME NEW t \in Names, t <= s, files'[t].pub # 0 PROVE k <= files'[t].pub
    <3>1. PubAged(t)
      BY DEF Ages
    <3>2. t > 0 => t - 1 \in Names /\ t - 1 <= s
      BY <2>1, <2>4, NameFacts
    <3>3. t > 0 /\ files[t - 1].pub # 0 => k <= files[t - 1].pub
      BY <2>2, <3>2
    <3>4. files[t].pub # 0 => k <= files[t].pub
      BY <2>2, <2>4
    <3>5. QED
      BY <2>2, <2>4, <3>1, <3>3, <3>4 DEF PubAged
  <2>5. QED
    BY <1>2, <2>3, <2>4 DEF HalfRead
<1>3. QED
  BY <1>1, <1>2

LEMMA AgedStep == ASSUME DirectoryTypeOK, AgedInv, Ages PROVE AgedInv'
<1>1. ASSUME NEW s \in Names PROVE files'[s].pub = 0 \/ files'[s].pub \in completed'
  <2>1. PubAged(s) /\ completed \subseteq completed'
    BY DEF Ages
  <2>2. files[s].pub = 0 \/ files[s].pub \in completed
    BY DEF AgedInv
  <2>3. s > 0 => files[s - 1].pub = 0 \/ files[s - 1].pub \in completed
    BY NameFacts DEF AgedInv
  <2>4. QED
    BY <2>1, <2>2, <2>3 DEF PubAged
<1>2. ASSUME NEW s \in Names, NEW t \in Names, s # t, files'[s].pub # 0
      PROVE  files'[s].pub # files'[t].pub
  <2>1. PubAged(s) /\ PubAged(t)
    BY DEF Ages
  <2>2. /\ files[s].pub # 0 => files[s].pub # files[t].pub
        /\ s > 0 /\ s - 1 # t /\ files[s - 1].pub # 0 => files[s - 1].pub # files[t].pub
        /\ t > 0 /\ t - 1 # s /\ files[s].pub # 0 => files[s].pub # files[t - 1].pub
        /\ s > 0 /\ t > 0 /\ files[s - 1].pub # 0 => files[s - 1].pub # files[t - 1].pub
    <3>1. s > 0 /\ t > 0 => s - 1 # t - 1
      BY <1>2, NameFacts
    <3>2. QED
      BY <1>2, <3>1, NameFacts DEF AgedInv
  <2>3. /\ files[s].pub # 0 => files[s].pub \in completed
        /\ files[t].pub # 0 => files[t].pub \in completed
        /\ s > 0 /\ files[s - 1].pub # 0 => files[s - 1].pub \in completed
        /\ t > 0 /\ files[t - 1].pub # 0 => files[t - 1].pub \in completed
    BY NameFacts DEF AgedInv
  <2>4. QED
    BY <1>2, <2>1, <2>2, <2>3 DEF PubAged
<1>3. ASSUME NEW s \in Names
      PROVE  \/ files'[s].key = 0
             \/ HalfRead(files'[s].key, s)
             \/ s > 0 /\ files'[s].pub = 0 /\ HalfRead(files'[s].key, s - 1)
             \/ s = 0 /\ files'[s].pub = 0 /\ files'[s].key = made
  <2>1. \A x \in Names : x # Legacy /\ HalfRead(files[x].key, x)
    BY NameFacts DEF AgedInv, HalfRead
  <2>2. s > 0 => s - 1 \in Names
    BY NameFacts
  <2>3. KeyAged(s)
    BY DEF Ages
  <2>4. QED
    BY <2>1, <2>2, <2>3 DEF KeyAged
<1>4. ASSUME NEW s \in Names
      PROVE  /\ files'[s].key <= made'
             /\ \A t \in Names : t <= s /\ files'[t].pub # 0 => files'[s].key <= files'[t].pub
  <2>1. files'[s].key \in Nat /\ made \in Nat /\ made' \in Int /\ made' >= made
    BY AgesTyped, FileFacts
  <2>2. CASE files'[s].key = 0
    <3>1. \A t \in Names : files'[t].pub \in Nat
      BY AgesTyped
    <3>2. QED
      BY <2>1, <2>2, <3>1
  <2>3. CASE HalfRead(files'[s].key, s)
    <3>1. s \in Slots /\ s # Legacy
      BY NameFacts
    <3>2. PICK k \in Nat : k = files'[s].key
      BY <2>1
    <3>3. HalfRead(k, s)'
      BY <2>3, <3>1, <3>2, StillHalfRead
    <3>4. k <= made' /\ \A t \in Names : t <= s /\ files'[t].pub # 0 => k <= files'[t].pub
      BY <3>1, <3>3 DEF HalfRead
    <3>5. QED
      BY <3>2, <3>4
  <2>4. CASE s > 0 /\ files'[s].pub = 0 /\ HalfRead(files'[s].key, s - 1)
    <3>1. s - 1 \in Names /\ s - 1 \in Slots /\ s - 1 # Legacy
      BY <2>4, NameFacts
    <3>2. PICK k \in Nat : k = files'[s].key
      BY <2>1
    <3>3. HalfRead(k, s - 1)'
      BY <2>4, <3>1, <3>2, StillHalfRead
    <3>4. k <= made' /\ \A t \in Names : t <= s - 1 /\ files'[t].pub # 0 => k <= files'[t].pub
      BY <3>1, <3>3 DEF HalfRead
    <3>5. \A t \in Names : t <= s /\ t # s => t <= s - 1
      BY NameFacts
    <3>6. QED
      BY <2>4, <3>2, <3>4, <3>5
  <2>5. CASE s = 0 /\ files'[s].pub = 0 /\ files'[s].key = made
    <3>1. \A t \in Names : t <= s => t = s
      BY <2>5, NameFacts
    <3>2. QED
      BY <2>1, <2>5, <3>1
  <2>6. QED
    BY <1>3, <2>2, <2>3, <2>4, <2>5
<1>5. files'[Legacy].key = files'[Legacy].pub
  BY DEF AgedInv, Ages
<1>6. QED
  BY <1>1, <1>2, <1>4, <1>5 DEF AgedInv

----------------------------------------------------------------------------
(* The steps of the readers *)

\* The next file to read is one file.
LEMMA NextFileIsOne ==
  ASSUME NEW todo \in SUBSET Slots, NEW s \in NextFile(todo), NEW t \in NextFile(todo)
  PROVE  s = t
<1>1. s \in todo /\ t \in todo /\ LoadOrder(s) <= LoadOrder(t) /\ LoadOrder(t) <= LoadOrder(s)
  BY DEF NextFile
<1>2. s \in Nat /\ t \in Nat
  BY <1>1, SlotFacts
<1>3. QED
  BY <1>1, <1>2 DEF LoadOrder

LEMMA NextFileFacts ==
  ASSUME NEW todo \in SUBSET Slots, NEW s \in NextFile(todo)
  PROVE  s \in todo /\ s \in Slots
  BY DEF NextFile

LEMMA ReadingFacts ==
  ASSUME NEW op \in {"key", "pub"}, NEW keys \in Files, NEW todo \in SUBSET Slots,
         NEW seen \in Files
  PROVE  /\ Reading(op, keys, todo, seen) \in Loads
         /\ Reading(op, keys, todo, seen) # NotLoading
         /\ Reading(op, keys, todo, seen).op = op
         /\ Reading(op, keys, todo, seen).keys = keys
         /\ Reading(op, keys, todo, seen).todo = todo
         /\ Reading(op, keys, todo, seen).seen = seen
<1>1. Reading(op, keys, todo, seen).op # NotLoading.op
  BY DEF Reading, NotLoading
<1>2. QED
  BY <1>1 DEF Reading, Loads

\* A process that is loading.
LEMMA LoadingFacts ==
  ASSUME ReaderInv, NEW p \in Processes, loading[p].op # "idle"
  PROVE  /\ loading[p] \in Loads /\ LoadInv(loading[p])
         /\ loading[p].keys \in Files /\ loading[p].todo \in SUBSET Slots
         /\ loading[p].seen \in Files
<1>1. loading[p] # NotLoading
  BY DEF NotLoading
<1>2. loading[p] \in Loads
  BY <1>1 DEF ReaderInv, ProcessTypeOK
<1>3. QED
  BY <1>1, <1>2 DEF ReaderInv, Loads

\* What a load must satisfy depends on the directory alone.
LEMMA LoadInvFrame ==
  ASSUME files' = files, made' = made, completed' = completed, NEW load, LoadInv(load)
  PROVE  LoadInv(load)'
  BY DEF LoadInv, FollowedAll, Followed, HalfRead, Gone

\* A step of one process: the others keep what they have.
LEMMA ReaderFrame ==
  ASSUME ReaderInv, NEW p \in Processes,
         files' = files, made' = made, completed' = completed,
         NEW copy \in [done : BOOLEAN, keys : Files], NEW load \in {NotLoading} \union Loads,
         NEW kept \in SUBSET Nat,
         loaded' = [loaded EXCEPT ![p] = copy],
         loading' = [loading EXCEPT ![p] = load],
         promised' = [promised EXCEPT ![p] = kept],
         CopyInv(copy.keys, kept),
         load # NotLoading => LoadInv(load)
  PROVE  ReaderInv'
<1>1. ProcessTypeOK'
  BY DEF ReaderInv, ProcessTypeOK
<1>2. ASSUME NEW q \in Processes PROVE LoadedInv(q)'
  <2>1. CASE q = p
    <3>1. loaded'[q] = copy /\ promised'[q] = kept
      BY <2>1 DEF ReaderInv, ProcessTypeOK
    <3>2. QED
      BY <3>1 DEF LoadedInv
  <2>2. CASE q # p
    <3>1. loaded'[q] = loaded[q] /\ promised'[q] = promised[q]
      BY <2>2 DEF ReaderInv, ProcessTypeOK
    <3>2. LoadedInv(q)
      BY DEF ReaderInv
    <3>3. QED
      BY <3>1, <3>2 DEF LoadedInv
  <2>3. QED
    BY <2>1, <2>2
<1>3. ASSUME NEW q \in Processes, loading'[q] # NotLoading PROVE LoadInv(loading[q])'
  <2>1. PICK l : l = loading'[q]
    OBVIOUS
  <2>2. LoadInv(l)
    <3>1. CASE q = p
      BY <1>3, <2>1, <3>1 DEF ReaderInv, ProcessTypeOK
    <3>2. CASE q # p
      <4>1. l = loading[q]
        BY <2>1, <3>2 DEF ReaderInv, ProcessTypeOK
      <4>2. QED
        BY <1>3, <2>1, <4>1 DEF ReaderInv
    <3>3. QED
      BY <3>1, <3>2
  <2>3. LoadInv(l)'
    BY <2>2, LoadInvFrame
  <2>4. QED
    BY <2>1, <2>3 DEF LoadInv, FollowedAll, Followed, HalfRead, Gone
<1>4. QED
  BY <1>1, <1>2, <1>3 DEF ReaderInv

\* A load that has read keys and has todo left goes on, or is cached: then every key it
\* promises was listed, and still is where it was listed, so it has been read.
LEMMA LoadedStep ==
  ASSUME ReaderIInv, NEW p \in Processes, UNCHANGED dirVars,
         NEW keys \in Files, NEW todo \in SUBSET Slots, NEW seen \in Files,
         SignsOlder(keys), \A s \in todo : keys[s].pub = 0, FollowedAll(keys, todo, seen),
         Loaded(p, keys, todo, seen)
  PROVE  ReaderInv'
<1>1. files' = files /\ made' = made /\ completed' = completed
  BY DEF dirVars
<1>2. /\ ReaderInv /\ loaded \in [Processes -> [done : BOOLEAN, keys : Files]]
      /\ promised \in [Processes -> SUBSET Nat]
      /\ LoadedInv(p)
  BY DEF ReaderIInv, ReaderInv, ProcessTypeOK
<1>3. CASE todo # {}
  <2>1. PICK load \in Loads :
          /\ load = Reading("key", keys, todo, seen) /\ load # NotLoading
          /\ load.op = "key" /\ load.keys = keys /\ load.todo = todo /\ load.seen = seen
    BY ReadingFacts
  <2>2. LoadInv(load)
    BY <2>1 DEF LoadInv
  <2>3. /\ loading' = [loading EXCEPT ![p] = load]
        /\ loaded' = loaded /\ promised' = promised
    BY <1>3, <2>1 DEF Loaded
  <2>4. /\ loaded' = [loaded EXCEPT ![p] = loaded[p]]
        /\ promised' = [promised EXCEPT ![p] = promised[p]]
    BY <1>2, <2>3
  <2>5. /\ loaded[p] \in [done : BOOLEAN, keys : Files] /\ promised[p] \in SUBSET Nat
        /\ load \in {NotLoading} \union Loads
    BY <1>2
  <2>6. CopyInv(loaded[p].keys, promised[p])
    BY <1>2 DEF LoadedInv
  <2>7. QED
    BY <1>1, <1>2, <2>2, <2>3, <2>4, <2>5, <2>6, ReaderFrame, Zenon
<1>4. CASE todo = {}
  <2> DEFINE copy == [done |-> TRUE, keys |-> keys]
  <2>1. copy \in [done : BOOLEAN, keys : Files] /\ copy.keys = keys
    OBVIOUS
  <2>2. PICK kept : kept = IF seen = files THEN {k \in completed : InGrace(k)} ELSE {}
    OBVIOUS
  <2>3. /\ loaded' = [loaded EXCEPT ![p] = copy] /\ promised' = [promised EXCEPT ![p] = kept]
        /\ loading' = [loading EXCEPT ![p] = NotLoading]
    BY <1>4, <2>1, <2>2 DEF Loaded
  <2> HIDE DEF copy
  <2>4. DirectoryTypeOK /\ GraceIInv
    BY DEF ReaderIInv, GraceIInv, DirectoryInv
  <2>5. kept \in SUBSET Nat
    BY <2>2, <2>4, FileFacts
  <2>6. ASSUME NEW k \in kept PROVE k # 0 /\ \E s \in Slots : keys[s].pub = k
    <3>1. seen = files /\ k \in completed /\ InGrace(k)
      BY <2>2, <2>6
    <3>2. k # 0
      BY <2>4, <3>1, FileFacts
    <3>3. PICK s \in Slots : files[s].pub = k /\ s <= KeepPrev
      BY <2>4, <3>1, GraceFound DEF KeptAt
    <3>4. s \in Names /\ s <= s
      BY <3>3, SlotFacts DEF Names
    <3>5. Followed(k, s, todo, keys)
      BY <3>1, <3>2, <3>3, <3>4 DEF FollowedAll
    <3>6. ~Gone(k, s)
      BY <3>3, <3>4 DEF Gone
    <3>7. QED
      BY <1>4, <3>2, <3>5, <3>6 DEF Followed
  <2>7. CopyInv(copy.keys, kept)
    BY <2>1, <2>6 DEF CopyInv
  <2>8. NotLoading \in {NotLoading} \union Loads
    OBVIOUS
  <2>9. QED
    BY <1>1, <1>2, <2>1, <2>3, <2>5, <2>7, <2>8, ReaderFrame, Zenon
<1>5. QED
  BY <1>3, <1>4

LEMMA BeginLoadReads ==
  ASSUME ReaderIInv, NEW p \in Processes, BeginLoad(p) PROVE ReaderInv'
<1>1. UNCHANGED dirVars /\ Loaded(p, NoKeys, Discoverable, files)
  BY DEF BeginLoad
<1>2. DirectoryTypeOK /\ AgedInv
  BY DEF ReaderIInv, GraceIInv, DirectoryInv
<1>3. NoKeys \in Files /\ \A s \in Slots : NoKeys[s].pub = 0
  BY SlotFacts DEF NoKeys, Files
<1>4. files \in Files /\ Discoverable \in SUBSET Slots
  BY <1>2, FileFacts DEF Discoverable
<1>5. SignsOlder(NoKeys) /\ \A s \in Discoverable : NoKeys[s].pub = 0
  BY <1>3, <1>4 DEF SignsOlder
<1>6. FollowedAll(NoKeys, Discoverable, files)
  BY <1>2, NameFacts DEF FollowedAll, Followed, Discoverable, AgedInv
<1>7. QED
  BY <1>1, <1>3, <1>4, <1>5, <1>6, LoadedStep

\* A private half, just read, is no younger than the public halves it may be paired with.
LEMMA JustRead ==
  ASSUME AgedInv, NEW s \in Slots
  PROVE  HalfRead(files[s].key, s)
  BY NameFacts DEF AgedInv, HalfRead

LEMMA ReadKeyReads ==
  ASSUME ReaderIInv, NEW p \in Processes, ReadKey(p) PROVE ReaderInv'
<1>1. PICK load : load = loading[p]
  OBVIOUS
<1>2. PICK s \in NextFile(load.todo) :
        /\ load.op = "key" /\ UNCHANGED <<dirVars, loaded, promised>>
        /\ loading' = [loading EXCEPT ![p] =
             Reading("pub", [load.keys EXCEPT ![s] = Pair(files[s].key, @.pub)],
                     load.todo, load.seen)]
  BY <1>1 DEF ReadKey
<1>3. /\ files' = files /\ made' = made /\ completed' = completed
      /\ loaded' = loaded /\ promised' = promised
  BY <1>2 DEF dirVars
<1>4. /\ ReaderInv /\ AgedInv /\ DirectoryTypeOK
      /\ loaded \in [Processes -> [done : BOOLEAN, keys : Files]]
      /\ promised \in [Processes -> SUBSET Nat] /\ CopyInv(loaded[p].keys, promised[p])
  BY DEF ReaderIInv, ReaderInv, ProcessTypeOK, LoadedInv, GraceIInv, DirectoryInv
<1>5. /\ LoadInv(load) /\ load.keys \in Files /\ load.todo \in SUBSET Slots
      /\ load.seen \in Files
  BY <1>1, <1>2, <1>4, LoadingFacts
<1>6. s \in load.todo /\ s \in Slots /\ files[s].key \in Nat
  BY <1>4, <1>5, NextFileFacts, FileFacts
<1>7. load.keys[s].pub = 0 /\ load.keys[s] \in Pairs
  BY <1>5, <1>6 DEF LoadInv, Files
<1>8. PICK a \in Pairs : a = Pair(files[s].key, 0) /\ a.key = files[s].key /\ a.pub = 0
  BY <1>6, PairHalves
<1>9. PICK keys \in Files :
        /\ keys = [load.keys EXCEPT ![s] = Pair(files[s].key, @.pub)]
        /\ keys[s] = a /\ \A t \in Slots : t # s => keys[t] = load.keys[t]
  <2>1. [load.keys EXCEPT ![s] = Pair(files[s].key, @.pub)] = [load.keys EXCEPT ![s] = a]
    BY <1>7, <1>8
  <2>2. [load.keys EXCEPT ![s] = a] \in Files
    BY <1>5, <1>6 DEF Files
  <2>3. QED
    BY <1>5, <1>6, <2>1, <2>2 DEF Files
<1>10. \A t \in Slots : keys[t].pub = load.keys[t].pub
  BY <1>7, <1>8, <1>9
<1>11. PICK read \in Loads :
         /\ read = Reading("pub", keys, load.todo, load.seen) /\ read # NotLoading
         /\ read.op = "pub" /\ read.keys = keys /\ read.todo = load.todo
         /\ read.seen = load.seen
  BY <1>5, ReadingFacts
<1>12. SignsOlder(keys)
  BY <1>5, <1>8, <1>9 DEF SignsOlder, LoadInv
<1>13. \A t \in load.todo : keys[t].pub = 0
  BY <1>5, <1>10 DEF LoadInv
<1>14. \A t \in NextFile(load.todo) : HalfRead(keys[t].key, t)
  <2>1. HalfRead(keys[s].key, s)
    BY <1>4, <1>6, <1>8, <1>9, JustRead
  <2>2. QED
    BY <1>5, <2>1, NextFileIsOne
<1>15. FollowedAll(keys, load.todo, load.seen)
  BY <1>5, <1>10, NameFacts DEF FollowedAll, Followed, LoadInv
<1>16. LoadInv(read)
  BY <1>11, <1>12, <1>13, <1>14, <1>15 DEF LoadInv
<1>17. /\ loading' = [loading EXCEPT ![p] = read]
       /\ loaded' = [loaded EXCEPT ![p] = loaded[p]]
       /\ promised' = [promised EXCEPT ![p] = promised[p]]
  BY <1>2, <1>3, <1>4, <1>9, <1>11
<1>18. /\ loaded[p] \in [done : BOOLEAN, keys : Files] /\ promised[p] \in SUBSET Nat
       /\ read \in {NotLoading} \union Loads
  BY <1>4
<1>19. QED
  BY <1>3, <1>4, <1>16, <1>17, <1>18, ReaderFrame, Zenon

LEMMA ReadPubReads ==
  ASSUME ReaderIInv, NEW p \in Processes, ReadPub(p) PROVE ReaderInv'
<1>1. PICK load : load = loading[p]
  OBVIOUS
<1>2. PICK s \in NextFile(load.todo) :
        /\ load.op = "pub" /\ UNCHANGED dirVars
        /\ IF files[s].pub = 0
           THEN /\ loading' = [loading EXCEPT ![p] = NotLoading]
                /\ UNCHANGED <<loaded, promised>>
           ELSE Loaded(p, [load.keys EXCEPT ![s] = Pair(@.key, files[s].pub)],
                       load.todo \ {s}, load.seen)
  BY <1>1 DEF ReadPub
<1>3. files' = files /\ made' = made /\ completed' = completed
  BY <1>2 DEF dirVars
<1>4. /\ ReaderInv /\ AgedInv /\ DirectoryTypeOK
      /\ loaded \in [Processes -> [done : BOOLEAN, keys : Files]]
      /\ promised \in [Processes -> SUBSET Nat] /\ CopyInv(loaded[p].keys, promised[p])
  BY DEF ReaderIInv, ReaderInv, ProcessTypeOK, LoadedInv, GraceIInv, DirectoryInv
<1>5. /\ LoadInv(load) /\ load.keys \in Files /\ load.todo \in SUBSET Slots
      /\ load.seen \in Files
  BY <1>1, <1>2, <1>4, LoadingFacts
<1>6. s \in load.todo /\ s \in Slots /\ files[s].pub \in Nat
  BY <1>4, <1>5, NextFileFacts, FileFacts
<1>7. CASE files[s].pub = 0
  <2>1. /\ loading' = [loading EXCEPT ![p] = NotLoading]
        /\ loaded' = [loaded EXCEPT ![p] = loaded[p]]
        /\ promised' = [promised EXCEPT ![p] = promised[p]]
    BY <1>2, <1>4, <1>7
  <2>2. /\ loaded[p] \in [done : BOOLEAN, keys : Files] /\ promised[p] \in SUBSET Nat
        /\ NotLoading \in {NotLoading} \union Loads
    BY <1>4
  <2>3. QED
    BY <1>3, <1>4, <2>1, <2>2, ReaderFrame, Zenon
<1>8. CASE files[s].pub # 0
  <2>1. load.keys[s] \in Pairs /\ load.keys[s].key \in Nat
    BY <1>5, <1>6, PairHalves DEF Files
  <2>2. PICK a \in Pairs :
          /\ a = Pair(load.keys[s].key, files[s].pub)
          /\ a.key = load.keys[s].key /\ a.pub = files[s].pub
    BY <1>6, <2>1, PairHalves
  <2>3. PICK keys \in Files :
          /\ keys = [load.keys EXCEPT ![s] = Pair(@.key, files[s].pub)]
          /\ keys[s] = a /\ \A t \in Slots : t # s => keys[t] = load.keys[t]
    <3>1. [load.keys EXCEPT ![s] = Pair(@.key, files[s].pub)] = [load.keys EXCEPT ![s] = a]
      BY <2>2
    <3>2. [load.keys EXCEPT ![s] = a] \in Files
      BY <1>5, <1>6 DEF Files
    <3>3. QED
      BY <1>5, <1>6, <3>1, <3>2 DEF Files
  <2>4. PICK todo \in SUBSET Slots : todo = load.todo \ {s}
    BY <1>5
  <2>5. a.key <= a.pub
    <3>1. HalfRead(load.keys[s].key, s)
      BY <1>2, <1>5 DEF LoadInv
    <3>2. CASE s = Legacy
      BY <1>4, <1>6, <2>2, <3>1, <3>2 DEF HalfRead, AgedInv
    <3>3. CASE s # Legacy
      <4>1. s \in Names /\ s <= s
        BY <1>6, <3>3, NameFacts
      <4>2. QED
        BY <1>8, <2>2, <3>1, <3>3, <4>1 DEF HalfRead
    <3>4. QED
      BY <3>2, <3>3
  <2>6. SignsOlder(keys)
    BY <1>5, <2>3, <2>5 DEF SignsOlder, LoadInv
  <2>7. \A t \in todo : keys[t].pub = 0
    BY <1>5, <2>3, <2>4 DEF LoadInv
  <2>8. FollowedAll(keys, todo, load.seen)
    <3> SUFFICES ASSUME NEW t \in Names, NEW k, k = load.seen[t].pub, k # 0
                 PROVE  Followed(k, t, todo, keys)
      BY DEF FollowedAll
    <3>1. Followed(k, t, load.todo, load.keys) /\ t \in Slots
      BY <1>5, NameFacts DEF FollowedAll, LoadInv
    <3>2. CASE t = s
      BY <2>2, <2>3, <3>1, <3>2 DEF Followed
    <3>3. CASE t # s
      BY <2>3, <2>4, <3>1, <3>3 DEF Followed
    <3>4. QED
      BY <3>2, <3>3
  <2>9. Loaded(p, keys, todo, load.seen)
    BY <1>2, <1>8, <2>3, <2>4
  <2>10. QED
    BY <1>2, <1>5, <2>6, <2>7, <2>8, <2>9, LoadedStep
<1>9. QED
  BY <1>7, <1>8

LEMMA RestartReads ==
  ASSUME ReaderIInv, NEW p \in Processes, Restart(p) PROVE ReaderInv'
<1> DEFINE copy == [done |-> FALSE, keys |-> NoKeys]
<1>1. /\ loaded' = [loaded EXCEPT ![p] = copy]
      /\ loading' = [loading EXCEPT ![p] = NotLoading]
      /\ promised' = [promised EXCEPT ![p] = {}]
      /\ files' = files /\ made' = made /\ completed' = completed
  BY DEF Restart, dirVars
<1>2. NoKeys \in Files /\ \A s \in Slots : NoKeys[s].pub = 0
  BY SlotFacts DEF NoKeys, Files
<1>3. copy \in [done : BOOLEAN, keys : Files] /\ copy.keys = NoKeys
  BY <1>2
<1> HIDE DEF copy
<1>4. CopyInv(copy.keys, {})
  BY <1>2, <1>3 DEF CopyInv, SignsOlder
<1>5. /\ ReaderInv /\ NotLoading \in {NotLoading} \union Loads /\ {} \in SUBSET Nat
  BY DEF ReaderIInv
<1>6. QED
  BY <1>1, <1>3, <1>4, <1>5, ReaderFrame, Zenon

\* What the readers hold, if neither they nor the directory change.
LEMMA ReaderStill ==
  ASSUME ReaderInv, loaded' = loaded, loading' = loading, promised' = promised,
         \A load \in Loads : LoadInv(load) => LoadInv(load)'
  PROVE  ReaderInv'
<1>1. ASSUME NEW q \in Processes, loading'[q] # NotLoading PROVE LoadInv(loading[q])'
  <2>1. PICK load \in Loads : load = loading[q] /\ load = loading'[q]
    BY <1>1 DEF ReaderInv, ProcessTypeOK
  <2>2. LoadInv(load)
    BY <1>1, <2>1 DEF ReaderInv
  <2>3. LoadInv(load)'
    BY <2>2
  <2>4. QED
    BY <2>1, <2>3 DEF LoadInv, FollowedAll, Followed, HalfRead, Gone
<1>2. QED
  BY <1>1 DEF ReaderInv, ProcessTypeOK, LoadedInv

\* A step of the script leaves every load with what it needs.
LEMMA LoadsOutliveScript ==
  ASSUME ReaderIInv, Ages, NEW load \in Loads, LoadInv(load)
  PROVE  LoadInv(load)'
<1>1. DirectoryTypeOK /\ AgedInv
  BY DEF ReaderIInv, GraceIInv, DirectoryInv
<1>2. load.keys \in Files /\ load.todo \in SUBSET Slots
  BY DEF Loads
<1>3. ASSUME load.op = "pub", NEW s \in NextFile(load.todo) PROVE HalfRead(load.keys[s].key, s)'
  <2>1. s \in Slots
    BY <1>2, NextFileFacts
  <2>2. PICK k \in Nat : k = load.keys[s].key
    BY <1>2, <2>1, PairHalves DEF Files
  <2>3. HalfRead(k, s)
    BY <1>3, <2>2 DEF LoadInv
  <2>4. HalfRead(k, s)'
    BY <1>1, <2>1, <2>3, StillHalfRead
  <2>5. QED
    BY <2>2, <2>4
<1>4. FollowedAll(load.keys, load.todo, load.seen)'
  <2>1. FollowedAll(load.keys, load.todo, load.seen)
    BY DEF LoadInv
  <2>2. QED
    BY <1>1, <2>1, StillFollowed DEF FollowedAll
<1>5. QED
  BY <1>3, <1>4 DEF LoadInv

LEMMA ReaderInit == Init => AgedInv /\ ReaderInv
<1> SUFFICES ASSUME Init PROVE AgedInv /\ ReaderInv
  OBVIOUS
<1>1. PICK s \in {Current, Legacy} :
        /\ files = [NoKeys EXCEPT ![s] = Pair(1, 1)]
        /\ completed = IF s = Current THEN {1} ELSE {}
  BY DEF Init
<1>2. /\ \A t \in Slots : t # s => files[t].key = 0 /\ files[t].pub = 0
      /\ files[s].key = 1 /\ files[s].pub = 1 /\ s \in Slots
  BY <1>1, SlotFacts, PairHalves DEF NoKeys
<1>3. /\ made = 1 /\ Current = 0 /\ Legacy \notin Names /\ Names \subseteq Slots
      /\ Legacy \in Slots /\ \A t \in Names : t >= 0
  BY NameFacts DEF Init, Current
<1>4. s \in Names => s = 0 /\ completed = {1}
  BY <1>1, <1>3
<1>5. AgedInv
  <2>1. /\ \A t \in Names : files[t].pub = 0 \/ files[t].pub \in completed
        /\ \A t, u \in Names : t # u /\ files[t].pub # 0 => files[t].pub # files[u].pub
        /\ \A t \in Names : files[t].key <= made
        /\ files[Legacy].key = files[Legacy].pub
    BY <1>2, <1>3, <1>4
  <2>2. ASSUME NEW t \in Names, NEW u \in Names, files[u].pub # 0
        PROVE  files[t].key <= files[u].pub
    <3>1. u = s /\ files[u].pub = 1
      BY <1>2, <1>3, <2>2
    <3>2. files[t].key \in {0, 1}
      BY <1>2, <1>3
    <3>3. QED
      BY <3>1, <3>2
  <2>3. QED
    BY <2>1, <2>2 DEF AgedInv
<1>6. /\ loaded = [p \in Processes |-> [done |-> FALSE, keys |-> NoKeys]]
      /\ loading = [p \in Processes |-> NotLoading]
      /\ promised = [p \in Processes |-> {}]
  BY DEF Init
<1>7. NoKeys \in Files /\ \A t \in Slots : NoKeys[t].pub = 0
  BY SlotFacts DEF NoKeys, Files
<1>8. ProcessTypeOK
  BY <1>6, <1>7 DEF ProcessTypeOK
<1>9. CopyInv(NoKeys, {})
  BY <1>7 DEF CopyInv, SignsOlder
<1>10. \A p \in Processes : LoadedInv(p) /\ loading[p] = NotLoading
  BY <1>6, <1>9 DEF LoadedInv
<1>11. QED
  BY <1>5, <1>8, <1>10 DEF ReaderInv

LEMMA ReaderStep == ASSUME ReaderIInv, [Next]_vars PROVE ReaderIInv'
<1>1. DirectoryTypeOK /\ DirectoryInv /\ AgedInv /\ ReaderInv
  BY DEF ReaderIInv, GraceIInv, DirectoryInv
<1>2. GraceIInv'
  BY GraceStep DEF ReaderIInv
<1>3. CASE Script
  <2>1. Ages
    BY <1>1, <1>3, ScriptAges
  <2>2. loaded' = loaded /\ loading' = loading /\ promised' = promised
    BY <1>3 DEF Script, Rotate, DropKey, DropPub, Move, UnlinkKey, UnlinkPub, RenameKey,
       RenamePub, InstallKey, InstallPub, Crash, DirUnchanged, processVars
  <2>3. ReaderInv'
    BY <1>1, <2>1, <2>2, LoadsOutliveScript, ReaderStill
  <2>4. QED
    BY <1>1, <1>2, <2>1, <2>3, AgedStep DEF ReaderIInv
<1>4. ASSUME UNCHANGED dirVars PROVE AgedInv'
  BY <1>1, <1>4 DEF AgedInv, dirVars
<1>5. CASE UNCHANGED <<dirVars, processVars>>
  <2>1. /\ files' = files /\ made' = made /\ completed' = completed
        /\ loaded' = loaded /\ loading' = loading /\ promised' = promised
    BY <1>5 DEF dirVars, processVars
  <2>2. ReaderInv'
    BY <1>1, <2>1, LoadInvFrame, ReaderStill
  <2>3. QED
    BY <1>2, <1>4, <1>5, <2>2 DEF ReaderIInv
<1>6. CASE \E p \in Processes : Process(p)
  <2>1. PICK p \in Processes : Process(p)
    BY <1>6
  <2>2. AgedInv'
    BY <1>4, <2>1, ProcessFacts
  <2>3. CASE Issue(p)
    BY <1>5, <2>3 DEF Issue
  <2>4. CASE ~Issue(p)
    <3>1. ReaderInv'
      BY <2>1, <2>4, BeginLoadReads, ReadKeyReads, ReadPubReads, RestartReads DEF Process
    <3>2. QED
      BY <1>2, <2>2, <3>1 DEF ReaderIInv
  <2>5. QED
    BY <2>3, <2>4
<1>7. CASE UNCHANGED vars
  BY <1>5, <1>7 DEF vars
<1>8. QED
  BY <1>3, <1>6, <1>7 DEF Next

LEMMA ReaderInvariance == Spec => []ReaderIInv
<1>1. Init => ReaderIInv
  BY DirectoryInit, GraceInit, ReaderInit DEF ReaderIInv, GraceIInv
<1>2. ReaderIInv /\ [Next]_vars => ReaderIInv'
  BY ReaderStep
<1>3. QED
  BY <1>1, <1>2, PTL DEF Spec

\* For every --keep-prev, however the loads of the processes and the file operations and
\* deaths of the script interleave, no process holds a private key younger than the public
\* half it is paired with: a torn pair signs with a key that had been published before.
THEOREM TornPairsAlwaysSignOlder == Spec => []TornPairsSignOlder
<1>1. ReaderIInv => TornPairsSignOlder
  BY DEF ReaderIInv, ReaderInv, LoadedInv, CopyInv, SignsOlder, TornPairsSignOlder
<1>2. QED
  BY <1>1, ReaderInvariance, PTL

\* For every --keep-prev, a process verifies every token, under whatever kid and by
\* whichever process it was signed, of a key that was in its grace when the process loaded
\* a directory that had not moved from the listing to the last file.
THEOREM GraceTokensAlwaysVerify == Spec => []GraceTokensVerify
<1>1. ReaderIInv => GraceTokensVerify
  <2> SUFFICES ASSUME ReaderIInv, NEW p \in Processes, NEW token \in tokens,
                      token.key \in promised[p]
               PROVE  Accepts(p, token)
    BY DEF GraceTokensVerify
  <2>1. token.key # 0 /\ \E s \in Slots : loaded[p].keys[s].pub = token.key
    BY DEF ReaderIInv, ReaderInv, LoadedInv, CopyInv
  <2>2. PICK s \in Slots : loaded[p].keys[s].pub = token.key
    BY <2>1
  <2>3. s \in Candidates(loaded[p].keys, token.kid)
    BY <2>1, <2>2 DEF Candidates, Known
  <2>4. QED
    BY <2>2, <2>3 DEF Accepts
<1>2. QED
  BY <1>1, ReaderInvariance, PTL

=============================================================================
