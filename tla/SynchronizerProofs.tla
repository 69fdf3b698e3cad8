------------------------- MODULE SynchronizerProofs -------------------------
(***************************************************************************)
(* Proofs about the verifier: whatever arrives from the network and        *)
(* whatever other tasks do to the chain, the calls of synchronize_chain    *)
(* follow the lineage of a block, and a block is stored when nothing below *)
(* it is missing.                                                          *)
(***************************************************************************)
EXTENDS Synchronizer, SequenceTheorems, TLAPS

(* Where the verifier is agrees with its calls and with the tries.         *)
CallsInHand ==
    /\ pc = "idle" <=> syncing = <<>>
    /\ pc # "asking" => tries = 0
    /\ pc = "asking" => Last(syncing) # GenesisHash

(* The block that is about to be added is stored or will be.               *)
ReadyToAdd ==
    pc = "adding" /\ undisturbed =>
        \/ Last(syncing) \in tree
        \/ previous_hash[Last(syncing)] \in tree

(* What the table keeps for a hash is the block of that hash.              *)
SoundTable(t) ==
    /\ IsResponseSet(t)
    /\ \A h \in DOMAIN t : t[h].kept \in {h, NoBlock}

(* The table and genesis are where they should be, the calls are in order  *)
(* and the next block to add has a place.                                  *)
IInv ==
    /\ TypeOK
    /\ SoundTable(table)
    /\ GenesisHash \in tree
    /\ CallsInHand
    /\ CallsFollowLineage
    /\ ReadyToAdd

-----------------------------------------------------------------------------
(* Lemmas about the response table and about sequences of calls.           *)

(* A good entry keeps the table sound.                                     *)
LEMMA WithIsSound ==
    ASSUME NEW t, SoundTable(t), NEW h \in Hash, NEW n \in Nat \ {0},
           NEW b \in {h, NoBlock}
    PROVE  SoundTable(With(t, h, [count |-> n, kept |-> b]))
  <1> DEFINE e == [count |-> n, kept |-> b]
             u == With(t, h, e)
  <1>1. e \in Entry /\ e.kept \in {h, NoBlock}
    BY DEF Entry
  <1> HIDE DEF e
  <1>2. DOMAIN u = DOMAIN t \cup {h} /\ \A k \in DOMAIN u : u[k] = IF k = h THEN e ELSE t[k]
    BY DEF With
  <1>3. IsResponseSet(u)
    BY <1>1 DEF With, SoundTable, IsResponseSet
  <1> HIDE DEF u
  <1>4. \A k \in DOMAIN u : u[k].kept \in {k, NoBlock}
    BY <1>1, <1>2 DEF SoundTable
  <1> QED
    BY <1>3, <1>4 DEF SoundTable, u, e

(* So does the removal of one.                                             *)
LEMMA WithoutIsSound ==
    ASSUME NEW t, SoundTable(t), NEW h
    PROVE  SoundTable(Without(t, h))
  BY DEF SoundTable, IsResponseSet, Without

(* Writing an entry and removing it is removing it.                        *)
LEMMA WithoutWith ==
    ASSUME NEW t, SoundTable(t), NEW h, NEW e
    PROVE  Without(With(t, h, e), h) = Without(t, h)
  BY DEF Without, With

(* Counts are natural numbers, and what is found is what was looked for.   *)
LEMMA FoundIsSound ==
    ASSUME NEW t, SoundTable(t), NEW h \in Hash
    PROVE  /\ count(t, h) \in Nat
           /\ kept(t, h) \in {h, NoBlock}
  BY DEF SoundTable, IsResponseSet, Entry, count, kept

(* A request leaves a sound table.                                         *)
LEMMA RequestIsSound ==
    ASSUME NEW t, SoundTable(t), NEW h \in Hash
    PROVE  SoundTable(add_synchronizer_request(t, h))
  <1>1. count(t, h) + 1 \in Nat \ {0}
    BY FoundIsSound
  <1> QED
    BY <1>1, WithIsSound DEF add_synchronizer_request

(* An answer leaves a sound table.                                         *)
LEMMA ResponseIsSound ==
    ASSUME NEW t, SoundTable(t), NEW b \in Hash
    PROVE  SoundTable(add_synchronizer_response(t, b))
  <1>1. count(t, b) \in Nat
    BY FoundIsSound
  <1> QED
    BY <1>1, WithIsSound DEF add_synchronizer_response

(* A look leaves a sound table: what it writes back, it writes back under  *)
(* the hash it looked for, and removes when nothing is left to count.      *)
LEMMA LookIsSound ==
    ASSUME NEW t, SoundTable(t), NEW h \in Hash, NEW last_chance \in BOOLEAN
    PROVE  SoundTable(get_synchronizer_response(t, h, last_chance))
  <1> DEFINE left == IF count(t, h) < 1 THEN 0 ELSE count(t, h) - 1
             block == kept(t, h)
             noted == IF block # NoBlock
                      THEN With(t, block, [count |-> left, kept |-> block])
                      ELSE IF last_chance
                      THEN With(t, h, [count |-> left, kept |-> NoBlock])
                      ELSE t
  <1>1. count(t, h) \in Nat /\ block \in {h, NoBlock}
    BY FoundIsSound
  <1>2. left \in Nat
    BY <1>1
  <1>3. get_synchronizer_response(t, h, last_chance) =
            IF left < 1 THEN Without(noted, h) ELSE noted
    BY DEF get_synchronizer_response
  <1> HIDE DEF left, block
  <1>4. \/ noted = t
        \/ \E b \in {h, NoBlock} : noted = With(t, h, [count |-> left, kept |-> b])
    BY <1>1
  <1> HIDE DEF noted
  <1>5. CASE left < 1
    <2>1. Without(noted, h) = Without(t, h)
      BY <1>4, WithoutWith
    <2> QED
      BY <1>3, <1>5, <2>1, WithoutIsSound
  <1>6. CASE ~ (left < 1)
    <2>1. left \in Nat \ {0}
      BY <1>2, <1>6
    <2>2. SoundTable(noted)
      BY <1>4, <2>1, WithIsSound
    <2> QED
      BY <1>3, <1>6, <2>2
  <1> QED
    BY <1>5, <1>6

(* The innermost of the calls in hand.                                     *)
LEMMA LastIsHash ==
    ASSUME NEW s \in Seq(Hash), s # <<>>
    PROVE  Len(s) \in Nat \ {0} /\ Last(s) \in Hash
  BY EmptySeq DEF Last

(* What is left of the calls when the innermost returns.                   *)
LEMMA FrontOfCalls ==
    ASSUME NEW s \in Seq(Hash), s # <<>>
    PROVE  /\ Front(s) \in Seq(Hash)
           /\ Len(Front(s)) = Len(s) - 1
           /\ \A i \in 1 .. Len(s) - 1 : Front(s)[i] = s[i]
  <1>1. Len(s) \in Nat \ {0}
    BY LastIsHash
  <1>2. \A i \in 1 .. Len(s) - 1 : s[i] \in Hash
    BY <1>1
  <1>3. Len(s) - 1 \in Int /\ 1 \in Int
    BY <1>1
  <1>4. /\ SubSeq(s, 1, Len(s) - 1) \in Seq(Hash)
        /\ Len(SubSeq(s, 1, Len(s) - 1)) =
               IF 1 <= Len(s) - 1 THEN (Len(s) - 1) - 1 + 1 ELSE 0
        /\ \A i \in 1 .. (Len(s) - 1) - 1 + 1 :
               SubSeq(s, 1, Len(s) - 1)[i] = s[1 + i - 1]
    BY <1>2, <1>3, SubSeqProperties
  <1>5. Front(s) = SubSeq(s, 1, Len(s) - 1)
    BY DEF Front
  <1>6. \A i \in 1 .. Len(s) - 1 : i \in 1 .. (Len(s) - 1) - 1 + 1 /\ s[1 + i - 1] = s[i]
    BY <1>1
  <1>7. Len(Front(s)) = Len(s) - 1
    <2>1. \A n \in Nat \ {0} : (IF 1 <= n - 1 THEN (n - 1) - 1 + 1 ELSE 0) = n - 1
      OBVIOUS
    <2>2. (IF 1 <= Len(s) - 1 THEN (Len(s) - 1) - 1 + 1 ELSE 0) = Len(s) - 1
      BY <1>1, <2>1
    <2> QED
      BY <1>4, <1>5, <2>2, Zenon
  <1>8. \A i \in 1 .. Len(s) - 1 : Front(s)[i] = s[i]
    BY <1>4, <1>5, <1>6
  <1> QED
    BY <1>4, <1>5, <1>7, <1>8

(* A call for the parent of the innermost keeps the calls in order.        *)
LEMMA ParentIsCalled ==
    ASSUME TypeOK, CallsFollowLineage, syncing # <<>>, Wanted \in Hash,
           syncing' = Append(syncing, Wanted)
    PROVE  /\ syncing' \in Seq(Hash)
           /\ syncing' # <<>>
           /\ CallsFollowLineage'
  <1>1. syncing \in Seq(Hash) /\ Len(syncing) \in Nat \ {0}
    BY LastIsHash DEF TypeOK
  <1>2. /\ Append(syncing, Wanted) \in Seq(Hash)
        /\ Append(syncing, Wanted) # <<>>
        /\ Len(Append(syncing, Wanted)) = Len(syncing) + 1
        /\ \A i \in 1 .. Len(syncing) : Append(syncing, Wanted)[i] = syncing[i]
        /\ Append(syncing, Wanted)[Len(syncing) + 1] = Wanted
    BY <1>1, AppendProperties
  <1>3. ASSUME NEW i \in 1 .. Len(syncing') - 1
        PROVE  syncing'[i + 1] = previous_hash[syncing'[i]]
    <2>1. i \in 1 .. Len(syncing)
      BY <1>1, <1>2, <1>3
    <2>2. CASE i = Len(syncing)
      BY <1>2, <2>1, <2>2 DEF Wanted, Last
    <2>3. CASE i # Len(syncing)
      <3>1. i \in 1 .. Len(syncing) - 1 /\ i + 1 \in 1 .. Len(syncing)
        BY <1>1, <2>1, <2>3
      <3> QED
        BY <1>2, <2>1, <3>1 DEF CallsFollowLineage
    <2> QED
      BY <2>2, <2>3
  <1> QED
    BY <1>2, <1>3 DEF CallsFollowLineage

(* The innermost call returns to the one for its child.                    *)
LEMMA CallReturns ==
    ASSUME TypeOK, CallsFollowLineage, syncing # <<>>, syncing' = Front(syncing)
    PROVE  /\ syncing' \in Seq(Hash)
           /\ syncing' = <<>> <=> Len(syncing) = 1
           /\ CallsFollowLineage'
           /\ syncing' # <<>> => previous_hash[Last(syncing')] = Last(syncing)
           /\ syncing' = <<>> => Head(syncing) = Last(syncing)
  <1>1. syncing \in Seq(Hash) /\ Len(syncing) \in Nat \ {0}
    BY LastIsHash DEF TypeOK
  <1>2. /\ syncing' \in Seq(Hash)
        /\ Len(syncing') = Len(syncing) - 1
        /\ \A i \in 1 .. Len(syncing) - 1 : syncing'[i] = syncing[i]
    BY <1>1, FrontOfCalls
  <1>3. syncing' = <<>> <=> Len(syncing) = 1
    <2>1. syncing' = <<>> <=> Len(syncing') = 0
      BY <1>2, EmptySeq
    <2> QED
      BY <1>1, <1>2, <2>1
  <1>4. ASSUME NEW i \in 1 .. Len(syncing') - 1
        PROVE  syncing'[i + 1] = previous_hash[syncing'[i]]
    <2>1. i \in 1 .. Len(syncing) - 1 /\ i + 1 \in 1 .. Len(syncing) - 1
      BY <1>1, <1>2, <1>4
    <2> QED
      BY <1>2, <2>1 DEF CallsFollowLineage
  <1>5. ASSUME syncing' # <<>>
        PROVE  previous_hash[Last(syncing')] = Last(syncing)
    <2> DEFINE i == Len(syncing) - 1
    <2>1. i \in 1 .. Len(syncing) - 1 /\ Len(syncing') = i /\ i + 1 = Len(syncing)
      BY <1>1, <1>2, <1>3, <1>5
    <2>2. Last(syncing') = syncing[i] /\ Last(syncing) = syncing[i + 1]
      BY <1>2, <2>1 DEF Last
    <2> QED
      BY <2>1, <2>2 DEF CallsFollowLineage
  <1>6. ASSUME syncing' = <<>> PROVE Head(syncing) = Last(syncing)
    <2>1. Len(syncing) = 1
      BY <1>3, <1>6
    <2>2. Head(SubSeq(syncing, 1, 1)) = syncing[1] /\ SubSeq(syncing, 1, 1) = syncing
      BY <1>1, <2>1, HeadTailOfSubSeq, SubSeqFull
    <2> QED
      BY <2>1, <2>2 DEF Last
  <1> QED
    BY <1>2, <1>3, <1>4, <1>5, <1>6 DEF CallsFollowLineage

(* The block that is waited for has a hash.                                *)
LEMMA WantedIsHash ==
    ASSUME IInv, pc = "asking"
    PROVE  Wanted \in Hash /\ syncing # <<>>
  <1>1. syncing \in Seq(Hash) /\ syncing # <<>> /\ Last(syncing) # GenesisHash
    BY DEF IInv, TypeOK, CallsInHand
  <1>2. Last(syncing) \in Hash
    BY <1>1, LastIsHash
  <1> QED
    BY <1>1, <1>2, SynchronizerAssumption DEF Wanted

-----------------------------------------------------------------------------
(* Every step keeps IInv.                                                  *)

(* The verifier starts idle on a chain of one block.                       *)
LEMMA Initially == Init => IInv
  BY SynchronizerAssumption, EmptySeq
  DEF Init, IInv, TypeOK, SoundTable, IsResponseSet, EmptyTable, CallsInHand,
      CallsFollowLineage, ReadyToAdd

(* The other tasks of the node leave the verifier alone, keep genesis, and *)
(* cut nothing unnoticed.                                                  *)
LEMMA OthersKeep ==
    ASSUME IInv, (\E h \in Hash : MinerAdds(h)) \/ resolve_chain
    PROVE  IInv'
  <1>1. UNCHANGED <<pc, syncing, tries, table, received>>
    BY DEF MinerAdds, resolve_chain
  <1>2. tree' \subseteq Hash /\ GenesisHash \in tree' /\ undisturbed' \in BOOLEAN
    BY SynchronizerAssumption
    DEF MinerAdds, add_block, resolve_chain, Chain!IsHighest, IInv, TypeOK
  <1>3. undisturbed' => undisturbed /\ tree \subseteq tree'
    BY DEF MinerAdds, add_block, resolve_chain
  <1>4. TypeOK'
    BY <1>1, <1>2 DEF IInv, TypeOK
  <1>5. CallsInHand' /\ CallsFollowLineage' /\ SoundTable(table')
    BY <1>1 DEF IInv, CallsInHand, CallsFollowLineage
  <1>6. ReadyToAdd'
    BY <1>1, <1>3 DEF IInv, ReadyToAdd
  <1> QED
    BY <1>2, <1>4, <1>5, <1>6 DEF IInv

(* A mined block starts a synchronization of its own.                      *)
LEMMA ReceiveKeeps ==
    ASSUME NEW h \in Hash, IInv, receive_mined_block(h)
    PROVE  IInv'
  <1>1. syncing' \in Seq(Hash) /\ syncing' # <<>> /\ Len(syncing') = 1
    BY DEF receive_mined_block
  <1>2. TypeOK'
    BY <1>1, SynchronizerAssumption DEF receive_mined_block, IInv, TypeOK
  <1>3. CallsFollowLineage'
    BY <1>1 DEF CallsFollowLineage
  <1>4. CallsInHand' /\ ReadyToAdd' /\ GenesisHash \in tree' /\ SoundTable(table')
    BY <1>1 DEF receive_mined_block, IInv, CallsInHand, ReadyToAdd
  <1> QED
    BY <1>2, <1>3, <1>4 DEF IInv

(* A block is looked up, and its parent asked for; genesis is never looked *)
(* for in vain.                                                            *)
LEMMA CheckKeeps ==
    ASSUME IInv, BlockIsStored \/ RequestParent
    PROVE  IInv'
  <1>1. UNCHANGED <<tree, syncing, tries, undisturbed, received>> /\ pc = "checking"
    BY DEF BlockIsStored, RequestParent
  <1>2. syncing \in Seq(Hash) /\ syncing # <<>> /\ Last(syncing) \in Hash
    BY <1>1, LastIsHash DEF IInv, TypeOK, CallsInHand
  <1>3. CallsFollowLineage' /\ GenesisHash \in tree'
    BY <1>1 DEF IInv, CallsFollowLineage
  <1>4. CASE BlockIsStored
    <2>1. TypeOK'
      BY <1>4 DEF BlockIsStored, IInv, TypeOK
    <2>2. CallsInHand' /\ ReadyToAdd' /\ SoundTable(table')
      BY <1>2, <1>4 DEF BlockIsStored, IInv, CallsInHand, ReadyToAdd
    <2> QED
      BY <1>3, <2>1, <2>2 DEF IInv
  <1>5. CASE RequestParent
    <2>1. Last(syncing) # GenesisHash
      BY <1>5 DEF RequestParent, IInv
    <2>2. Wanted \in Hash
      BY <1>2, <2>1, SynchronizerAssumption DEF Wanted
    <2>3. SoundTable(table')
      BY <1>5, <2>2, RequestIsSound DEF RequestParent, IInv
    <2>4. TypeOK'
      BY <1>1, <1>5, <2>3 DEF RequestParent, IInv, TypeOK, SoundTable
    <2>5. CallsInHand' /\ ReadyToAdd'
      BY <1>1, <1>2, <1>5, <2>1 DEF RequestParent, IInv, CallsInHand, ReadyToAdd
    <2> QED
      BY <1>3, <2>3, <2>4, <2>5 DEF IInv
  <1> QED
    BY <1>4, <1>5

(* request_block returning a block keeps the calls in order.               *)
LEMMA ObtainKeeps ==
    ASSUME IInv, pc = "asking", Obtain(Wanted), SoundTable(table'),
           UNCHANGED <<tree, undisturbed, received>>
    PROVE  IInv'
  <1>1. /\ syncing' \in Seq(Hash)
        /\ syncing' # <<>>
        /\ CallsFollowLineage'
    BY WantedIsHash, ParentIsCalled DEF IInv, Obtain
  <1>2. TypeOK'
    BY <1>1, SynchronizerAssumption DEF Obtain, IInv, TypeOK, SoundTable
  <1>3. CallsInHand' /\ ReadyToAdd' /\ GenesisHash \in tree'
    BY <1>1 DEF Obtain, IInv, CallsInHand, ReadyToAdd
  <1> QED
    BY <1>1, <1>2, <1>3 DEF IInv

(* Whatever arrives, request_block returns what it was asked for: the      *)
(* answer itself, or what the table keeps under the hash.                  *)
LEMMA ReturnsWanted ==
    ASSUME IInv, NEW answer \in Hash \cup {NoBlock},
           ReceiveMine(answer) \/ ReceiveOther(answer)
    PROVE  /\ pc = "asking" /\ tries < MaxTries
           /\ Obtain(Wanted) \/ KeepAsking
           /\ SoundTable(table')
           /\ UNCHANGED <<tree, undisturbed, received>>
  <1>1. SoundTable(table)
    BY DEF IInv
  <1>2. CASE ReceiveMine(answer)
    BY <1>1, <1>2 DEF ReceiveMine, IsMine
  <1>3. CASE ReceiveOther(answer)
    <2> DEFINE heard == IF answer = NoBlock THEN table
                        ELSE add_synchronizer_response(table, answer)
               found == kept(heard, Wanted)
    <2>1. /\ pc = "asking" /\ tries < MaxTries
          /\ table' = get_synchronizer_response(heard, Wanted, FALSE)
          /\ IF found # NoBlock THEN Obtain(found) ELSE KeepAsking
          /\ UNCHANGED <<tree, undisturbed, received>>
      BY <1>3 DEF ReceiveOther
    <2>2. SoundTable(heard)
      BY <1>1, ResponseIsSound
    <2> HIDE DEF heard
    <2>3. Wanted \in Hash
      BY <2>1, WantedIsHash
    <2>4. found \in {Wanted, NoBlock} /\ SoundTable(table')
      BY <2>1, <2>2, <2>3, FoundIsSound, LookIsSound
    <2> HIDE DEF found
    <2> QED
      BY <2>1, <2>4
  <1> QED
    BY <1>2, <1>3

(* An answer, the one waited for or another, keeps IInv.                   *)
LEMMA AnswerKeeps ==
    ASSUME IInv, NEW answer \in Hash \cup {NoBlock},
           ReceiveMine(answer) \/ ReceiveOther(answer)
    PROVE  IInv'
  <1>1. /\ pc = "asking" /\ tries < MaxTries
        /\ Obtain(Wanted) \/ KeepAsking
        /\ SoundTable(table')
        /\ UNCHANGED <<tree, undisturbed, received>>
    BY ReturnsWanted
  <1>2. CASE Obtain(Wanted)
    BY <1>1, <1>2, ObtainKeeps
  <1>3. CASE KeepAsking
    <2>1. tries' \in 0 .. MaxTries
      BY <1>1, <1>3, SynchronizerAssumption DEF KeepAsking, IInv, TypeOK
    <2>2. TypeOK'
      BY <1>1, <1>3, <2>1 DEF KeepAsking, IInv, TypeOK, SoundTable
    <2>3. CallsInHand' /\ CallsFollowLineage' /\ ReadyToAdd' /\ GenesisHash \in tree'
      BY <1>1, <1>3
      DEF KeepAsking, IInv, CallsInHand, CallsFollowLineage, ReadyToAdd
    <2> QED
      BY <1>1, <2>2, <2>3 DEF IInv
  <1> QED
    BY <1>1, <1>2, <1>3

(* When the time is over, what request_block still finds in the table is   *)
(* what it was asked for, too.                                             *)
LEMMA LastLook ==
    ASSUME IInv, TimeOut
    PROVE  /\ pc = "asking"
           /\ \/ Obtain(Wanted) /\ UNCHANGED undisturbed
              \/ GiveUp
           /\ SoundTable(table')
           /\ UNCHANGED <<tree, received>>
  <1>1. /\ pc = "asking"
        /\ table' = get_synchronizer_response(table, Wanted, TRUE)
        /\ IF kept(table, Wanted) # NoBlock
           THEN Obtain(kept(table, Wanted)) /\ UNCHANGED undisturbed
           ELSE GiveUp
        /\ UNCHANGED <<tree, received>>
    BY DEF TimeOut
  <1>2. Wanted \in Hash /\ SoundTable(table)
    BY <1>1, WantedIsHash DEF IInv
  <1>3. kept(table, Wanted) \in {Wanted, NoBlock} /\ SoundTable(table')
    BY <1>1, <1>2, FoundIsSound, LookIsSound
  <1> QED
    BY <1>1, <1>3

(* Either that is taken, or the block is added with its parent stored or   *)
(* given up.                                                               *)
LEMMA TimeOutKeeps ==
    ASSUME IInv, TimeOut
    PROVE  IInv'
  <1>1. /\ pc = "asking"
        /\ \/ Obtain(Wanted) /\ UNCHANGED undisturbed
           \/ GiveUp
        /\ SoundTable(table')
        /\ UNCHANGED <<tree, received>>
    BY LastLook
  <1>2. CASE Obtain(Wanted) /\ UNCHANGED undisturbed
    BY <1>1, <1>2, ObtainKeeps
  <1>3. CASE GiveUp
    <2>1. TypeOK'
      BY <1>1, <1>3, SynchronizerAssumption DEF GiveUp, IInv, TypeOK, SoundTable
    <2>2. CallsInHand' /\ CallsFollowLineage' /\ ReadyToAdd' /\ GenesisHash \in tree'
      BY <1>1, <1>3
      DEF GiveUp, Wanted, IInv, CallsInHand, CallsFollowLineage, ReadyToAdd
    <2> QED
      BY <1>1, <2>1, <2>2 DEF IInv
  <1> QED
    BY <1>1, <1>2, <1>3

(* Undisturbed, the block that is added gets stored.                       *)
LEMMA AddedIsStored ==
    ASSUME IInv, AddBlock
    PROVE  undisturbed => Last(syncing) \in tree'
  BY DEF IInv, ReadyToAdd, AddBlock, add_block

(* The innermost call adds its block, and the next finds its parent there. *)
LEMMA AddKeeps ==
    ASSUME IInv, AddBlock
    PROVE  IInv'
  <1>1. pc = "adding" /\ syncing \in Seq(Hash) /\ syncing # <<>>
    BY DEF AddBlock, IInv, TypeOK, CallsInHand
  <1>2. /\ syncing' \in Seq(Hash)
        /\ syncing' = <<>> <=> Len(syncing) = 1
        /\ CallsFollowLineage'
        /\ syncing' # <<>> => previous_hash[Last(syncing')] = Last(syncing)
    BY <1>1, CallReturns DEF IInv, AddBlock
  <1>3. Last(syncing) \in Hash
    BY <1>1, LastIsHash
  <1>4. tree \subseteq tree' /\ tree' \subseteq Hash
    BY <1>3 DEF AddBlock, add_block, IInv, TypeOK
  <1>5. TypeOK' /\ GenesisHash \in tree' /\ SoundTable(table')
    BY <1>2, <1>4 DEF AddBlock, IInv, TypeOK
  <1>6. CallsInHand'
    BY <1>1, <1>2 DEF AddBlock, IInv, CallsInHand
  <1>7. ReadyToAdd'
    BY <1>2, AddedIsStored DEF AddBlock, ReadyToAdd
  <1> QED
    BY <1>2, <1>5, <1>6, <1>7 DEF IInv

(* IInv holds in every reachable state.                                    *)
THEOREM Invariance == Spec => []IInv
  <1>1. IInv /\ [Next]_vars => IInv'
    <2> SUFFICES ASSUME IInv, [Next]_vars PROVE IInv'
      OBVIOUS
    <2>1. CASE Next
      BY <2>1, OthersKeep, ReceiveKeeps, CheckKeeps, AnswerKeeps, TimeOutKeeps,
         AddKeeps DEF Next
    <2>2. CASE UNCHANGED vars
      BY <2>2 DEF vars, IInv, TypeOK, CallsInHand, CallsFollowLineage, ReadyToAdd
    <2> QED
      BY <2>1, <2>2
  <1> QED
    BY Initially, <1>1, PTL DEF Spec

(* The verifier, its calls and its table keep their types.                 *)
THEOREM TypeCorrect == Spec => []TypeOK
  <1>1. IInv => TypeOK
    BY DEF IInv
  <1> QED
    BY Invariance, <1>1, PTL

(* The calls of synchronize_chain are for a block, its parent, and so on,  *)
(* whatever answers arrive: request_block returns no block but the one it  *)
(* was asked for, because the table keeps every answer under its own hash, *)
(* whoever asked for it and whatever was removed or counted meanwhile.     *)
THEOREM LineageFollowed == Spec => []CallsFollowLineage
  <1>1. IInv => CallsFollowLineage
    BY DEF IInv
  <1> QED
    BY Invariance, <1>1, PTL

(* A block is stored when its synchronization ends, unless an ancestor was *)
(* given up or a resolution cut a block meanwhile.                         *)
THEOREM SynchronizedIsStored == Spec => ObtainedIsStored
  <1>1. IInv /\ [Next]_vars
        => [pc # "idle" /\ pc' = "idle" /\ undisturbed => Head(syncing) \in tree']_vars
    <2> SUFFICES ASSUME IInv, Next, pc # "idle", pc' = "idle", undisturbed
                 PROVE  Head(syncing) \in tree'
      OBVIOUS
    <2>1. AddBlock
      BY DEF Next, MinerAdds, resolve_chain, receive_mined_block, BlockIsStored,
             RequestParent, ReceiveMine, ReceiveOther, TimeOut, Obtain,
             KeepAsking, GiveUp
    <2>2. Len(syncing) = 1 /\ syncing' = Front(syncing) /\ syncing # <<>>
      BY <2>1 DEF AddBlock, IInv, CallsInHand
    <2>3. Head(syncing) = Last(syncing)
      BY <2>2, CallReturns DEF IInv
    <2> QED
      BY <2>1, <2>3, AddedIsStored
  <1> QED
    BY Invariance, <1>1, PTL DEF Spec, ObtainedIsStored

-----------------------------------------------------------------------------
(* Every synchronization runs out of steps.                                *)

(* The steps a block may cost are a number, and fewer than its child's by  *)
(* one round of tries, the call itself and its return.                     *)
LEMMA LowerCostsLess ==
    ASSUME NEW h \in Hash
    PROVE  /\ Height[h] * (MaxTries + 3) \in Nat
           /\ Height[h] * (MaxTries + 3) >= MaxTries + 3
           /\ h # GenesisHash =>
                 Height[previous_hash[h]] * (MaxTries + 3)
                     <= Height[h] * (MaxTries + 3) - (MaxTries + 3)
  <1> DEFINE D == MaxTries + 3
  <1>1. D \in Nat /\ \A x \in Hash : Height[x] \in Nat \ {0}
    BY SynchronizerAssumption
  <1>2. ASSUME NEW m \in Nat, NEW n \in Nat, m + 1 <= n
        PROVE  m * D + D <= n * D
    <2>1. m * D + D = (m + 1) * D
      BY <1>1
    <2>2. (m + 1) * D <= n * D
      BY <1>1, <1>2
    <2> QED
      BY <2>1, <2>2
  <1>3. Height[h] * D \in Nat /\ D <= Height[h] * D
    <2>1. 0 * D + D <= Height[h] * D
      BY <1>1, <1>2
    <2>2. 0 * D = 0 /\ Height[h] * D \in Nat
      BY <1>1
    <2> QED
      BY <1>1, <2>1, <2>2
  <1>4. ASSUME h # GenesisHash
        PROVE  Height[previous_hash[h]] * D <= Height[h] * D - D
    <2> DEFINE p == previous_hash[h]
    <2>1. p \in Hash /\ Height[p] + 1 <= Height[h]
      BY <1>1, <1>4, SynchronizerAssumption
    <2>2. Height[p] * D + D <= Height[h] * D /\ Height[p] * D \in Nat
      BY <1>1, <1>2, <2>1
    <2> QED
      BY <1>1, <1>3, <2>2
  <1> QED
    BY <1>3, <1>4

(* A call for the parent costs less than what asking for it may still have *)
(* cost.                                                                   *)
LEMMA ObtainAdvances ==
    ASSUME IInv, IInv', pc = "asking", Obtain(Wanted)
    PROVE  StepsLeft' \in 0 .. StepsLeft - 1
  <1> DEFINE h == Last(syncing)
             D == MaxTries + 3
  <1>1. /\ syncing \in Seq(Hash) /\ syncing # <<>>
        /\ h \in Hash /\ h # GenesisHash /\ Wanted \in Hash
        /\ Len(syncing) \in Nat
    BY WantedIsHash, LastIsHash DEF IInv, TypeOK, CallsInHand
  <1>2. /\ Len(syncing') = Len(syncing) + 1
        /\ Last(syncing') = Wanted
        /\ pc' = "checking"
    BY <1>1, AppendProperties DEF Obtain, Last
  <1>3. /\ Height[h] * D \in Nat /\ Height[Wanted] * D \in Nat
        /\ Height[Wanted] * D <= Height[h] * D - D
    BY <1>1, LowerCostsLess DEF Wanted
  <1>4. tries \in 0 .. MaxTries /\ MaxTries \in Nat
    BY SynchronizerAssumption DEF IInv, TypeOK
  <1>5. StepsLeft = Len(syncing) + (Height[h] * D - 1 - tries)
    BY DEF StepsLeft
  <1>6. StepsLeft' = Len(syncing) + 1 + Height[Wanted] * D
    BY <1>2 DEF StepsLeft
  <1> HIDE DEF h
  <1> QED
    BY <1>1, <1>3, <1>4, <1>5, <1>6

(* So does going on without the parent.                                    *)
LEMMA GiveUpAdvances ==
    ASSUME IInv, pc = "asking", GiveUp
    PROVE  StepsLeft' \in 0 .. StepsLeft - 1
  <1> DEFINE h == Last(syncing)
             D == MaxTries + 3
  <1>1. h \in Hash /\ Len(syncing) \in Nat
    BY WantedIsHash, LastIsHash DEF IInv, TypeOK
  <1>2. Height[h] * D \in Nat /\ Height[h] * D >= D
    BY <1>1, LowerCostsLess
  <1>3. tries \in 0 .. MaxTries /\ MaxTries \in Nat
    BY SynchronizerAssumption DEF IInv, TypeOK
  <1>4. StepsLeft = Len(syncing) + (Height[h] * D - 1 - tries)
    BY DEF StepsLeft
  <1>5. StepsLeft' = Len(syncing)
    BY <1>1 DEF GiveUp, StepsLeft
  <1> HIDE DEF h
  <1> QED
    BY <1>1, <1>2, <1>3, <1>4, <1>5

(* An answer to something else uses up one of the tries.                   *)
LEMMA KeepAskingAdvances ==
    ASSUME IInv, pc = "asking", tries < MaxTries, KeepAsking
    PROVE  StepsLeft' \in 0 .. StepsLeft - 1
  <1> DEFINE h == Last(syncing)
             D == MaxTries + 3
  <1>1. h \in Hash /\ Len(syncing) \in Nat
    BY WantedIsHash, LastIsHash DEF IInv, TypeOK
  <1>2. Height[h] * D \in Nat /\ Height[h] * D >= D
    BY <1>1, LowerCostsLess
  <1>3. tries \in 0 .. MaxTries /\ MaxTries \in Nat
    BY SynchronizerAssumption DEF IInv, TypeOK
  <1>4. StepsLeft = Len(syncing) + (Height[h] * D - 1 - tries)
    BY DEF StepsLeft
  <1>5. StepsLeft' = Len(syncing) + (Height[h] * D - 1 - (tries + 1))
    BY DEF KeepAsking, StepsLeft
  <1> HIDE DEF h
  <1> QED
    BY <1>1, <1>2, <1>3, <1>4, <1>5

(* Looking a block up and asking for its parent are steps on the way.      *)
LEMMA CheckAdvances ==
    ASSUME IInv, BlockIsStored \/ RequestParent
    PROVE  StepsLeft' \in 0 .. StepsLeft - 1
  <1> DEFINE h == Last(syncing)
             D == MaxTries + 3
  <1>1. /\ pc = "checking" /\ tries = 0 /\ UNCHANGED <<syncing, tries>>
        /\ pc' = "adding" \/ pc' = "asking"
        /\ syncing \in Seq(Hash) /\ syncing # <<>>
    BY DEF BlockIsStored, RequestParent, IInv, TypeOK, CallsInHand
  <1>2. h \in Hash /\ Len(syncing) \in Nat
    BY <1>1, LastIsHash
  <1>3. Height[h] * D \in Nat /\ Height[h] * D >= D /\ D \in Nat /\ D >= 3
    BY <1>2, LowerCostsLess, SynchronizerAssumption
  <1>4. StepsLeft = Len(syncing) + Height[h] * D
    BY <1>1 DEF StepsLeft
  <1>5. CASE pc' = "adding"
    <2>1. StepsLeft' = Len(syncing)
      BY <1>1, <1>2, <1>5 DEF StepsLeft
    <2> HIDE DEF h
    <2> QED
      BY <1>2, <1>3, <1>4, <2>1
  <1>6. CASE pc' = "asking"
    <2>1. StepsLeft' = Len(syncing) + (Height[h] * D - 1 - 0)
      BY <1>1, <1>6 DEF StepsLeft
    <2> HIDE DEF h
    <2> QED
      BY <1>2, <1>3, <1>4, <2>1
  <1> QED
    BY <1>1, <1>5, <1>6

(* A call that returns leaves one call fewer.                              *)
LEMMA AddAdvances ==
    ASSUME IInv, AddBlock
    PROVE  StepsLeft' \in 0 .. StepsLeft - 1
  <1>1. /\ pc = "adding" /\ pc' \in {"idle", "adding"}
        /\ syncing \in Seq(Hash) /\ syncing # <<>>
        /\ syncing' = Front(syncing)
    BY DEF AddBlock, IInv, TypeOK, CallsInHand
  <1>2. Len(syncing) \in Nat \ {0} /\ Len(syncing') = Len(syncing) - 1
    BY <1>1, LastIsHash, FrontOfCalls
  <1>3. StepsLeft = Len(syncing) + 0 /\ StepsLeft' = Len(syncing') + 0
    BY <1>1 DEF StepsLeft
  <1> QED
    BY <1>2, <1>3

(* Every step of a synchronization brings its end nearer, so that none     *)
(* takes more steps than its block's height allows: what is left to        *)
(* fairness is only that the verifier takes them.                          *)
THEOREM StepsRunOut == Spec => SynchronizationAdvances
  <1> DEFINE Advances == pc # "idle" =>
                 \/ StepsLeft' \in 0 .. StepsLeft - 1
                 \/ UNCHANGED <<pc, syncing, tries, table>>
  <1>1. IInv /\ IInv' /\ [Next]_vars => [Advances]_vars
    <2> SUFFICES ASSUME IInv, IInv', Next, pc # "idle"
                 PROVE  \/ StepsLeft' \in 0 .. StepsLeft - 1
                        \/ UNCHANGED <<pc, syncing, tries, table>>
      OBVIOUS
    <2>1. CASE (\E h \in Hash : MinerAdds(h)) \/ resolve_chain
      BY <2>1 DEF MinerAdds, resolve_chain
    <2>2. CASE BlockIsStored \/ RequestParent
      BY <2>2, CheckAdvances
    <2>3. ASSUME NEW answer \in Hash \cup {NoBlock},
                 ReceiveMine(answer) \/ ReceiveOther(answer)
          PROVE  StepsLeft' \in 0 .. StepsLeft - 1
      <3>1. pc = "asking" /\ tries < MaxTries /\ (Obtain(Wanted) \/ KeepAsking)
        BY <2>3, ReturnsWanted
      <3> QED
        BY <3>1, ObtainAdvances, KeepAskingAdvances
    <2>5. CASE TimeOut
      <3>1. pc = "asking" /\ (Obtain(Wanted) \/ GiveUp)
        BY <2>5, LastLook
      <3> QED
        BY <3>1, ObtainAdvances, GiveUpAdvances
    <2>6. CASE AddBlock
      BY <2>6, AddAdvances
    <2>7. ASSUME NEW h \in Hash, receive_mined_block(h) PROVE FALSE
      BY <2>7 DEF receive_mined_block
    <2> QED
      BY <2>1, <2>2, <2>3, <2>5, <2>6, <2>7 DEF Next
  <1> QED
    BY Invariance, <1>1, PTL DEF Spec, SynchronizationAdvances

=============================================================================
