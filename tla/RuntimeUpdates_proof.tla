-------------------------- MODULE RuntimeUpdates_proof ---------------------------
(* No update is lost between the initial sync and the runtime updates, and no    *)
(* message is deleted before its readers have got it, for any objects, changes,  *)
(* capacities and interruptions.                                                 *)
EXTENDS RuntimeUpdates, FiniteSetTheorems, TLAPS

\* Contents that have been there so far.  No content returns, None excepted.
Known == {None, First, Old} \cup Id

\* The types of the model.
TypeInv ==
  /\ path \in {"config", "state"}
  /\ hash \in [Object -> Known] /\ row \in [Object -> Known]
  /\ checksum \in [Object -> Known]
  /\ sent \in Seq([object : Object, op : {"upsert", "delete"}])
  /\ Len(sent) <= MaxUpdates /\ stream \subseteq Id
  /\ phase \in {"clear", "compare", "apply", "runtime"}
  /\ seen \in [Object -> Known \cup {Unread}] /\ fetched \in [Object -> Known \cup {Unread}]
  /\ phase = "apply" => \A o \in Object : seen[o] # Unread
  /\ todo \subseteq Object
  /\ position \in [Reader -> 0..Len(sent)] /\ acked \in [Reader -> 0..Len(sent)]
  /\ inbox \in [Reader -> Seq(Id)] /\ upserts \in Seq(Id) /\ deletes \subseteq Id
  /\ waiting \in BOOLEAN /\ breaks \in 0..MaxBreak

\* The runtime updates have nothing before their phase, and each read of the
\* initial sync has nothing before its own.
QuietInv ==
  /\ phase # "runtime" =>
       /\ \A r \in Reader : position[r] = 0 /\ acked[r] = 0 /\ inbox[r] = << >>
       /\ upserts = << >> /\ deletes = {} /\ ~waiting
  /\ phase = "clear" => seen = Nothing
  /\ phase \in {"clear", "compare"} => fetched = Nothing

\* Messages overtake no other one up to the goroutines that execute them.  With a
\* serializer there is a single one after structifyStream.
OrderInv ==
  /\ \A r \in Reader : acked[r] <= position[r]
  /\ \A i \in DOMAIN inbox["db"] : inbox["db"][i] <= position["db"]
  /\ \A i, j \in DOMAIN inbox["db"] : i < j => inbox["db"][i] < inbox["db"][j]
  /\ \A i, j \in DOMAIN upserts : i < j => upserts[i] < upserts[j]
  /\ \A i \in DOMAIN upserts : sent[upserts[i]].op = "upsert"
  /\ \A id \in deletes : sent[id].op = "delete"
  /\ \A id \in ToSet(upserts) \cup deletes :
       /\ id <= position["db"]
       /\ \A i \in DOMAIN inbox["db"] : id < inbox["db"][i]
  /\ path = "state" => ~waiting
  /\ path = "config" =>
       \/ ~waiting /\ upserts = << >> /\ deletes = {}
       \/ waiting /\ Len(upserts) = 1 /\ deletes = {}
       \/ waiting /\ upserts = << >> /\ \E id \in deletes : deletes = {id}

\* A row that is not like its checksum has one that Redis will never have again.
ChecksumInv ==
  \A o \in Object :
    /\ row[o] # checksum[o] => checksum[o] \notin {None, hash[o]}
    /\ fetched[o] # Unread /\ fetched[o] # seen[o] => seen[o] \notin {None, hash[o]}

\* The last of the messages about an object says what Redis has of it.
Announced(o, messages) ==
  \E last \in messages :
    /\ sent[last].object = o /\ Says(last) = hash[o]
    /\ \A id \in messages : sent[id].object = o => id <= last

Untouched(o, messages) == \A id \in messages : sent[id].object # o

\* Without a message about an object, what the initial sync has read of it is what
\* Redis has, and the row is so unless a statement for it is to come.
InSync(o) ==
  /\ seen[o] \in {Unread, hash[o]} /\ fetched[o] \in {Unread, hash[o]}
  /\ phase = "apply" /\ o \notin todo => row[o] = hash[o]

SyncInv ==
  phase \in {"compare", "apply"} =>
    \A o \in Object :
      Announced(o, stream) \/ (Untouched(o, stream) /\ InSync(o))

\* What is to be executed ends with what Redis has.
RowInv ==
  phase = "runtime" =>
    \A o \in Object :
      Ordered(o) =>
        Announced(o, Pending) \/ (Untouched(o, Pending) /\ row[o] = hash[o])

IInv == TypeInv /\ QuietInv /\ OrderInv /\ ChecksumInv /\ SyncInv /\ RowInv

-------------------------------------------------------------------------------
(* Facts about sequences and messages.                                          *)

LEMMA InToSet == \A s, x : x \in ToSet(s) <=> \E i \in DOMAIN s : s[i] = x
BY DEF ToSet

LEMMA Elements ==
  ASSUME NEW S, NEW s \in Seq(S)
  PROVE  (\A i \in DOMAIN s : s[i] \in S) /\ ToSet(s) \subseteq S
BY DEF ToSet

LEMMA AppendFacts ==
  ASSUME NEW S, NEW s \in Seq(S), NEW x \in S
  PROVE  /\ Append(s, x) \in Seq(S) /\ Len(Append(s, x)) = Len(s) + 1
         /\ DOMAIN Append(s, x) = DOMAIN s \cup {Len(s) + 1}
         /\ \A i \in DOMAIN s : Append(s, x)[i] = s[i]
         /\ Append(s, x)[Len(s) + 1] = x
         /\ DOMAIN s = 1..Len(s) /\ Len(s) \in Nat
         /\ ToSet(Append(s, x)) = ToSet(s) \cup {x}
<1> DEFINE longer == Append(s, x)
<1>1. /\ longer \in Seq(S) /\ Len(longer) = Len(s) + 1
      /\ DOMAIN longer = DOMAIN s \cup {Len(s) + 1}
      /\ \A i \in DOMAIN s : longer[i] = s[i]
      /\ longer[Len(s) + 1] = x
      /\ DOMAIN s = 1..Len(s) /\ Len(s) \in Nat
  OBVIOUS
<1> HIDE DEF longer
<1>2. ASSUME NEW y PROVE y \in ToSet(longer) <=> y \in ToSet(s) \cup {x}
  BY <1>1, InToSet
<1> QED
  BY <1>1, <1>2 DEF longer

LEMMA HeadTailFacts ==
  ASSUME NEW S, NEW s \in Seq(S), s # << >>
  PROVE  /\ Head(s) = s[1] /\ 1 \in DOMAIN s /\ s[1] \in S
         /\ Tail(s) \in Seq(S)
         /\ \A i \in DOMAIN Tail(s) :
              i \in Nat \ {0} /\ i + 1 \in DOMAIN s /\ Tail(s)[i] = s[i + 1]
         /\ \A x : x \in ToSet(s) <=> x = Head(s) \/ x \in ToSet(Tail(s))
<1> DEFINE rest == Tail(s)
<1>1. /\ Head(s) = s[1] /\ 1 \in DOMAIN s /\ s[1] \in S /\ rest \in Seq(S)
      /\ \A i \in DOMAIN rest : i \in Nat \ {0} /\ i + 1 \in DOMAIN s /\ rest[i] = s[i + 1]
  OBVIOUS
<1>2. ASSUME NEW i \in DOMAIN s, i # 1
      PROVE  i - 1 \in DOMAIN rest /\ rest[i - 1] = s[i]
  BY <1>2
<1> HIDE DEF rest
<1>3. ASSUME NEW x PROVE x \in ToSet(s) <=> x = Head(s) \/ x \in ToSet(rest)
  <2>1. ASSUME x \in ToSet(s), x # Head(s) PROVE x \in ToSet(rest)
    <3>1. PICK i \in DOMAIN s : s[i] = x
      BY <2>1, InToSet
    <3> QED
      BY <1>1, <1>2, <2>1, <3>1, InToSet
  <2>2. ASSUME x \in ToSet(rest) PROVE x \in ToSet(s)
    <3>1. PICK i \in DOMAIN rest : rest[i] = x
      BY <2>2, InToSet
    <3> QED
      BY <1>1, <3>1, InToSet
  <2> QED
    BY <1>1, <2>1, <2>2, InToSet
<1> QED
  BY <1>1, <1>3 DEF rest

LEMMA SubSeqFacts ==
  ASSUME NEW S, NEW s \in Seq(S), NEW n \in 1..Len(s)
  PROVE  /\ SubSeq(s, n + 1, Len(s)) \in Seq(S)
         /\ Len(SubSeq(s, n + 1, Len(s))) = Len(s) - n
         /\ \A i \in DOMAIN SubSeq(s, n + 1, Len(s)) :
              i \in Nat \ {0} /\ i + n \in DOMAIN s /\ SubSeq(s, n + 1, Len(s))[i] = s[i + n]
         /\ \A x : x \in ToSet(SubSeq(s, n + 1, Len(s))) <=>
                     \E i \in (n + 1)..Len(s) : s[i] = x
         /\ DOMAIN s = 1..Len(s) /\ Len(s) \in Nat
<1> DEFINE rest == SubSeq(s, n + 1, Len(s))
<1>1. /\ rest \in Seq(S) /\ Len(rest) = Len(s) - n
      /\ DOMAIN s = 1..Len(s) /\ Len(s) \in Nat /\ DOMAIN rest = 1..(Len(s) - n)
      /\ \A i \in DOMAIN rest : i \in Nat \ {0} /\ i + n \in DOMAIN s /\ rest[i] = s[i + n]
  OBVIOUS
<1> HIDE DEF rest
<1>2. ASSUME NEW i \in (n + 1)..Len(s) PROVE i - n \in DOMAIN rest /\ rest[i - n] = s[i]
  <2>1. i - n \in 1..(Len(s) - n) /\ (i - n) + n = i
    BY <1>1
  <2> QED
    BY <1>1, <2>1
<1>3. ASSUME NEW i \in DOMAIN rest PROVE i + n \in (n + 1)..Len(s) /\ rest[i] = s[i + n]
  BY <1>1
<1>4. ASSUME NEW x PROVE x \in ToSet(rest) <=> \E i \in (n + 1)..Len(s) : s[i] = x
  <2>1. ASSUME x \in ToSet(rest) PROVE \E i \in (n + 1)..Len(s) : s[i] = x
    BY <1>3, <2>1, InToSet
  <2>2. ASSUME NEW i \in (n + 1)..Len(s), s[i] = x PROVE x \in ToSet(rest)
    BY <1>2, <2>2, InToSet
  <2> QED
    BY <2>1, <2>2
<1> QED
  BY <1>1, <1>4 DEF rest

LEMMA StepCases ==
  ASSUME [Next]_vars
  PROVE  \/ \E o \in Object, op \in {"upsert", "delete"} : Change(o, op)
         \/ ClearStreams
         \/ \E o \in Object : ScanChecksum(o)
         \/ CalculateDelta
         \/ \E o \in Object : FetchEntity(o)
         \/ \E o \in Object : ApplyChange(o)
         \/ EndInitialSync
         \/ \E r \in Reader : Dispatch(r)
         \/ \E r \in Reader : Acknowledge(r)
         \/ \E id \in stream : DeleteMessage(id)
         \/ Structify
         \/ \E n \in 1..Len(upserts) : Upsert(n)
         \/ \E id \in deletes : Delete(id)
         \/ Submit \/ Break \/ UNCHANGED vars
BY DEF Next, InitialSync, Upserter, Deleter, Cleaner, Read

LEMMA AtMostThree ==
  ASSUME NEW a, NEW b, NEW c
  PROVE  Cardinality({a, b, c}) \in 0..3
<1>1. IsFiniteSet({}) /\ Cardinality({}) = 0
  BY FS_EmptySet
<1>2. IsFiniteSet({a}) /\ Cardinality({a}) = 1
  BY FS_Singleton
<1>3. IsFiniteSet({a} \cup {b}) /\ Cardinality({a} \cup {b}) \in 1..2
  BY <1>2, FS_AddElement
<1>4. Cardinality(({a} \cup {b}) \cup {c}) \in 1..3
  BY <1>3, FS_AddElement
<1>5. ({a} \cup {b}) \cup {c} = {a, b, c}
  OBVIOUS
<1> QED
  BY <1>4, <1>5

LEMMA Contents ==
  /\ None \notin Nat /\ First \notin Nat /\ Old \notin Nat /\ Unread \notin Nat
  /\ None # First /\ None # Old /\ None # Unread /\ First # Old /\ First # Unread
  /\ Old # Unread
  /\ Unread \notin Known
  /\ Id \subseteq Nat \ {0}
<1>1. None \notin Nat /\ First \notin Nat /\ Old \notin Nat /\ Unread \notin Nat
  BY RuntimeAssumption
<1>2. None # First /\ None # Old /\ None # Unread /\ First # Old /\ First # Unread
      /\ Old # Unread
  <2> SUFFICES ASSUME ~(/\ None # First /\ None # Old /\ None # Unread /\ First # Old
                        /\ First # Unread /\ Old # Unread)
               PROVE  FALSE
    OBVIOUS
  <2>1. \/ {None, First, Old, Unread} = {First, Old, Unread}
        \/ {None, First, Old, Unread} = {None, Old, Unread}
        \/ {None, First, Old, Unread} = {None, First, Old}
    OBVIOUS
  <2>2. /\ Cardinality({First, Old, Unread}) \in 0..3
        /\ Cardinality({None, Old, Unread}) \in 0..3
        /\ Cardinality({None, First, Old}) \in 0..3
    BY AtMostThree
  <2>3. Cardinality({None, First, Old, Unread}) \in 0..3
    BY <2>1, <2>2, Zenon
  <2> QED
    BY <2>3, RuntimeAssumption
<1>3. Id \subseteq Nat \ {0}
  BY DEF Id
<1> QED
  BY <1>1, <1>2, <1>3 DEF Known

\* What a change leaves of the messages and contents.
LEMMA ChangeFacts ==
  ASSUME IInv, NEW o \in Object, NEW op \in {"upsert", "delete"}, Change(o, op)
  PROVE  /\ Len(sent) \in Nat /\ Len(sent') = Len(sent) + 1 /\ Len(sent') <= MaxUpdates
         /\ sent' \in Seq([object : Object, op : {"upsert", "delete"}])
         /\ Id' = Id \cup {Len(sent')} /\ \A id \in Id : id \in Nat /\ id < Len(sent')
         /\ \A id \in Id : sent'[id] = sent[id]
         /\ sent'[Len(sent')].object = o /\ sent'[Len(sent')].op = op
         /\ hash'[o] = IF op = "delete" THEN None ELSE Len(sent')
         /\ \A other \in Object \ {o} : hash'[other] = hash[other]
         /\ Known \subseteq Known' /\ Len(sent') \in Known'
         /\ Len(sent') \notin Known \cup {Unread, None}
<1> DEFINE new == [object |-> o, op |-> op]
<1>1. /\ new \in [object : Object, op : {"upsert", "delete"}]
      /\ new.object = o /\ new.op = op
  OBVIOUS
<1>2. sent' = Append(sent, new) /\ Len(sent) < MaxUpdates
  BY DEF Change
<1> HIDE DEF new
<1>3. sent \in Seq([object : Object, op : {"upsert", "delete"}])
  BY DEF IInv, TypeInv
<1>4. /\ sent' \in Seq([object : Object, op : {"upsert", "delete"}])
      /\ Len(sent) \in Nat /\ Len(sent') = Len(sent) + 1
      /\ \A i \in 1..Len(sent) : sent'[i] = sent[i]
      /\ sent'[Len(sent')] = new
  BY <1>1, <1>2, <1>3, AppendFacts
<1>5. /\ hash'[o] = IF op = "delete" THEN None ELSE Len(sent')
      /\ \A other \in Object \ {o} : hash'[other] = hash[other]
  BY DEF Change, IInv, TypeInv
<1>6. Id' = Id \cup {Len(sent')} /\ \A id \in Id : id \in Nat /\ id < Len(sent')
  BY <1>4 DEF Id
<1>7. Known \subseteq Known' /\ Len(sent') \in Known'
  BY <1>6 DEF Known
<1>8. Len(sent') \notin Known \cup {Unread, None}
  BY <1>4, <1>6, Contents DEF Known
<1>9. Len(sent') <= MaxUpdates
  BY <1>2, <1>4, RuntimeAssumption
<1> QED
  BY <1>1, <1>4, <1>5, <1>6, <1>7, <1>8, <1>9 DEF Id

-------------------------------------------------------------------------------
(* Every step preserves the types.                                              *)

LEMMA MessageFacts ==
  ASSUME TypeInv
  PROVE  /\ Len(sent) \in Nat /\ Id = 1..Len(sent)
         /\ \A id \in Id : /\ id \in Nat \ {0} /\ id <= Len(sent)
                           /\ sent[id].object \in Object
                           /\ sent[id].op \in {"upsert", "delete"}
                           /\ Says(id) \in {None, id} /\ Says(id) \in Known
<1> DEFINE Message == [object : Object, op : {"upsert", "delete"}]
<1>0. sent \in Seq(Message)
  BY DEF TypeInv
<1> HIDE DEF Message
<1>1. Len(sent) \in Nat /\ Id = 1..Len(sent)
  BY <1>0 DEF Id
<1>2. ASSUME NEW id \in Id PROVE sent[id] \in Message
  BY <1>0, <1>1
<1>3. ASSUME NEW id \in Id PROVE sent[id].object \in Object /\ sent[id].op \in {"upsert", "delete"}
  BY <1>2 DEF Message
<1>4. \A id \in Id : Says(id) \in {None, id}
  BY DEF Says
<1>5. \A id \in Id : Says(id) \in Known
  BY <1>4 DEF Known
<1> QED
  BY <1>1, <1>3, <1>4, <1>5

LEMMA TypeStep ==
  ASSUME IInv, [Next]_vars
  PROVE  TypeInv'
<1> USE RuntimeAssumption DEF TypeInv
<1>0. /\ TypeInv /\ \A r \in Reader : acked[r] <= position[r]
      /\ "db" \in Reader /\ "callback" \in Reader
  BY DEF IInv, OrderInv, Reader
<1>00. UNCHANGED sent => Id' = Id /\ Known' = Known
  BY DEF Id, Known
<1>1. ASSUME NEW o \in Object, NEW op \in {"upsert", "delete"}, Change(o, op)
      PROVE  TypeInv'
  <2>1. /\ sent' \in Seq([object : Object, op : {"upsert", "delete"}])
        /\ Len(sent') <= MaxUpdates
        /\ Len(sent) \in Nat /\ Len(sent') = Len(sent) + 1
        /\ Id' = Id \cup {Len(sent')} /\ Known \subseteq Known' /\ Len(sent') \in Known'
        /\ hash'[o] = (IF op = "delete" THEN None ELSE Len(sent'))
        /\ \A other \in Object \ {o} : hash'[other] = hash[other]
    BY <1>1, ChangeFacts
  <2>2. /\ stream' = stream \cup {Len(sent')}
        /\ hash' = [hash EXCEPT ![o] = IF op = "delete" THEN None ELSE Len(sent')]
        /\ UNCHANGED <<path, row, checksum, phase, seen, todo, fetched, position, acked,
                       inbox, waiting, upserts, deletes, breaks>>
    BY <1>1 DEF Change, table, initial, readers, writers
  <2>3. None \in Known'
    BY DEF Known
  <2>4. hash' \in [Object -> Known']
    BY <1>0, <2>1, <2>2, <2>3
  <2>5. /\ row' \in [Object -> Known'] /\ checksum' \in [Object -> Known']
        /\ seen' \in [Object -> Known' \cup {Unread}]
        /\ fetched' \in [Object -> Known' \cup {Unread}]
    BY <1>0, <2>1, <2>2
  <2>6. \A r \in Reader : inbox[r] \in Seq(Id')
    BY <1>0, <2>1
  <2>7. upserts' \in Seq(Id') /\ inbox' \in [Reader -> Seq(Id')]
    <3>1. upserts \in Seq(Id) /\ inbox \in [Reader -> Seq(Id)] /\ Id \subseteq Id'
      BY <1>0, <2>1
    <3>2. upserts \in Seq(Id')
      BY <3>1
    <3> QED
      BY <2>2, <2>6, <3>1, <3>2
  <2>8. position' \in [Reader -> 0..Len(sent')] /\ acked' \in [Reader -> 0..Len(sent')]
    <3>1. 0..Len(sent) \subseteq 0..Len(sent')
      BY <2>1
    <3>2. position \in [Reader -> 0..Len(sent)] /\ acked \in [Reader -> 0..Len(sent)]
      BY <1>0
    <3> QED
      BY <2>2, <3>1, <3>2
  <2> QED
    BY <1>0, <2>1, <2>2, <2>4, <2>5, <2>7, <2>8
<1>2. CASE ClearStreams
  BY <1>0, <1>2, <1>00 DEF ClearStreams, Cleared, table, initial, readers, writers
<1>3. ASSUME NEW o \in Object, ScanChecksum(o) PROVE TypeInv'
  <2>1. seen' \in [Object -> Known \cup {Unread}]
    BY <1>0, <1>3 DEF ScanChecksum
  <2> QED
    BY <1>0, <1>3, <1>00, <2>1 DEF ScanChecksum, redis, table, readers, writers
<1>4. CASE CalculateDelta
  BY <1>0, <1>4, <1>00 DEF CalculateDelta, redis, table, readers, writers
<1>5. ASSUME NEW o \in Object, FetchEntity(o) PROVE TypeInv'
  <2>1. fetched' \in [Object -> Known \cup {Unread}] /\ todo' \subseteq Object
    <3>1. \/ todo' = todo \ {o} /\ fetched' = fetched
          \/ todo' = todo /\ fetched' = [fetched EXCEPT ![o] = hash[o]]
      BY <1>5 DEF FetchEntity
    <3>2. /\ hash[o] \in Known /\ todo \subseteq Object
          /\ fetched \in [Object -> Known \cup {Unread}]
      BY <1>0
    <3>3. fetched' \in [Object -> Known \cup {Unread}]
      BY <3>1, <3>2
    <3>4. todo' \subseteq Object
      BY <3>1, <3>2
    <3>5. Known' = Known
      BY <1>5, <1>00 DEF FetchEntity, redis
    <3> QED
      BY <3>3, <3>4, <3>5
  <2>2. UNCHANGED <<path, sent, stream, hash, row, checksum, phase, seen, position, acked,
                    inbox, waiting, upserts, deletes, breaks>>
    BY <1>5 DEF FetchEntity, redis, table, readers, writers
  <2> QED
    BY <1>0, <1>00, <2>1, <2>2
<1>6. ASSUME NEW o \in Object, ApplyChange(o) PROVE TypeInv'
  <2>1. seen[o] \in Known /\ Applied(o) \in Known
    <3>1. None \in Known
      BY DEF Known
    <3> QED
      BY <1>0, <1>6, <3>1 DEF ApplyChange, Applied
  <2>2. row' \in [Object -> Known] /\ checksum' \in [Object -> Known]
    BY <1>0, <1>6, <2>1 DEF ApplyChange
  <2> QED
    BY <1>0, <1>6, <1>00, <2>2 DEF ApplyChange, redis, readers, writers
<1>7. CASE EndInitialSync
  BY <1>0, <1>7, <1>00 DEF EndInitialSync, Cleared, table, initial, readers, writers
<1>8. ASSUME NEW r \in Reader, Dispatch(r) PROVE TypeInv'
  <2>1. PICK id \in stream : /\ position' = [position EXCEPT ![r] = id]
                             /\ inbox' = [inbox EXCEPT ![r] = Append(@, id)]
    BY <1>8 DEF Dispatch, NotDispatched
  <2>2. id \in Id /\ id \in 0..Len(sent)
    <3>1. id \in Id
      BY <1>0
    <3>2. id \in 1..Len(sent) /\ Len(sent) \in Nat
      BY <3>1, <1>0 DEF Id
    <3> QED
      BY <3>1, <3>2
  <2>3. Append(inbox[r], id) \in Seq(Id)
    BY <1>0, <2>2, AppendFacts
  <2>4. position' \in [Reader -> 0..Len(sent)] /\ inbox' \in [Reader -> Seq(Id)]
    BY <1>0, <2>1, <2>2, <2>3
  <2> QED
    BY <1>0, <1>8, <1>00, <2>4 DEF Dispatch, redis, table, initial, writers
<1>9. ASSUME NEW r \in Reader, Acknowledge(r) PROVE TypeInv'
  BY <1>0, <1>9, <1>00 DEF Acknowledge, redis, table, initial, writers
<1>10. ASSUME NEW id \in stream, DeleteMessage(id) PROVE TypeInv'
  BY <1>0, <1>10, <1>00 DEF DeleteMessage, table, initial, readers, writers
<1>11. CASE Structify
  <2>1. PICK id : id = Head(inbox["db"])
    OBVIOUS
  <2>2. id \in Id /\ Tail(inbox["db"]) \in Seq(Id) /\ inbox["db"] # << >>
    BY <1>0, <1>11, <2>1, HeadTailFacts DEF Structify
  <2>3. Append(upserts, id) \in Seq(Id)
    BY <1>0, <2>2, AppendFacts
  <2>4. upserts' \in Seq(Id) /\ deletes' \subseteq Id
    <3>1. \/ upserts' = Append(upserts, id) /\ deletes' = deletes
          \/ upserts' = upserts /\ deletes' = deletes \cup {id}
      BY <1>11, <2>1 DEF Structify
    <3>2. upserts \in Seq(Id) /\ deletes \subseteq Id
      BY <1>0
    <3> QED
      BY <2>2, <2>3, <3>1, <3>2
  <2>5. inbox' \in [Reader -> Seq(Id)]
    <3>1. inbox' = [inbox EXCEPT !["db"] = Tail(@)]
      BY <1>11 DEF Structify
    <3> QED
      BY <1>0, <2>2, <3>1
  <2>6. waiting' \in BOOLEAN
    BY <1>11 DEF Structify, Serialized
  <2> QED
    BY <1>0, <1>11, <1>00, <2>4, <2>5, <2>6 DEF Structify, redis, table, initial, readers
<1>12. ASSUME NEW n \in 1..Len(upserts), Upsert(n) PROVE TypeInv'
  <2> DEFINE Bulk == {upserts[i] : i \in 1..n}
             About(o) == \E id \in Bulk : sent[id].object = o
             Of(o) == CHOOSE id \in Bulk : sent[id].object = o
  <2>1. Bulk \subseteq Known
    <3>1. \A i \in 1..n : upserts[i] \in Id
      BY <1>0
    <3> QED
      BY <3>1 DEF Known
  <2>2. \A o : About(o) => Of(o) \in Bulk
    OBVIOUS
  <2>3. /\ row' = [o \in Object |-> IF About(o) THEN Of(o) ELSE row[o]]
        /\ checksum' = [o \in Object |-> IF About(o) THEN Of(o) ELSE checksum[o]]
    BY <1>12 DEF Upsert
  <2> HIDE DEF Bulk, About, Of
  <2>4. row' \in [Object -> Known] /\ checksum' \in [Object -> Known]
    BY <1>0, <2>1, <2>2, <2>3
  <2>5. upserts' \in Seq(Id)
    BY <1>0, <1>12, SubSeqFacts DEF Upsert
  <2> QED
    BY <1>0, <1>12, <1>00, <2>4, <2>5 DEF Upsert, redis, initial, readers
<1>13. ASSUME NEW id \in deletes, Delete(id) PROVE TypeInv'
  <2>1. None \in Known
    BY DEF Known
  <2>2. row' \in [Object -> Known] /\ checksum' \in [Object -> Known]
    BY <1>0, <1>13, <2>1 DEF Delete
  <2> QED
    BY <1>0, <1>13, <1>00, <2>2 DEF Delete, WaitingAfterDelete, redis, initial, readers
<1>14. CASE Submit
  <2>1. Tail(inbox["callback"]) \in Seq(Id)
    BY <1>0, <1>14, HeadTailFacts DEF Submit
  <2>2. inbox' \in [Reader -> Seq(Id)]
    BY <1>0, <1>14, <2>1 DEF Submit
  <2> QED
    BY <1>0, <1>14, <1>00, <2>2 DEF Submit, redis, table, initial, readers, writers
<1>15. CASE Break
  <2>1. /\ Nothing \in [Object -> Known \cup {Unread}]
        /\ [r \in Reader |-> 0] \in [Reader -> 0..Len(sent)]
        /\ [r \in Reader |-> << >>] \in [Reader -> Seq(Id)] /\ << >> \in Seq(Id)
    BY <1>0, MessageFacts DEF Nothing
  <2>2. /\ seen' = Nothing /\ fetched' = Nothing /\ todo' = {}
        /\ position' = [r \in Reader |-> 0] /\ acked' = [r \in Reader |-> 0]
        /\ inbox' = [r \in Reader |-> << >>] /\ upserts' = << >> /\ deletes' = {}
        /\ waiting' = FALSE /\ phase' = "clear" /\ breaks' = breaks + 1
        /\ breaks < MaxBreak
        /\ UNCHANGED <<path, hash, sent, stream, row, checksum>>
    BY <1>15 DEF Break, redis, table
  <2>3. waiting' \in BOOLEAN
    BY <2>2, Zenon
  <2> QED
    BY <1>0, <1>00, <2>1, <2>2, <2>3
<1>16. CASE UNCHANGED vars
  BY <1>0, <1>16, <1>00 DEF vars
<1> QED
  BY <1>1, <1>2, <1>3, <1>4, <1>5, <1>6, <1>7, <1>8, <1>9, <1>10, <1>11, <1>12,
     <1>13, <1>14, <1>15, <1>16, StepCases

-------------------------------------------------------------------------------
(* What is on its way, and in which order.                                      *)

LEMMA QuietStep ==
  ASSUME IInv, [Next]_vars
  PROVE  QuietInv'
<1>0. QuietInv /\ TypeInv /\ "db" \in Reader /\ "callback" \in Reader
  BY DEF IInv, Reader
<1>1. CASE (\E o \in Object, op \in {"upsert", "delete"} : Change(o, op))
           \/ (\E id \in stream : DeleteMessage(id)) \/ UNCHANGED vars
  <2>1. UNCHANGED <<phase, seen, fetched, position, acked, inbox, upserts, deletes, waiting>>
    BY <1>1 DEF Change, DeleteMessage, initial, readers, writers, vars
  <2> QED
    BY <1>0, <2>1 DEF QuietInv, Nothing
<1>2. CASE ClearStreams \/ CalculateDelta \/ EndInitialSync
           \/ \E o \in Object : ScanChecksum(o) \/ FetchEntity(o) \/ ApplyChange(o)
  <2>1. /\ phase # "runtime" /\ phase' # "clear"
        /\ UNCHANGED <<position, acked, inbox, upserts, deletes, waiting>>
        /\ phase' = "compare" => phase \in {"clear", "compare"} /\ fetched' = fetched
    BY <1>2 DEF ClearStreams, CalculateDelta, EndInitialSync, ScanChecksum, FetchEntity,
       ApplyChange, initial, readers, writers
  <2> QED
    BY <1>0, <2>1 DEF QuietInv, Nothing
<1>3. ASSUME NEW r \in Reader, Dispatch(r) \/ Acknowledge(r) PROVE QuietInv'
  <2>1. phase = "runtime" /\ phase' = "runtime"
    BY <1>0, <1>3 DEF Dispatch, Acknowledge, QuietInv
  <2> QED
    BY <2>1 DEF QuietInv
<1>4. CASE Structify \/ Submit
  <2>1. phase = "runtime" /\ phase' = "runtime"
    BY <1>0, <1>4 DEF Structify, Submit, QuietInv
  <2> QED
    BY <2>1 DEF QuietInv
<1>5. ASSUME NEW n \in 1..Len(upserts), Upsert(n) PROVE QuietInv'
  <2>1. upserts # << >>
    BY <1>0
  <2>2. phase = "runtime" /\ phase' = "runtime"
    BY <1>0, <1>5, <2>1 DEF Upsert, QuietInv
  <2> QED
    BY <2>2 DEF QuietInv
<1>6. ASSUME NEW id \in deletes, Delete(id) PROVE QuietInv'
  <2>1. phase = "runtime" /\ phase' = "runtime"
    BY <1>0, <1>6 DEF Delete, QuietInv
  <2> QED
    BY <2>1 DEF QuietInv
<1>7. CASE Break
  BY <1>7 DEF Break, QuietInv
<1> QED
  BY <1>1, <1>2, <1>3, <1>4, <1>5, <1>6, <1>7, StepCases

\* Steps that neither move messages nor change them.
LEMMA OrderKept ==
  ASSUME IInv, UNCHANGED <<path, position, acked, upserts, deletes, waiting>>,
         inbox'["db"] = inbox["db"],
         \A id \in Id : sent'[id] = sent[id]
  PROVE  OrderInv'
<1>1. ToSet(upserts)' = ToSet(upserts)
  BY DEF ToSet
<1>2. \A i \in DOMAIN upserts : upserts[i] \in Id
  BY DEF IInv, TypeInv
<1>3. deletes \subseteq Id
  BY DEF IInv, TypeInv
<1> QED
  BY <1>1, <1>2, <1>3 DEF IInv, OrderInv

LEMMA OrderStep ==
  ASSUME IInv, [Next]_vars
  PROVE  OrderInv'
<1>0. /\ TypeInv /\ QuietInv /\ OrderInv /\ "db" \in Reader /\ "callback" \in Reader
      /\ inbox["db"] \in Seq(Id) /\ upserts \in Seq(Id) /\ deletes \subseteq Id
      /\ Id \subseteq Nat /\ \A r \in Reader : position[r] \in Nat /\ acked[r] \in Nat
  BY MessageFacts DEF IInv, TypeInv, Reader
<1>1. ASSUME NEW o \in Object, NEW op \in {"upsert", "delete"}, Change(o, op)
      PROVE  OrderInv'
  BY <1>1, ChangeFacts, OrderKept DEF Change, readers, writers
<1>2. CASE ClearStreams \/ CalculateDelta \/ EndInitialSync
           \/ (\E o \in Object : ScanChecksum(o) \/ FetchEntity(o) \/ ApplyChange(o))
           \/ (\E id \in stream : DeleteMessage(id)) \/ Submit \/ UNCHANGED vars
  <2>1. /\ UNCHANGED <<path, sent, position, acked, upserts, deletes, waiting>>
        /\ inbox'["db"] = inbox["db"]
    BY <1>0, <1>2 DEF ClearStreams, CalculateDelta, EndInitialSync, ScanChecksum,
       FetchEntity, ApplyChange, DeleteMessage, Submit, redis, readers, writers, vars, TypeInv
  <2> QED
    BY <2>1, OrderKept
<1>3. ASSUME NEW r \in Reader, Dispatch(r) PROVE OrderInv'
  <2>1. PICK id \in stream :
          /\ id > position[r] /\ position' = [position EXCEPT ![r] = id]
          /\ inbox' = [inbox EXCEPT ![r] = Append(@, id)]
    BY <1>3 DEF Dispatch, NotDispatched
  <2>2. UNCHANGED <<path, sent, acked, upserts, deletes, waiting>>
    BY <1>3 DEF Dispatch, redis, writers
  <2>3. id \in Id /\ id \in Nat
    BY <1>0 DEF TypeInv
  <2>4. \A q \in Reader : position[q] <= position'[q] /\ acked'[q] <= position'[q]
                          /\ position'[q] \in Nat
    <3>1. /\ position'[r] = id /\ position[r] < id
          /\ \A q \in Reader \ {r} : position'[q] = position[q]
          /\ \A q \in Reader : position[q] \in Nat /\ acked[q] \in Nat
      BY <1>0, <2>1, <2>3 DEF TypeInv
    <3>2. \A q \in Reader : acked[q] <= position[q] /\ acked'[q] = acked[q]
      BY <1>0, <2>2 DEF OrderInv
    <3> QED
      BY <2>3, <3>1, <3>2
  <2>5. ToSet(upserts)' = ToSet(upserts)
    BY <2>2 DEF ToSet
  <2>6. \A i \in DOMAIN inbox["db"] : inbox["db"][i] \in Nat
    BY <1>0, Elements
  <2>7. \A other \in ToSet(upserts) \cup deletes : other \in Nat
    BY <1>0, Elements
  <2>8. CASE r = "db"
    <3>1. inbox'["db"] = Append(inbox["db"], id) /\ position'["db"] = id
      BY <1>0, <2>1, <2>8 DEF TypeInv
    <3>2. /\ DOMAIN inbox'["db"] = DOMAIN inbox["db"] \cup {Len(inbox["db"]) + 1}
          /\ \A i \in DOMAIN inbox["db"] : inbox'["db"][i] = inbox["db"][i]
          /\ inbox'["db"][Len(inbox["db"]) + 1] = id
          /\ DOMAIN inbox["db"] = 1..Len(inbox["db"]) /\ Len(inbox["db"]) \in Nat
      BY <1>0, <2>3, <3>1, AppendFacts
    <3>3. \A i \in DOMAIN inbox'["db"] : inbox'["db"][i] <= position'["db"]
      BY <1>0, <2>1, <2>3, <2>6, <2>8, <3>1, <3>2 DEF OrderInv
    <3>4. \A i, j \in DOMAIN inbox'["db"] : i < j => inbox'["db"][i] < inbox'["db"][j]
      <4> SUFFICES ASSUME NEW i \in DOMAIN inbox'["db"], NEW j \in DOMAIN inbox'["db"], i < j
                   PROVE  inbox'["db"][i] < inbox'["db"][j]
        OBVIOUS
      <4>1. i \in DOMAIN inbox["db"] /\ inbox["db"][i] < id
        BY <1>0, <2>1, <2>3, <2>6, <2>8, <3>2 DEF OrderInv
      <4>2. CASE j \in DOMAIN inbox["db"]
        BY <1>0, <3>2, <4>1, <4>2 DEF OrderInv
      <4>3. CASE j = Len(inbox["db"]) + 1
        BY <3>2, <4>1, <4>3
      <4> QED
        BY <3>2, <4>2, <4>3
    <3>5. \A other \in ToSet(upserts) \cup deletes :
            /\ other <= position'["db"]
            /\ \A i \in DOMAIN inbox'["db"] : other < inbox'["db"][i]
      BY <1>0, <2>1, <2>3, <2>7, <2>8, <3>1, <3>2 DEF OrderInv
    <3> QED
      BY <1>0, <2>2, <2>4, <2>5, <3>3, <3>4, <3>5 DEF OrderInv
  <2>9. CASE r # "db"
    <3>1. inbox'["db"] = inbox["db"] /\ position'["db"] = position["db"]
      BY <1>0, <2>1, <2>9 DEF TypeInv
    <3> QED
      BY <1>0, <2>2, <2>4, <2>5, <3>1 DEF OrderInv
  <2> QED
    BY <2>8, <2>9
<1>4. ASSUME NEW r \in Reader, Acknowledge(r) PROVE OrderInv'
  <2>1. /\ UNCHANGED <<path, sent, position, inbox, upserts, deletes, waiting>>
        /\ acked' = [acked EXCEPT ![r] = position[r]]
    BY <1>4 DEF Acknowledge, redis, writers
  <2>2. \A q \in Reader : acked'[q] <= position[q]
    BY <1>0, <2>1 DEF TypeInv, OrderInv
  <2>3. ToSet(upserts)' = ToSet(upserts)
    BY <2>1 DEF ToSet
  <2> QED
    BY <1>0, <2>1, <2>2, <2>3 DEF OrderInv
<1>5. CASE Structify
  <2>1. PICK id : id = Head(inbox["db"])
    OBVIOUS
  <2>2. /\ inbox["db"] # << >> /\ ~waiting /\ waiting' = (path = "config")
        /\ inbox'["db"] = Tail(inbox["db"])
        /\ UNCHANGED <<path, sent, position, acked>>
    BY <1>0, <1>5 DEF Structify, Serialized, redis, readers, TypeInv
  <2>3. /\ id \in Id /\ id \in Nat /\ 1 \in DOMAIN inbox["db"] /\ id = inbox["db"][1]
        /\ \A i \in DOMAIN inbox'["db"] :
             i \in Nat \ {0} /\ i + 1 \in DOMAIN inbox["db"] /\ inbox'["db"][i] = inbox["db"][i + 1]
    <3>1. /\ Head(inbox["db"]) = inbox["db"][1] /\ 1 \in DOMAIN inbox["db"]
          /\ inbox["db"][1] \in Id
          /\ \A i \in DOMAIN Tail(inbox["db"]) :
               i \in Nat \ {0} /\ i + 1 \in DOMAIN inbox["db"]
               /\ Tail(inbox["db"])[i] = inbox["db"][i + 1]
      BY <1>0, <2>2, HeadTailFacts
    <3> QED
      BY <1>0, <2>1, <2>2, <3>1
  <2>4. /\ \A i \in DOMAIN inbox'["db"] : inbox'["db"][i] <= position'["db"]
        /\ \A i, j \in DOMAIN inbox'["db"] : i < j => inbox'["db"][i] < inbox'["db"][j]
        /\ \A i \in DOMAIN inbox'["db"] : id < inbox'["db"][i]
        /\ id <= position'["db"]
    BY <1>0, <2>2, <2>3 DEF OrderInv
  <2>5. \A other \in ToSet(upserts) \cup deletes :
          /\ other \in Nat /\ other < id /\ other <= position'["db"]
          /\ \A i \in DOMAIN inbox'["db"] : other < inbox'["db"][i]
    <3>1. ToSet(upserts) \cup deletes \subseteq Nat
      BY <1>0, Elements
    <3> QED
      BY <1>0, <2>2, <2>3, <3>1 DEF OrderInv
  <2>6. CASE sent[id].op = "upsert"
    <3>1. upserts' = Append(upserts, id) /\ deletes' = deletes
      BY <1>5, <2>1, <2>6 DEF Structify
    <3>2. /\ DOMAIN upserts' = DOMAIN upserts \cup {Len(upserts) + 1}
          /\ \A i \in DOMAIN upserts : upserts'[i] = upserts[i]
          /\ upserts'[Len(upserts) + 1] = id /\ Len(upserts') = Len(upserts) + 1
          /\ DOMAIN upserts = 1..Len(upserts) /\ Len(upserts) \in Nat
          /\ ToSet(upserts') = ToSet(upserts) \cup {id}
      BY <1>0, <2>3, <3>1, AppendFacts
    <3>3. \A i, j \in DOMAIN upserts' : i < j => upserts'[i] < upserts'[j]
      <4> SUFFICES ASSUME NEW i \in DOMAIN upserts', NEW j \in DOMAIN upserts', i < j
                   PROVE  upserts'[i] < upserts'[j]
        OBVIOUS
      <4>1. i \in DOMAIN upserts /\ upserts[i] < id
        BY <2>5, <3>2, InToSet
      <4>2. CASE j \in DOMAIN upserts
        BY <1>0, <3>2, <4>1, <4>2 DEF OrderInv
      <4>3. CASE j = Len(upserts) + 1
        BY <3>2, <4>1, <4>3
      <4> QED
        BY <3>2, <4>2, <4>3
    <3>4. \A i \in DOMAIN upserts' : sent'[upserts'[i]].op = "upsert"
      BY <1>0, <2>2, <2>6, <3>2 DEF OrderInv
    <3>5. \A other \in ToSet(upserts') \cup deletes' :
            /\ other <= position'["db"]
            /\ \A i \in DOMAIN inbox'["db"] : other < inbox'["db"][i]
      BY <2>4, <2>5, <3>1, <3>2
    <3>6. path = "config" => Len(upserts') = 1 /\ deletes' = {}
      BY <1>0, <2>2, <3>1, <3>2 DEF OrderInv
    <3> QED
      BY <1>0, <2>2, <2>4, <3>1, <3>3, <3>4, <3>5, <3>6 DEF OrderInv, TypeInv
  <2>7. CASE sent[id].op # "upsert"
    <3>1. upserts' = upserts /\ deletes' = deletes \cup {id} /\ sent[id].op = "delete"
      BY <1>0, <1>5, <2>1, <2>3, <2>7, MessageFacts DEF Structify
    <3>2. \A other \in ToSet(upserts') \cup deletes' :
            /\ other <= position'["db"]
            /\ \A i \in DOMAIN inbox'["db"] : other < inbox'["db"][i]
      BY <2>4, <2>5, <3>1
    <3>3. path = "config" => upserts' = << >> /\ deletes' = {id}
      BY <1>0, <2>2, <3>1 DEF OrderInv
    <3> QED
      BY <1>0, <2>2, <2>4, <3>1, <3>2, <3>3 DEF OrderInv, TypeInv
  <2> QED
    BY <2>6, <2>7
<1>6. ASSUME NEW n \in 1..Len(upserts), Upsert(n) PROVE OrderInv'
  <2>1. /\ upserts' = SubSeq(upserts, n + 1, Len(upserts)) /\ waiting' = FALSE
        /\ UNCHANGED <<path, sent, position, acked, inbox, deletes>>
    BY <1>6 DEF Upsert, redis, readers
  <2>2. /\ Len(upserts') = Len(upserts) - n /\ upserts' \in Seq(Id)
        /\ Len(upserts) \in Nat
        /\ \A i \in DOMAIN upserts' :
             i \in Nat \ {0} /\ i + n \in DOMAIN upserts /\ upserts'[i] = upserts[i + n]
    BY <1>0, <2>1, SubSeqFacts
  <2>3. \A id \in ToSet(upserts') : id \in ToSet(upserts)
    BY <2>2, InToSet
  <2>4. path = "config" => upserts' = << >> /\ deletes' = {}
    <3>1. path = "config" => Len(upserts) = 1 /\ deletes = {}
      BY <1>0 DEF OrderInv
    <3> QED
      BY <2>1, <2>2, <3>1
  <2>5. \A i, j \in DOMAIN upserts' : i < j => upserts'[i] < upserts'[j]
    BY <1>0, <2>2 DEF OrderInv
  <2>6. \A i \in DOMAIN upserts' : sent'[upserts'[i]].op = "upsert"
    BY <1>0, <2>1, <2>2 DEF OrderInv
  <2> QED
    BY <1>0, <2>1, <2>3, <2>4, <2>5, <2>6 DEF OrderInv
<1>7. ASSUME NEW id \in deletes, Delete(id) PROVE OrderInv'
  <2>1. /\ deletes' = deletes \ {id} /\ waiting' = FALSE
        /\ UNCHANGED <<path, sent, position, acked, inbox, upserts>>
    BY <1>7 DEF Delete, WaitingAfterDelete, redis, readers
  <2>2. ToSet(upserts)' = ToSet(upserts)
    BY <2>1 DEF ToSet
  <2>3. path = "config" => upserts' = << >> /\ deletes' = {}
    BY <1>0, <2>1 DEF OrderInv
  <2> QED
    BY <1>0, <2>1, <2>2, <2>3 DEF OrderInv
<1>8. CASE Break
  <2>1. /\ position' = [r \in Reader |-> 0] /\ acked' = [r \in Reader |-> 0]
        /\ inbox' = [r \in Reader |-> << >>] /\ upserts' = << >> /\ deletes' = {}
        /\ waiting' = FALSE
    BY <1>8 DEF Break
  <2>2. /\ inbox'["db"] = << >> /\ DOMAIN inbox'["db"] = {} /\ DOMAIN upserts' = {}
        /\ \A r \in Reader : acked'[r] <= position'[r]
    BY <1>0, <2>1
  <2>3. ToSet(upserts') = {}
    BY <2>2, InToSet
  <2> QED
    BY <2>1, <2>2, <2>3 DEF OrderInv
<1> QED
  BY <1>1, <1>2, <1>3, <1>4, <1>5, <1>6, <1>7, <1>8, StepCases

\* A row and its checksum only differ where Redis has something else already.
LEMMA ChecksumStep ==
  ASSUME IInv, [Next]_vars
  PROVE  ChecksumInv'
<1>0. TypeInv /\ QuietInv /\ ChecksumInv
  BY DEF IInv
<1>1. ASSUME NEW o \in Object, NEW op \in {"upsert", "delete"}, Change(o, op)
      PROVE  ChecksumInv'
  <2>1. /\ Len(sent') \notin Known \cup {Unread, None}
        /\ hash'[o] = (IF op = "delete" THEN None ELSE Len(sent'))
        /\ \A other \in Object \ {o} : hash'[other] = hash[other]
    BY <1>1, ChangeFacts
  <2>2. UNCHANGED <<row, checksum, seen, fetched>>
    BY <1>1 DEF Change, table, initial
  <2>3. \A other \in Object : /\ checksum[other] \in Known
                              /\ seen[other] \in Known \cup {Unread}
    BY <1>0 DEF TypeInv
  <2> QED
    BY <1>0, <2>1, <2>2, <2>3 DEF ChecksumInv
<1>2. CASE ClearStreams \/ CalculateDelta \/ EndInitialSync \/ Structify \/ Submit
           \/ (\E r \in Reader : Dispatch(r)) \/ (\E r \in Reader : Acknowledge(r))
           \/ (\E id \in stream : DeleteMessage(id)) \/ UNCHANGED vars
  <2>1. UNCHANGED <<hash, row, checksum, seen, fetched>>
    BY <1>2 DEF ClearStreams, CalculateDelta, EndInitialSync, Structify, Submit, Dispatch,
       Acknowledge, DeleteMessage, redis, table, initial, vars
  <2> QED
    BY <1>0, <2>1 DEF ChecksumInv
<1>3. ASSUME NEW o \in Object, ScanChecksum(o) PROVE ChecksumInv'
  <2>1. /\ UNCHANGED <<hash, row, checksum, fetched>> /\ fetched[o] = Unread
        /\ seen' = [seen EXCEPT ![o] = hash[o]]
    BY <1>0, <1>3 DEF ScanChecksum, QuietInv, Nothing, redis, table
  <2> QED
    BY <1>0, <2>1 DEF ChecksumInv, TypeInv
<1>4. ASSUME NEW o \in Object, FetchEntity(o) PROVE ChecksumInv'
  <2>1. /\ UNCHANGED <<hash, row, checksum, seen>> /\ seen[o] # None
        /\ fetched' = fetched \/ fetched' = [fetched EXCEPT ![o] = hash[o]]
    BY <1>4 DEF FetchEntity, redis, table
  <2>2. \A other \in Object : fetched'[other] \in {fetched[other], hash[other]}
                              /\ (other # o => fetched'[other] = fetched[other])
    BY <1>0, <2>1 DEF TypeInv
  <2> QED
    BY <1>0, <2>1, <2>2 DEF ChecksumInv
<1>5. ASSUME NEW o \in Object, ApplyChange(o) PROVE ChecksumInv'
  <2>1. /\ UNCHANGED <<hash, seen, fetched>> /\ (seen[o] # None => fetched[o] # Unread)
        /\ row' = [row EXCEPT ![o] = Applied(o)]
        /\ checksum' = [checksum EXCEPT ![o] = seen[o]]
    BY <1>5 DEF ApplyChange, redis
  <2>2. /\ row'[o] = Applied(o) /\ checksum'[o] = seen[o]
        /\ \A other \in Object \ {o} :
             row'[other] = row[other] /\ checksum'[other] = checksum[other]
    BY <1>0, <2>1 DEF TypeInv
  <2> QED
    BY <1>0, <2>1, <2>2 DEF ChecksumInv, Applied
<1>6. ASSUME NEW n \in 1..Len(upserts), Upsert(n) PROVE ChecksumInv'
  <2> DEFINE Bulk == {upserts[i] : i \in 1..n}
             About(o) == \E id \in Bulk : sent[id].object = o
             Of(o) == CHOOSE id \in Bulk : sent[id].object = o
  <2>1. /\ row' = [o \in Object |-> IF About(o) THEN Of(o) ELSE row[o]]
        /\ checksum' = [o \in Object |-> IF About(o) THEN Of(o) ELSE checksum[o]]
        /\ UNCHANGED <<hash, seen, fetched>>
    BY <1>6 DEF Upsert, redis, initial
  <2> HIDE DEF Bulk, About, Of
  <2> QED
    BY <1>0, <2>1 DEF ChecksumInv
<1>7. ASSUME NEW id \in deletes, Delete(id) PROVE ChecksumInv'
  BY <1>0, <1>7 DEF Delete, ChecksumInv, redis, initial, TypeInv
<1>8. CASE Break
  BY <1>0, <1>8 DEF Break, ChecksumInv, redis, table, Nothing
<1> QED
  BY <1>1, <1>2, <1>3, <1>4, <1>5, <1>6, <1>7, <1>8, StepCases

-------------------------------------------------------------------------------
(* The initial sync.                                                            *)

\* A change announces itself, and leaves the other objects alone.
LEMMA Announcing ==
  ASSUME IInv, NEW o \in Object, NEW op \in {"upsert", "delete"}, Change(o, op),
         NEW S, S \subseteq Id, NEW T, T = S \cup {Len(sent')}
  PROVE  /\ Announced(o, T)'
         /\ \A other \in Object \ {o} :
              /\ Announced(other, S) => Announced(other, T)'
              /\ Untouched(other, S) => Untouched(other, T)'
<1>1. /\ \A id \in Id : id \in Nat /\ id < Len(sent') /\ sent'[id] = sent[id]
      /\ sent'[Len(sent')].object = o /\ sent'[Len(sent')].op = op
      /\ hash'[o] = (IF op = "delete" THEN None ELSE Len(sent'))
      /\ \A other \in Object \ {o} : hash'[other] = hash[other]
      /\ Len(sent') \in Nat
  BY ChangeFacts
<1>2. Announced(o, T)'
  <2>1. Len(sent') \in T /\ \A id \in T : id <= Len(sent')
    BY <1>1
  <2> QED
    BY <1>1, <2>1 DEF Announced, Says
<1>3. ASSUME NEW other \in Object \ {o}, Announced(other, S) PROVE Announced(other, T)'
  <2>1. PICK last \in S :
          /\ sent[last].object = other /\ Says(last) = hash[other]
          /\ \A id \in S : sent[id].object = other => id <= last
    BY <1>3 DEF Announced
  <2>2. last \in T /\ sent'[last].object = other /\ Says(last)' = hash'[other]
    BY <1>1, <2>1 DEF Says
  <2>3. \A id \in T : sent'[id].object = other => id <= last
    BY <1>1, <2>1
  <2> QED
    BY <2>2, <2>3 DEF Announced
<1>4. ASSUME NEW other \in Object \ {o}, Untouched(other, S) PROVE Untouched(other, T)'
  BY <1>1, <1>4 DEF Untouched
<1> QED
  BY <1>2, <1>3, <1>4

LEMMA SyncStep ==
  ASSUME IInv, [Next]_vars
  PROVE  SyncInv'
<1>0. /\ TypeInv /\ QuietInv /\ ChecksumInv /\ SyncInv /\ "db" \in Reader
      /\ stream \subseteq Id /\ Id \subseteq Nat \ {0}
      /\ \A o \in Object : hash[o] # Unread
  BY Contents DEF IInv, Reader, TypeInv
<1>1. ASSUME NEW o \in Object, NEW op \in {"upsert", "delete"}, Change(o, op)
      PROVE  SyncInv'
  <2>1. PICK S, T : S = stream /\ T = stream'
    OBVIOUS
  <2>2. /\ T = S \cup {Len(sent')}
        /\ UNCHANGED <<row, phase, seen, fetched, todo>>
    BY <1>1, <2>1 DEF Change, table, initial
  <2>3. \A other \in Object \ {o} : hash'[other] = hash[other]
    BY <1>1, ChangeFacts
  <2> SUFFICES ASSUME phase \in {"compare", "apply"}, NEW a \in Object
               PROVE  Announced(a, stream)' \/ (Untouched(a, stream)' /\ InSync(a)')
    BY <2>2 DEF SyncInv
  <2>4. Announced(a, S) \/ (Untouched(a, S) /\ InSync(a))
    BY <1>0, <2>1 DEF SyncInv
  <2>5. Announced(a, T)' \/ (Untouched(a, T)' /\ a # o /\ InSync(a))
    BY <1>0, <1>1, <2>1, <2>2, <2>4, Announcing
  <2>6. CASE Announced(a, T)'
    BY <2>1, <2>6 DEF Announced
  <2>7. CASE Untouched(a, T)' /\ a # o /\ InSync(a)
    <3>1. InSync(a)'
      BY <2>2, <2>3, <2>7 DEF InSync
    <3> QED
      BY <2>1, <2>7, <3>1 DEF Untouched
  <2> QED
    BY <2>5, <2>6, <2>7
<1>2. CASE ClearStreams
  <2>1. stream' = {} /\ phase' = "compare" /\ seen' = Nothing /\ fetched' = Nothing
    BY <1>0, <1>2 DEF ClearStreams, Cleared, QuietInv, initial
  <2> QED
    BY <2>1 DEF SyncInv, Untouched, InSync, Nothing
<1>3. ASSUME UNCHANGED <<sent, stream, hash>>, phase \in {"compare", "apply"},
             \A o \in Object :
               Announced(o, stream) \/ (Untouched(o, stream) /\ InSync(o)')
      PROVE  SyncInv'
  <2>1. \A o : Announced(o, stream) => Announced(o, stream)'
    BY <1>3 DEF Announced, Says
  <2>2. \A o : Untouched(o, stream) => Untouched(o, stream)'
    BY <1>3 DEF Untouched
  <2> QED
    BY <1>3, <2>1, <2>2 DEF SyncInv
<1>4. ASSUME NEW o \in Object, ScanChecksum(o) PROVE SyncInv'
  <2>1. /\ UNCHANGED <<sent, stream, hash, row, fetched, todo>>
        /\ phase = "compare" /\ phase' = "compare"
        /\ seen' = [seen EXCEPT ![o] = hash[o]]
    BY <1>4 DEF ScanChecksum, redis, table
  <2>2. \A a \in Object : seen'[a] \in {seen[a], hash[a]}
    BY <1>0, <2>1 DEF TypeInv
  <2>3. \A a \in Object : InSync(a) => InSync(a)'
    BY <2>1, <2>2 DEF InSync
  <2> QED
    BY <1>0, <1>3, <2>1, <2>3 DEF SyncInv
<1>5. CASE CalculateDelta
  <2>1. /\ UNCHANGED <<sent, stream, hash, row, seen, fetched>>
        /\ phase = "compare" /\ phase' = "apply" /\ \A o \in Object : seen[o] # Unread
        /\ todo' = {o \in Object : seen[o] # checksum[o]}
    BY <1>5 DEF CalculateDelta, redis, table
  <2>2. ASSUME NEW a \in Object, InSync(a) PROVE InSync(a)'
    <3>1. seen[a] = hash[a]
      BY <2>1, <2>2 DEF InSync
    <3>2. a \notin todo' => row[a] = hash[a]
      BY <1>0, <2>1, <3>1 DEF ChecksumInv
    <3> QED
      BY <2>1, <2>2, <3>2 DEF InSync
  <2> QED
    BY <1>0, <1>3, <2>1, <2>2 DEF SyncInv
<1>6. ASSUME NEW o \in Object, FetchEntity(o) PROVE SyncInv'
  <2>1. /\ UNCHANGED <<sent, stream, hash, row, seen>>
        /\ phase = "apply" /\ phase' = "apply" /\ seen[o] # None
        /\ IF hash[o] = None THEN todo' = todo \ {o} /\ fetched' = fetched
           ELSE fetched' = [fetched EXCEPT ![o] = hash[o]] /\ todo' = todo
    BY <1>6 DEF FetchEntity, redis, table
  <2>2. ASSUME NEW a \in Object, InSync(a) PROVE InSync(a)'
    <3>1. seen[a] = hash[a]
      BY <1>0, <2>1, <2>2 DEF InSync, TypeInv
    <3>2. CASE hash[o] = None
      BY <2>1, <2>2, <3>1, <3>2 DEF InSync
    <3>3. CASE hash[o] # None
      <4>1. fetched'[a] \in {fetched[a], hash[a]}
        BY <1>0, <2>1, <3>3 DEF TypeInv
      <4> QED
        BY <2>1, <2>2, <3>3, <4>1 DEF InSync
    <3> QED
      BY <3>2, <3>3
  <2> QED
    BY <1>0, <1>3, <2>1, <2>2 DEF SyncInv
<1>7. ASSUME NEW o \in Object, ApplyChange(o) PROVE SyncInv'
  <2>1. /\ UNCHANGED <<sent, stream, hash, seen, fetched>>
        /\ phase = "apply" /\ phase' = "apply" /\ todo' = todo \ {o}
        /\ seen[o] # None => fetched[o] # Unread
        /\ row' = [row EXCEPT ![o] = Applied(o)]
    BY <1>7 DEF ApplyChange, redis
  <2>2. ASSUME NEW a \in Object, InSync(a) PROVE InSync(a)'
    <3>1. seen[a] = hash[a]
      BY <1>0, <2>1, <2>2 DEF InSync, TypeInv
    <3>2. CASE a = o
      BY <1>0, <2>1, <2>2, <3>1, <3>2 DEF InSync, Applied, TypeInv
    <3>3. CASE a # o
      BY <1>0, <2>1, <2>2, <3>3 DEF InSync, TypeInv
    <3> QED
      BY <3>2, <3>3
  <2> QED
    BY <1>0, <1>3, <2>1, <2>2 DEF SyncInv
<1>8. CASE EndInitialSync \/ Break
  BY <1>8 DEF EndInitialSync, Break, SyncInv
<1>9. CASE phase' = phase /\ phase \notin {"compare", "apply"}
  BY <1>9 DEF SyncInv
<1>10. ASSUME NEW id \in stream, DeleteMessage(id), phase \in {"compare", "apply"}
       PROVE  FALSE
  <2>1. acked["db"] >= id
    BY <1>10 DEF DeleteMessage, AllAcked, Active, Reader
  <2>2. acked["db"] = 0
    BY <1>0, <1>10 DEF QuietInv
  <2>3. id \in Nat \ {0}
    BY <1>0
  <2> QED
    BY <2>1, <2>2, <2>3
<1>11. CASE UNCHANGED vars
  <2>1. UNCHANGED <<sent, stream, hash, row, seen, fetched, phase, todo>>
    BY <1>11 DEF vars
  <2>2. \A a \in Object : InSync(a) => InSync(a)'
    BY <2>1 DEF InSync
  <2> QED
    BY <1>0, <1>3, <1>9, <2>1, <2>2 DEF SyncInv
<1>12. \A n \in 1..Len(upserts) : upserts # << >>
  BY <1>0 DEF TypeInv
<1>13. ASSUME \/ \E r \in Reader : Dispatch(r)
              \/ \E r \in Reader : Acknowledge(r)
              \/ \E id \in stream : DeleteMessage(id)
              \/ Structify \/ Submit
              \/ \E n \in 1..Len(upserts) : Upsert(n)
              \/ \E id \in deletes : Delete(id)
       PROVE  phase' = phase /\ phase \notin {"compare", "apply"}
  <2>1. phase' = phase
    BY <1>13 DEF Dispatch, Acknowledge, DeleteMessage, Structify, Submit, Upsert, Delete
  <2>2. SUFFICES ASSUME phase \in {"compare", "apply"} PROVE FALSE
    BY <2>1
  <2>3. /\ \A r \in Reader : position[r] = acked[r] /\ inbox[r] = << >>
        /\ upserts = << >> /\ deletes = {}
    BY <1>0, <2>2 DEF QuietInv
  <2>4. CASE \E id \in stream : DeleteMessage(id)
    BY <1>10, <2>2, <2>4
  <2>5. CASE \/ \E r \in Reader : Dispatch(r)
             \/ \E r \in Reader : Acknowledge(r)
             \/ Structify \/ Submit
    BY <2>2, <2>3, <2>5 DEF Dispatch, Acknowledge, Structify, Submit, Reader
  <2> QED
    BY <1>12, <1>13, <2>3, <2>4, <2>5
<1> QED
  BY <1>1, <1>2, <1>4, <1>5, <1>6, <1>7, <1>8, <1>9, <1>11, <1>13, StepCases

-------------------------------------------------------------------------------
(* The runtime updates.                                                         *)

LEMMA InPending ==
  \A id : id \in Pending <=>
    \/ id \in stream /\ id > position["db"]
    \/ id \in ToSet(inbox["db"]) \/ id \in ToSet(upserts) \/ id \in deletes
BY DEF Pending, NotDispatched

\* A message that is executed is the first one about its object.  If it is the
\* last one too, the row is what Redis has.
LEMMA Executed ==
  ASSUME UNCHANGED <<sent, hash>>, NEW o, NEW S, S \subseteq Nat, NEW T, NEW id \in S,
         sent[id].object = o, row'[o] = Says(id),
         \A other \in T : sent[other].object = o => other \in S,
         \A other \in S \ {id} : sent[other].object = o => other \in T /\ id < other,
         id \notin T,
         Announced(o, S)
  PROVE  Announced(o, T)' \/ (Untouched(o, T)' /\ row'[o] = hash'[o])
<1>1. PICK last \in S :
        /\ sent[last].object = o /\ Says(last) = hash[o]
        /\ \A other \in S : sent[other].object = o => other <= last
  BY DEF Announced
<1>2. CASE last = id
  <2>1. \A other \in T : sent[other].object # o
    <3> SUFFICES ASSUME NEW other \in T, sent[other].object = o PROVE FALSE
      OBVIOUS
    <3>1. other \in S \ {id} /\ id < other /\ other <= id /\ id \in Nat /\ other \in Nat
      BY <1>1, <1>2
    <3> QED
      BY <3>1
  <2> QED
    BY <1>1, <1>2, <2>1 DEF Untouched
<1>3. CASE last # id
  <2>1. last \in T
    BY <1>1, <1>3
  <2> QED
    BY <1>1, <2>1 DEF Announced, Says
<1> QED
  BY <1>2, <1>3

\* Another object, or a step that executes nothing.
LEMMA NotExecuted ==
  ASSUME UNCHANGED <<sent, hash>>, NEW o, row'[o] = row[o], NEW S, NEW T,
         \A id : sent[id].object = o => (id \in T <=> id \in S),
         Announced(o, S) \/ (Untouched(o, S) /\ row[o] = hash[o])
  PROVE  Announced(o, T)' \/ (Untouched(o, T)' /\ row'[o] = hash'[o])
<1>1. Announced(o, S) => Announced(o, T)'
  BY DEF Announced, Says
<1>2. Untouched(o, S) => Untouched(o, T)'
  BY DEF Untouched
<1> QED
  BY <1>1, <1>2

LEMMA RowStep ==
  ASSUME IInv, [Next]_vars
  PROVE  RowInv'
<1>0. /\ TypeInv /\ QuietInv /\ OrderInv /\ SyncInv /\ RowInv
      /\ "db" \in Reader /\ "callback" \in Reader
      /\ stream \subseteq Id /\ Id \subseteq Nat \ {0} /\ position["db"] \in Nat
      /\ position["db"] <= Len(sent) /\ Len(sent) \in Nat
      /\ inbox["db"] \in Seq(Id) /\ upserts \in Seq(Id) /\ deletes \subseteq Id
  <2>1. TypeInv /\ QuietInv /\ OrderInv /\ SyncInv /\ RowInv
    BY DEF IInv
  <2>2. "db" \in Reader /\ "callback" \in Reader
    BY DEF Reader
  <2>3. stream \subseteq Id /\ Id \subseteq Nat \ {0} /\ Len(sent) \in Nat
    <3>1. stream \subseteq Id
      BY <2>1 DEF TypeInv
    <3> QED
      BY <2>1, <3>1, MessageFacts
  <2>4. position["db"] \in Nat /\ position["db"] <= Len(sent)
    BY <2>1, <2>2, MessageFacts DEF TypeInv
  <2>5. inbox["db"] \in Seq(Id) /\ upserts \in Seq(Id) /\ deletes \subseteq Id
    BY <2>1, <2>2 DEF TypeInv
  <2> QED
    BY <2>1, <2>2, <2>3, <2>4, <2>5
<1>a. Pending \subseteq Id /\ Pending \subseteq Nat
  BY <1>0, Elements, InPending
<1>b. \A id \in stream : id \in Nat /\ id > 0
  BY <1>0
<1>c. acked["db"] \in Nat /\ acked["db"] <= position["db"]
  BY <1>0 DEF OrderInv, TypeInv
<1>1. ASSUME NEW o \in Object, NEW op \in {"upsert", "delete"}, Change(o, op)
      PROVE  RowInv'
  <2>1. PICK S, T : S = Pending /\ T = Pending'
    OBVIOUS
  <2>2. /\ UNCHANGED <<path, row, phase, position, inbox, upserts, deletes>>
        /\ stream' = stream \cup {Len(sent')}
    BY <1>1 DEF Change, table, initial, readers, writers
  <2>3. /\ \A other \in Object \ {o} : hash'[other] = hash[other]
        /\ Len(sent') = Len(sent) + 1 /\ Id' = Id \cup {Len(sent')}
        /\ \A id \in Id : sent'[id] = sent[id]
    BY <1>1, ChangeFacts
  <2>4. T = S \cup {Len(sent')}
    <3>1. Len(sent') > position["db"]
      BY <1>0, <2>3
    <3>2. /\ NotDispatched("db")' = NotDispatched("db") \cup {Len(sent')}
          /\ ToSet(inbox["db"])' = ToSet(inbox["db"]) /\ ToSet(upserts)' = ToSet(upserts)
      BY <2>2, <3>1 DEF NotDispatched
    <3> QED
      BY <2>1, <2>2, <3>2 DEF Pending
  <2>5. \A a : Ordered(a)' => Ordered(a)
    BY <2>2, <2>3 DEF Ordered
  <2> SUFFICES ASSUME phase = "runtime", NEW a \in Object, Ordered(a)'
               PROVE  Announced(a, Pending)' \/ (Untouched(a, Pending)' /\ row'[a] = hash'[a])
    BY <2>2 DEF RowInv
  <2>6. Announced(a, S) \/ (Untouched(a, S) /\ row[a] = hash[a])
    BY <1>0, <2>1, <2>5 DEF RowInv
  <2>7. Announced(a, T)' \/ (Untouched(a, T)' /\ a # o /\ row[a] = hash[a])
    BY <1>1, <1>a, <2>1, <2>4, <2>6, Announcing
  <2>8. CASE Announced(a, T)'
    BY <2>1, <2>8 DEF Announced
  <2>9. CASE Untouched(a, T)' /\ a # o /\ row[a] = hash[a]
    BY <2>1, <2>2, <2>3, <2>9 DEF Untouched
  <2> QED
    BY <2>7, <2>8, <2>9
<1>2. CASE ClearStreams \/ CalculateDelta \/ Break
           \/ \E o \in Object : ScanChecksum(o) \/ FetchEntity(o) \/ ApplyChange(o)
  BY <1>2 DEF ClearStreams, CalculateDelta, Break, ScanChecksum, FetchEntity, ApplyChange,
     RowInv
<1>3. CASE EndInitialSync
  <2>1. /\ UNCHANGED <<sent, hash, row, position, inbox, upserts, deletes>>
        /\ phase = "apply" /\ todo = {} /\ stream' = stream
    BY <1>3 DEF EndInitialSync, Cleared, table, readers, writers
  <2>2. position["db"] = 0 /\ inbox["db"] = << >> /\ upserts = << >> /\ deletes = {}
    BY <1>0, <2>1 DEF QuietInv
  <2>3. ToSet(inbox["db"])' = {} /\ ToSet(upserts)' = {}
    BY <2>1, <2>2 DEF ToSet
  <2>4. NotDispatched("db")' = stream
    BY <1>b, <2>1, <2>2 DEF NotDispatched
  <2>5. Pending' = stream
    BY <2>1, <2>2, <2>3, <2>4 DEF Pending
  <2>6. ASSUME NEW a \in Object
        PROVE  Announced(a, Pending)' \/ (Untouched(a, Pending)' /\ row'[a] = hash'[a])
    <3>1. Announced(a, stream) \/ (Untouched(a, stream) /\ row[a] = hash[a])
      BY <1>0, <2>1 DEF SyncInv, InSync
    <3>2. Announced(a, stream) => Announced(a, Pending)'
      BY <2>1, <2>5 DEF Announced, Says
    <3>3. Untouched(a, stream) => Untouched(a, Pending)'
      BY <2>1, <2>5 DEF Untouched
    <3> QED
      BY <2>1, <3>1, <3>2, <3>3
  <2> QED
    BY <2>6 DEF RowInv
<1>4. ASSUME UNCHANGED <<path, sent, hash, row, phase>>,
             \A id : id \in Pending' <=> id \in Pending
      PROVE  RowInv'
  <2>1. PICK S : S = Pending
    OBVIOUS
  <2>2. S = Pending'
    BY <1>4, <2>1
  <2> SUFFICES ASSUME phase = "runtime", NEW a \in Object, Ordered(a)
               PROVE  Announced(a, Pending)' \/ (Untouched(a, Pending)' /\ row'[a] = hash'[a])
    BY <1>4 DEF RowInv, Ordered, Id
  <2>3. Announced(a, S) \/ (Untouched(a, S) /\ row[a] = hash[a])
    BY <1>0, <2>1 DEF RowInv
  <2>4. Announced(a, S)' \/ (Untouched(a, S)' /\ row'[a] = hash'[a])
    BY <1>4, <2>3, NotExecuted
  <2> QED
    BY <2>2, <2>4 DEF Announced, Untouched
<1>5. ASSUME NEW r \in Reader, Dispatch(r) PROVE RowInv'
  <2>1. PICK id \in NotDispatched(r) :
          /\ \A other \in NotDispatched(r) : id <= other
          /\ position' = [position EXCEPT ![r] = id]
          /\ inbox' = [inbox EXCEPT ![r] = Append(@, id)]
    BY <1>5 DEF Dispatch
  <2>2. UNCHANGED <<path, sent, stream, hash, row, phase, upserts, deletes>>
    BY <1>5 DEF Dispatch, redis, table, writers
  <2>3. \A other : other \in Pending' <=> other \in Pending
    <3>1. id \in stream /\ id \in Id /\ id \in Nat /\ id > position[r]
      BY <1>0, <2>1 DEF NotDispatched
    <3>2. CASE r = "db"
      <4>1. position'["db"] = id /\ inbox'["db"] = Append(inbox["db"], id)
        BY <1>0, <2>1, <3>2 DEF TypeInv
      <4>2. ToSet(inbox'["db"]) = ToSet(inbox["db"]) \cup {id}
        BY <1>0, <3>1, <4>1, AppendFacts
      <4>3. ASSUME NEW other
            PROVE  (other \in stream /\ other > position["db"]) <=>
                     (other = id \/ (other \in stream /\ other > id))
        <5>1. other \in stream /\ other > position["db"] => id <= other
          BY <2>1, <3>2 DEF NotDispatched
        <5>2. other \in stream => other \in Nat
          BY <1>b
        <5> QED
          BY <1>0, <3>1, <3>2, <5>1, <5>2
      <4>4. \A other : other \in Pending' <=>
              \/ other \in stream /\ other > id
              \/ other \in ToSet(inbox["db"]) \cup {id} \/ other \in ToSet(upserts)
              \/ other \in deletes
        BY <2>2, <4>1, <4>2 DEF Pending, NotDispatched
      <4> QED
        BY <4>3, <4>4, InPending
    <3>3. CASE r # "db"
      <4>1. position'["db"] = position["db"] /\ inbox'["db"] = inbox["db"]
        BY <1>0, <2>1, <3>3 DEF TypeInv
      <4> QED
        BY <2>2, <4>1 DEF Pending, NotDispatched
    <3> QED
      BY <3>2, <3>3
  <2> QED
    BY <1>4, <2>2, <2>3
<1>6. ASSUME \/ \E r \in Reader : Acknowledge(r)
             \/ \E id \in stream : DeleteMessage(id)
             \/ Submit \/ UNCHANGED vars
      PROVE  RowInv'
  <2>1. /\ UNCHANGED <<path, sent, hash, row, phase, upserts, deletes, position>>
        /\ inbox'["db"] = inbox["db"]
    BY <1>0, <1>6 DEF Acknowledge, DeleteMessage, Submit, vars, redis, table, readers,
       writers, TypeInv
  <2>2. \A id : (id \in stream /\ id > position["db"]) <=> (id \in stream' /\ id > position["db"])
    <3>1. CASE \E id \in stream : DeleteMessage(id)
      <4>1. PICK id \in stream : stream' = stream \ {id} /\ acked["db"] >= id
        BY <3>1 DEF DeleteMessage, AllAcked, Active, Reader
      <4>2. ~(id > position["db"])
        BY <1>0, <1>b, <1>c, <4>1
      <4> QED
        BY <4>1, <4>2
    <3>2. CASE UNCHANGED stream
      BY <3>2
    <3> QED
      BY <1>6, <3>1, <3>2 DEF Acknowledge, Submit, vars, redis
  <2>3. \A id : id \in Pending' <=> id \in Pending
    BY <2>1, <2>2 DEF Pending, NotDispatched
  <2> QED
    BY <1>4, <2>1, <2>3
<1>7. CASE Structify
  <2>1. PICK id : id = Head(inbox["db"])
    OBVIOUS
  <2>2. /\ inbox["db"] # << >> /\ inbox'["db"] = Tail(inbox["db"])
        /\ UNCHANGED <<path, sent, hash, stream, row, phase, position>>
    BY <1>0, <1>7 DEF Structify, redis, table, readers, TypeInv
  <2>3. id \in Id /\ \A x : x \in ToSet(inbox["db"]) <=> x = id \/ x \in ToSet(inbox'["db"])
    BY <1>0, <2>1, <2>2, HeadTailFacts
  <2>4. \A x : x \in ToSet(upserts') \cup deletes' <=> x = id \/ x \in ToSet(upserts) \cup deletes
    <3>1. ToSet(Append(upserts, id)) = ToSet(upserts) \cup {id}
      BY <1>0, <2>3, AppendFacts
    <3>2. \/ upserts' = Append(upserts, id) /\ deletes' = deletes
          \/ upserts' = upserts /\ deletes' = deletes \cup {id}
      BY <1>7, <2>1 DEF Structify
    <3>3. CASE upserts' = Append(upserts, id) /\ deletes' = deletes
      BY <3>1, <3>3
    <3>4. CASE upserts' = upserts /\ deletes' = deletes \cup {id}
      BY <3>4
    <3> QED
      BY <3>2, <3>3, <3>4
  <2>5. \A x : x \in Pending' <=> x \in Pending
    BY <2>2, <2>3, <2>4 DEF Pending, NotDispatched
  <2> QED
    BY <1>4, <2>2, <2>5
<1>8. ASSUME NEW n \in 1..Len(upserts), Upsert(n) PROVE RowInv'
  <2> DEFINE Bulk == {upserts[i] : i \in 1..n}
             About(o) == \E id \in Bulk : sent[id].object = o
             Of(o) == CHOOSE id \in Bulk : sent[id].object = o
  <2>1. /\ row' = [o \in Object |-> IF About(o) THEN Of(o) ELSE row[o]]
        /\ upserts' = SubSeq(upserts, n + 1, Len(upserts))
        /\ \A i, j \in 1..n :
             sent[upserts[i]].object = sent[upserts[j]].object => i = j
        /\ UNCHANGED <<path, sent, hash, stream, phase, position, inbox, deletes>>
    BY <1>8 DEF Upsert, redis, readers
  <2>2. \A x : x \in Bulk <=> \E i \in 1..n : upserts[i] = x
    OBVIOUS
  <2>3. \A o : About(o) => Of(o) \in Bulk /\ sent[Of(o)].object = o
    OBVIOUS
  <2>4. \A o : About(o) <=> \E id \in Bulk : sent[id].object = o
    OBVIOUS
  <2> HIDE DEF Bulk, About, Of
  <2>5. /\ DOMAIN upserts = 1..Len(upserts) /\ Len(upserts) \in Nat
        /\ \A x : x \in ToSet(upserts') <=> \E i \in (n + 1)..Len(upserts) : upserts[i] = x
    BY <1>0, <2>1, SubSeqFacts
  <2>6. \A x : x \in ToSet(upserts) <=> \E i \in 1..Len(upserts) : upserts[i] = x
    BY <2>5, InToSet
  <2>7. \A x : x \in ToSet(upserts) <=> x \in Bulk \/ x \in ToSet(upserts')
    BY <2>2, <2>5, <2>6
  <2>8. \A x \in Bulk : /\ x \in Nat /\ x <= position["db"] /\ sent[x].op = "upsert"
                        /\ \A y \in ToSet(inbox["db"]) : x < y
                        /\ \A y \in ToSet(upserts') : x < y
    <3> SUFFICES ASSUME NEW i \in 1..n
                 PROVE  /\ upserts[i] \in Nat /\ upserts[i] <= position["db"]
                        /\ sent[upserts[i]].op = "upsert"
                        /\ \A y \in ToSet(inbox["db"]) : upserts[i] < y
                        /\ \A y \in ToSet(upserts') : upserts[i] < y
      BY <2>2
    <3>1. i \in DOMAIN upserts /\ upserts[i] \in ToSet(upserts)
      BY <2>5, InToSet
    <3>2. upserts[i] \in Nat
      BY <1>0, <3>1, Elements
    <3>3. /\ upserts[i] <= position["db"] /\ sent[upserts[i]].op = "upsert"
          /\ \A y \in ToSet(inbox["db"]) : upserts[i] < y
      BY <1>0, <3>1, InToSet DEF OrderInv
    <3>4. ASSUME NEW j \in (n + 1)..Len(upserts) PROVE upserts[i] < upserts[j]
      BY <1>0, <2>5, <3>1 DEF OrderInv
    <3> QED
      BY <2>5, <3>2, <3>3, <3>4
  <2>9. \A x \in deletes : sent[x].op = "delete"
    BY <1>0 DEF OrderInv
  <2>10. \A x : x \in Pending' <=> /\ x \in Pending
                                  /\ x \notin Bulk
    <3>1. \A x : x \in Pending' <=>
            \/ x \in stream /\ x > position["db"]
            \/ x \in ToSet(inbox["db"]) \/ x \in ToSet(upserts') \/ x \in deletes
      BY <2>1 DEF Pending, NotDispatched
    <3>2. ASSUME NEW x \in Bulk, x \in Pending' PROVE FALSE
      <4>1. x \in Nat /\ x <= position["db"] /\ sent[x].op = "upsert"
        BY <2>8
      <4>2. x \notin ToSet(inbox["db"]) /\ x \notin ToSet(upserts')
        <5>1. ~(x < x)
          BY <4>1
        <5> QED
          BY <2>8, <5>1
      <4>3. ~(x > position["db"]) /\ x \notin deletes
        BY <1>0, <2>9, <4>1
      <4> QED
        BY <3>1, <3>2, <4>2, <4>3
    <3> QED
      BY <2>7, <3>1, <3>2, InPending
  <2> SUFFICES ASSUME phase = "runtime", NEW a \in Object, Ordered(a)
               PROVE  Announced(a, Pending)' \/ (Untouched(a, Pending)' /\ row'[a] = hash'[a])
    BY <2>1 DEF RowInv, Ordered, Id
  <2>11. PICK S, T : S = Pending /\ T = Pending'
    OBVIOUS
  <2>12. Announced(a, S) \/ (Untouched(a, S) /\ row[a] = hash[a])
    BY <1>0, <2>11 DEF RowInv
  <2>13. CASE About(a)
    <3>1. PICK id : id = Of(a)
      OBVIOUS
    <3>2. id \in Bulk /\ sent[id].object = a /\ row'[a] = id /\ id \in Nat
      BY <2>1, <2>3, <2>8, <2>13, <3>1
    <3>3. ASSUME NEW x \in Bulk, sent[x].object = a PROVE x = id
      <4>1. PICK i \in 1..n : upserts[i] = x
        BY <2>2, <3>3
      <4>2. PICK j \in 1..n : upserts[j] = id
        BY <2>2, <3>2
      <4>3. sent[upserts[i]].object = sent[upserts[j]].object
        BY <3>2, <3>3, <4>1, <4>2
      <4>4. i = j
        BY <2>1, <4>3
      <4> QED
        BY <4>1, <4>2, <4>4
    <3>4. Says(id) = id
      BY <2>8, <3>2 DEF Says
    <3>5. \A x : sent[x].object = a => (x \in T <=> x \in S /\ x # id)
      BY <2>10, <2>11, <3>2, <3>3
    <3>6. \A x \in deletes : sent[x].object # a
      <4>1. CASE path = "config"
        BY <1>0, <1>8, <2>5, <4>1 DEF OrderInv
      <4>2. CASE path # "config"
        BY <1>0, <2>9, <4>2 DEF Ordered
      <4> QED
        BY <4>1, <4>2
    <3>7. ASSUME NEW x \in S \ {id}, sent[x].object = a PROVE id < x
      <4>1. x \in Nat /\ x \in Pending' /\ x \notin deletes
        BY <1>a, <2>11, <3>5, <3>6, <3>7
      <4>2. \/ x > position["db"] \/ x \in ToSet(inbox["db"]) \/ x \in ToSet(upserts')
        BY <2>1, <4>1 DEF Pending, NotDispatched
      <4>3. id <= position["db"]
        BY <2>8, <3>2
      <4> QED
        BY <1>0, <2>8, <3>2, <4>1, <4>2, <4>3
    <3>8. id \in S /\ id \notin T /\ S \subseteq Nat
      BY <1>a, <2>7, <2>10, <2>11, <3>2, InPending
    <3>9. Announced(a, S)
      BY <2>12, <3>2, <3>8 DEF Untouched
    <3>10. Announced(a, T)' \/ (Untouched(a, T)' /\ row'[a] = hash'[a])
      <4>1. \A x \in T : sent[x].object = a => x \in S
        BY <3>5
      <4>2. \A x \in S \ {id} : sent[x].object = a => x \in T /\ id < x
        BY <3>5, <3>7
      <4>3. UNCHANGED <<sent, hash>> /\ row'[a] = Says(id)
        BY <2>1, <3>2, <3>4
      <4> QED
        BY <3>2, <3>8, <3>9, <4>1, <4>2, <4>3, Executed
    <3> QED
      BY <2>11, <3>10 DEF Announced, Untouched
  <2>14. CASE ~About(a)
    <3>1. row'[a] = row[a]
      BY <2>1, <2>14
    <3>2. \A x : sent[x].object = a => (x \in T <=> x \in S)
      BY <2>4, <2>10, <2>11, <2>14
    <3>3. Announced(a, T)' \/ (Untouched(a, T)' /\ row'[a] = hash'[a])
      BY <2>1, <2>12, <3>1, <3>2, NotExecuted
    <3> QED
      BY <2>11, <3>3 DEF Announced, Untouched
  <2> QED
    BY <2>13, <2>14
<1>9. ASSUME NEW id \in deletes, Delete(id) PROVE RowInv'
  <2>1. /\ row' = [row EXCEPT ![sent[id].object] = None] /\ deletes' = deletes \ {id}
        /\ UNCHANGED <<path, sent, hash, stream, phase, position, inbox, upserts>>
    BY <1>9 DEF Delete, redis, readers
  <2>2. /\ sent[id].op = "delete" /\ id \in Nat /\ id \in Id /\ id <= position["db"]
        /\ sent[id].object \in Object
        /\ \A y \in ToSet(inbox["db"]) : id < y
    BY <1>0, InToSet, MessageFacts DEF OrderInv
  <2>3. id \notin ToSet(upserts)
    BY <1>0, <2>2, InToSet DEF OrderInv
  <2>4. \A x : x \in Pending' <=> x \in Pending /\ x # id
    <3>1. \A x : x \in Pending' <=>
            \/ x \in stream /\ x > position["db"]
            \/ x \in ToSet(inbox["db"]) \/ x \in ToSet(upserts)
            \/ x \in deletes /\ x # id
      BY <2>1 DEF Pending, NotDispatched
    <3>2. ~(id > position["db"]) /\ id \notin ToSet(inbox["db"])
      BY <1>0, <2>2
    <3> QED
      BY <2>3, <3>1, <3>2, InPending
  <2> SUFFICES ASSUME phase = "runtime", NEW a \in Object, Ordered(a)
               PROVE  Announced(a, Pending)' \/ (Untouched(a, Pending)' /\ row'[a] = hash'[a])
    BY <2>1 DEF RowInv, Ordered, Id
  <2>5. PICK S, T : S = Pending /\ T = Pending'
    OBVIOUS
  <2>6. Announced(a, S) \/ (Untouched(a, S) /\ row[a] = hash[a])
    BY <1>0, <2>5 DEF RowInv
  <2>7. CASE sent[id].object = a
    <3>1. path = "config"
      BY <1>0, <2>2, <2>7 DEF Ordered
    <3>2. upserts = << >> /\ \A x \in deletes : x = id
      BY <1>0, <3>1 DEF OrderInv
    <3>3. row'[a] = Says(id)
      BY <1>0, <2>1, <2>2, <2>7 DEF Says, TypeInv
    <3>4. ToSet(upserts) = {}
      BY <3>2, InToSet
    <3>5. ASSUME NEW x \in S \ {id} PROVE x \in T /\ id < x
      <4>1. x \in Nat /\ x \in T
        BY <1>a, <2>4, <2>5
      <4>2. x > position["db"] \/ x \in ToSet(inbox["db"])
        BY <2>5, <3>2, <3>4, InPending
      <4> QED
        BY <1>0, <2>2, <4>1, <4>2
    <3>6. id \in S /\ id \notin T /\ S \subseteq Nat /\ \A x \in T : x \in S
      BY <1>a, <2>4, <2>5, InPending
    <3>7. Announced(a, S)
      BY <2>6, <2>7, <3>6 DEF Untouched
    <3>8. Announced(a, T)' \/ (Untouched(a, T)' /\ row'[a] = hash'[a])
      <4>1. \A x \in T : sent[x].object = a => x \in S
        BY <3>6
      <4>2. \A x \in S \ {id} : sent[x].object = a => x \in T /\ id < x
        BY <3>5
      <4>3. UNCHANGED <<sent, hash>>
        BY <2>1
      <4> QED
        BY <2>7, <3>3, <3>6, <3>7, <4>1, <4>2, <4>3, Executed
    <3> QED
      BY <2>5, <3>8 DEF Announced, Untouched
  <2>8. CASE sent[id].object # a
    <3>1. row'[a] = row[a]
      BY <1>0, <2>1, <2>8 DEF TypeInv
    <3>2. \A x : sent[x].object = a => (x \in T <=> x \in S)
      BY <2>4, <2>5, <2>8
    <3>3. Announced(a, T)' \/ (Untouched(a, T)' /\ row'[a] = hash'[a])
      BY <2>1, <2>6, <3>1, <3>2, NotExecuted
    <3> QED
      BY <2>5, <3>3 DEF Announced, Untouched
  <2> QED
    BY <2>7, <2>8
<1> QED
  BY <1>1, <1>2, <1>3, <1>5, <1>6, <1>7, <1>8, <1>9, StepCases

-------------------------------------------------------------------------------
(* The invariant.                                                               *)

LEMMA InitInvariant ==
  ASSUME Init
  PROVE  IInv
<1> USE RuntimeAssumption DEF Init
<1>0. sent = << >> /\ Len(sent) = 0 /\ Id = {} /\ Known = {None, First, Old}
  BY DEF Id, Known
<1>1. TypeInv
  <2>1. /\ hash \in [Object -> Known] /\ row \in [Object -> Known]
        /\ checksum \in [Object -> Known]
    BY <1>0
  <2>2. seen \in [Object -> Known \cup {Unread}] /\ fetched \in [Object -> Known \cup {Unread}]
    BY DEF Nothing
  <2>3. /\ position \in [Reader -> 0..Len(sent)] /\ acked \in [Reader -> 0..Len(sent)]
        /\ inbox \in [Reader -> Seq(Id)] /\ upserts \in Seq(Id)
    BY <1>0
  <2>4. sent \in Seq([object : Object, op : {"upsert", "delete"}])
    OBVIOUS
  <2>5. waiting \in BOOLEAN
    BY Zenon
  <2> QED
    BY <1>0, <2>1, <2>2, <2>3, <2>4, <2>5 DEF TypeInv
<1>2. QuietInv
  BY DEF QuietInv
<1>3. OrderInv
  <2>1. /\ "db" \in Reader /\ inbox["db"] = << >> /\ DOMAIN inbox["db"] = {}
        /\ DOMAIN upserts = {}
    BY DEF Reader
  <2>2. ToSet(upserts) = {}
    BY <2>1, InToSet
  <2> QED
    BY <2>1, <2>2 DEF OrderInv
<1>4. ChecksumInv
  BY DEF ChecksumInv, Nothing
<1>5. SyncInv /\ RowInv
  BY DEF SyncInv, RowInv
<1> QED
  BY <1>1, <1>2, <1>3, <1>4, <1>5 DEF IInv

LEMMA Inductive == Spec => []IInv
<1>1. IInv /\ [Next]_vars => IInv'
  BY TypeStep, QuietStep, OrderStep, ChecksumStep, SyncStep, RowStep DEF IInv
<1> QED
  BY <1>1, InitInvariant, PTL DEF Spec

-------------------------------------------------------------------------------

\* The state is well-formed, and structifyStream only waits for the serializer
\* channel while a statement is to be executed that reports to it.
THEOREM TypeCorrect == Spec => []TypeOK
<1>1. IInv => TypeOK
  <2> SUFFICES ASSUME IInv PROVE TypeOK
    OBVIOUS
  <2>1. TypeInv /\ OrderInv
    BY DEF IInv
  <2>2. Id \subseteq 1..MaxUpdates
    <3>1. Len(sent) \in Nat /\ Len(sent) <= MaxUpdates /\ Id = 1..Len(sent)
      BY <2>1, MessageFacts DEF TypeInv
    <3> QED
      BY <3>1, RuntimeAssumption
  <2>3. Known \subseteq Content
    BY <2>2 DEF Known, Content
  <2>4. /\ hash \in [Object -> Content] /\ row \in [Object -> Content]
        /\ checksum \in [Object -> Content]
        /\ seen \in [Object -> Content \cup {Unread}]
        /\ fetched \in [Object -> Content \cup {Unread}]
    BY <2>1, <2>3 DEF TypeInv
  <2>5. waiting => upserts # << >> \/ deletes # {}
    <3>0. Len(upserts) = 1 => upserts # << >>
      OBVIOUS
    <3>1. path \in {"config", "state"}
      BY <2>1 DEF TypeInv
    <3>2. waiting => path = "config"
      BY <2>1, <3>1 DEF OrderInv
    <3>3. waiting /\ path = "config" =>
            Len(upserts) = 1 \/ \E id \in deletes : deletes = {id}
      BY <2>1 DEF OrderInv
    <3> QED
      BY <3>0, <3>1, <3>2, <3>3
  <2> QED
    BY <2>1, <2>4, <2>5 DEF TypeInv, TypeOK
<1> QED
  BY <1>1, Inductive, PTL

\* No update is lost between the two reads of the initial sync, the cleared stream
\* and the messages deleted from it: what the table lacks of an object is in a
\* message that is still to be executed.
THEOREM NoUpdateLost == Spec => []NoUpdateMissing
<1>1. IInv => NoUpdateMissing
  BY DEF IInv, RowInv, Announced, NoUpdateMissing
<1> QED
  BY <1>1, Inductive, PTL

\* RuntimeUpdates.Sync deletes a message from the stream only when xRead of each
\* of its consumers has got it.
THEOREM Deletion == Spec => DeletedIsDispatched
<1> DEFINE Step == \A id \in stream \ stream' :
                     phase # "clear" => \A r \in Active : position[r] >= id
<1>1. IInv /\ [Next]_vars => [Step]_vars
  <2> SUFFICES ASSUME IInv, [Next]_vars PROVE Step
    OBVIOUS
  <2>1. CASE \E id \in stream : DeleteMessage(id)
    <3>1. PICK id \in stream : stream' = stream \ {id} /\ \A r \in Active : acked[r] >= id
      BY <2>1 DEF DeleteMessage, AllAcked
    <3>2. \A r \in Active : /\ r \in Reader /\ acked[r] <= position[r]
                            /\ acked[r] \in Nat /\ position[r] \in Nat
      BY DEF Active, Reader, IInv, TypeInv, OrderInv
    <3>3. id \in Nat
      BY Contents DEF IInv, TypeInv
    <3> QED
      BY <3>1, <3>2, <3>3
  <2>2. CASE phase # "clear" => stream \subseteq stream'
    BY <2>2
  <2>3. (\E id \in stream : DeleteMessage(id)) \/ (phase # "clear" => stream \subseteq stream')
    BY StepCases DEF Change, ClearStreams, ScanChecksum, CalculateDelta, FetchEntity,
       ApplyChange, EndInitialSync, Cleared, Dispatch, Acknowledge, Structify, Upsert,
       Delete, Submit, Break, redis, vars
  <2> QED
    BY <2>1, <2>2, <2>3
<1> QED
  BY <1>1, Inductive, PTL DEF Spec, DeletedIsDispatched
=================================================================================
