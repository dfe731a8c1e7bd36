----------------------------- MODULE CacheProofs -----------------------------
(* Proofs about what is remembered of scenes, sources and media.              *)
(*                                                                            *)
(* SceneItems: a getter answers from an entry only what libobs has, a setter  *)
(* that is not passed on had nothing to change, and an item that can be asked *)
(* for is referenced, for any number of scenes, items, values and calls.      *)
(*                                                                            *)
(* SourceCache: the same of a source's attributes, and a name never leads to  *)
(* a source that was removed, for any sources, names, types and calls.        *)
(*                                                                            *)
(* MediaCache: estimates are of the player that serves the file, reservations *)
(* and caches keep within the budget, and at rest every source is settled, for *)
(* any sources, files, sizes, budget, editors, callers and events.            *)
EXTENDS SceneItems, SourceCache, MediaCache, FiniteSetTheorems, SequenceTheorems, WellFoundedInduction, TLAPS

-----------------------------------------------------------------------------
(* Sequences and their places.                                                *)
Less == {p \in Nat \X Nat : p[1] < p[2]}

LEMMA LessIsWellFounded == IsWellFoundedOn(Less, Nat)
<1>1. Less = OpToRel(<, Nat)
  BY DEF Less, OpToRel
<1>. QED
  BY <1>1, NatLessThanWellFounded

LEMMA LeastExists ==
    ASSUME NEW S \in SUBSET Nat, S # {}
    PROVE  Min(S) \in S
<1>1. \E x \in S : \A y \in S : <<y, x>> \notin Less
  BY LessIsWellFounded, WFMin, Zenon
<1>2. \A x, y \in Nat : <<y, x>> \notin Less => x <= y
  BY DEF Less
<1>3. \E x \in S : \A y \in S : x <= y
  BY <1>1, <1>2
<1>. QED
  BY <1>3 DEF Min

LEMMA GreatestExists ==
    ASSUME NEW n \in Nat, NEW S \in SUBSET (0..n), S # {}
    PROVE  Max(S) \in S
<1> DEFINE T == {x \in Nat : n - x \in S}
<1>1. T \in SUBSET Nat /\ T # {}
  <2>1. PICK x \in S : TRUE
    OBVIOUS
  <2>2. x \in 0..n /\ n - x \in Nat /\ n - (n - x) = x
    OBVIOUS
  <2>. QED
    BY <2>2
<1>2. \E x \in T : \A y \in T : <<y, x>> \notin Less
  BY <1>1, LessIsWellFounded, WFMin, Zenon
<1>3. PICK m \in T : \A y \in T : <<y, m>> \notin Less
  BY <1>2
<1>4. m \in Nat /\ n - m \in S
  OBVIOUS
<1>5. ASSUME NEW y \in S PROVE n - m >= y
  <2>1. y \in Int /\ n - y \in Nat /\ n - (n - y) = y
    OBVIOUS
  <2>2. <<n - y, m>> \notin Less
    BY <1>3, <2>1
  <2>3. m <= n - y
    BY <1>4, <2>1, <2>2 DEF Less
  <2>. QED
    BY <1>4, <2>1, <2>3
<1>. QED
  BY <1>4, <1>5 DEF Max

LEMMA PlaceOf ==
    ASSUME NEW S, NEW s \in Seq(S), NEW e
    PROVE  /\ PlaceIn(s, e) \in 0..Len(s)
           /\ PlaceIn(s, e) # 0 => s[PlaceIn(s, e)] = e
<1> DEFINE I == {i \in 1..Len(s) : s[i] = e}
<1>1. PlaceIn(s, e) = IF I # {} THEN Min(I) ELSE 0
  BY DEF PlaceIn, SelectInSeq
<1>2. I \in SUBSET Nat
  OBVIOUS
<1>3. I # {} => Min(I) \in I
  BY <1>2, LeastExists
<1>4. CASE I = {}
  BY <1>1, <1>4
<1>5. CASE I # {}
  BY <1>1, <1>3, <1>5
<1>. QED
  BY <1>4, <1>5

LEMMA ConcatType ==
    ASSUME NEW S, NEW s \in Seq(S), NEW t \in Seq(S)
    PROVE  /\ s \o t \in Seq(S)
           /\ Len(s \o t) = Len(s) + Len(t)
           /\ \A i \in 1..Len(s) : (s \o t)[i] = s[i]
           /\ \A i \in Len(s) + 1..Len(s) + Len(t) : (s \o t)[i] = t[i - Len(s)]
OBVIOUS

LEMMA RemoveAtType ==
    ASSUME NEW S, NEW s \in Seq(S), NEW k \in 1..Len(s)
    PROVE  RemoveAt(s, k) \in Seq(S) /\ Len(RemoveAt(s, k)) = Len(s) - 1
<1> DEFINE a == SubSeq(s, 1, k - 1)
           b == SubSeq(s, k + 1, Len(s))
<1>1. Len(s) \in Nat
  OBVIOUS
<1>2. a \in Seq(S) /\ Len(a) = k - 1
  BY <1>1
<1>3. b \in Seq(S) /\ Len(b) = Len(s) - k
  BY <1>1
<1>4. RemoveAt(s, k) = a \o b
  BY DEF RemoveAt
<1> HIDE DEF a, b
<1>5. a \o b \in Seq(S) /\ Len(a \o b) = Len(a) + Len(b)
  BY <1>2, <1>3
<1>. QED
  BY <1>1, <1>2, <1>3, <1>4, <1>5

LEMMA InsertAtType ==
    ASSUME NEW S, NEW s \in Seq(S), NEW k \in 1..Len(s) + 1, NEW e \in S
    PROVE  InsertAt(s, k, e) \in Seq(S)
BY DEF InsertAt

LEMMA RemoveFirstType ==
    ASSUME NEW S, NEW s \in Seq(S), NEW e
    PROVE  RemoveFirst(s, e) \in Seq(S)
<1> DEFINE I == {i \in 1..Len(s) : s[i] = e}
           k == SelectInSeq(s, LAMBDA v : v = e)
<1>1. CASE \E i \in 1..Len(s) : s[i] = e
  <2>1. I \in SUBSET Nat /\ I # {}
    BY <1>1
  <2>2. k = Min(I)
    BY <2>1 DEF SelectInSeq
  <2>3. k \in 1..Len(s)
    BY <2>1, <2>2, LeastExists
  <2> HIDE DEF k, I
  <2>. QED
    BY <1>1, <2>3, RemoveAtType DEF RemoveFirst, k
<1>. QED
  BY <1>1 DEF RemoveFirst

LEMMA MovedType ==
    ASSUME NEW S, NEW is \in Seq(S), NEW from \in 1..Len(is), NEW to \in 1..Len(is)
    PROVE  moved(is, from, to) \in Seq(S)
<1>1. RemoveAt(is, from) \in Seq(S) /\ Len(RemoveAt(is, from)) = Len(is) - 1
  BY RemoveAtType
<1>2. is[from] \in S /\ Len(is) \in Nat
  OBVIOUS
<1>3. to \in 1..Len(RemoveAt(is, from)) + 1
  BY <1>1, <1>2
<1>. QED
  BY <1>1, <1>2, <1>3, InsertAtType DEF moved

LEMMA PermutationType ==
    ASSUME NEW S, IsFiniteSet(S), NEW p \in SetToSeqs(S)
    PROVE  /\ p \in Seq(S)
           /\ \A i, j \in DOMAIN p : i # j => p[i] # p[j]
<1>1. Cardinality(S) \in Nat
  BY FS_CardinalityType
<1>2. /\ p \in [1..Cardinality(S) -> S]
      /\ \A i, j \in 1..Cardinality(S) : i # j => p[i] # p[j]
  BY DEF SetToSeqs
<1>. QED
  BY <1>1, <1>2

-----------------------------------------------------------------------------
(* Scene items.                                                               *)
Entries == [known : {TRUE}, cached : BOOLEAN, value : [Fields -> Values], changed : SUBSET Fields] \cup {NoEntry}

ItemTypes ==
    /\ order \in [Scenes -> Seq(Made)]
    /\ made \in [Scenes -> Seq(Items)]
    /\ ended \subseteq Scenes
    /\ value \in [Items -> [Fields -> Values]]
    /\ manager \in Seq(Made \cup {None})
    /\ refs \in [Items -> Nat]
    /\ DOMAIN si = Scenes
    /\ \A s \in Scenes : si[s].known \in BOOLEAN /\ {"items", "itemsOrderCached", "known"} \subseteq DOMAIN si[s]
    /\ sid \in Seq(Entries) /\ Len(sid) = Len(manager)
    /\ stale \in BOOLEAN
    /\ itemCalls \in 0..MaxItemCalls

\* libobs numbers items as it makes them, and a scene that was not made has none.
MadeInOrder == \E k \in 0..MaxItems : Made = 1..k
UnmadeIsEmpty == \A s \in Scenes : ~si[s].known => made[s] = <<>>

\* No item has two numbers of the server.
OneUid == \A u, w \in Uids : Live(u) /\ manager[u] = manager[w] => u = w

\* What an entry says of an item the server knows is true, but for what a
\* canvas or a transform changed past it: that is marked, or, after a reset of
\* the canvas, about to be.
Trusted(u, f) ==
    /\ f \in Absolute => ~stale /\ Clean(u, f)
    /\ f = "rotation" => Clean(u, f)
EntriesHonest ==
    \A u \in Uids : Live(u) /\ HasEntry(u) =>
        \A f \in Fields : Trusted(u, f) => sid[u].value[f] = value[manager[u]][f]

ItemsInv == ItemTypes /\ MadeInOrder /\ UnmadeIsEmpty /\ OneUid /\ ManagedIsAlive /\ EntriesHonest

-----------------------------------------------------------------------------
(* Scene items: the calls on one item, and the canvas.                        *)
LEMMA EntryType ==
    ASSUME NEW u \in Uids, sid \in Seq(Entries), Len(sid) = Len(manager), HasEntry(u)
    PROVE  /\ sid[u] \in [known : {TRUE}, cached : BOOLEAN, value : [Fields -> Values],
                          changed : SUBSET Fields]
           /\ u \in DOMAIN sid
<1>1. u \in DOMAIN sid
  BY DEF Uids
<1>2. sid[u] \in Entries
  BY <1>1
<1>3. sid[u] # NoEntry
  BY DEF HasEntry, NoEntry
<1>. QED
  BY <1>1, <1>2, <1>3 DEF Entries

LEMMA EntryMade ==
    ASSUME NEW c \in BOOLEAN, NEW w \in [Fields -> Values], NEW fs \in SUBSET Fields
    PROVE  [known |-> TRUE, cached |-> c, value |-> w, changed |-> fs] \in Entries
BY DEF Entries

LEMMA MarkedEntry ==
    ASSUME NEW u \in Uids, sid \in Seq(Entries), Len(sid) = Len(manager), HasEntry(u),
           NEW fs \in SUBSET Fields
    PROVE  /\ [sid[u] EXCEPT !.changed = fs] \in Entries
           /\ [sid[u] EXCEPT !.changed = fs].value = sid[u].value
           /\ [sid[u] EXCEPT !.changed = fs].changed = fs
           /\ [sid[u] EXCEPT !.changed = fs].known = TRUE
<1>1. sid[u] \in [known : {TRUE}, cached : BOOLEAN, value : [Fields -> Values],
                  changed : SUBSET Fields]
  BY EntryType
<1>. QED
  BY <1>1 DEF Entries

LEMMA MadeAreItems ==
    ASSUME MadeInOrder
    PROVE  Made \subseteq Items
<1>1. PICK k \in 0..MaxItems : Made = 1..k
  BY DEF MadeInOrder
<1>. QED
  BY <1>1, SceneItemsAssumption DEF Items

LEMMA ManagedIsMade ==
    ASSUME ItemTypes, MadeInOrder, NEW u \in Uids, Live(u)
    PROVE  manager[u] \in Made /\ manager[u] \in Items
<1>1. manager[u] \in Made \cup {None}
  BY DEF ItemTypes, Uids
<1>. QED
  BY <1>1, MadeAreItems DEF Live

\* A call that changes only values and entries keeps the rest of the invariant.
LEMMA FieldsOnly ==
    ASSUME ItemsInv, itemCalled, UNCHANGED <<order, made, ended, manager, refs, si>>,
           stale' \in BOOLEAN, value' \in [Items -> [Fields -> Values]],
           sid' \in Seq(Entries), Len(sid') = Len(sid), EntriesHonest'
    PROVE  ItemsInv'
<1>1. Made' = Made /\ Uids' = Uids /\ \A u \in Uids : Live(u)' = Live(u)
  BY DEF Made, Uids, Live
<1>2. ItemTypes'
  BY <1>1, SceneItemsAssumption DEF ItemsInv, ItemTypes, itemCalled
<1>3. MadeInOrder' /\ UnmadeIsEmpty' /\ OneUid' /\ ManagedIsAlive'
  BY <1>1 DEF ItemsInv, MadeInOrder, UnmadeIsEmpty, OneUid, ManagedIsAlive
<1>. QED
  BY <1>2, <1>3 DEF ItemsInv

\* The entry takes the value that libobs has; other fields are trusted as before.
LEMMA StoreKeeps ==
    ASSUME ItemsInv, NEW u \in Uids, ItemCall(u), NEW f \in Fields, NEW v \in Values,
           NEW changed \in SUBSET Fields, sid[u].changed \ {f} \subseteq changed,
           Store(u, f, v, changed),
           value' = [value EXCEPT ![manager[u]][f] = v],
           UNCHANGED <<order, made, ended, manager, refs, si, stale>>
    PROVE  ItemsInv'
<1> USE DEF ItemCall
<1> DEFINE e == sid[u]
           c == IF f = "selected" THEN TRUE ELSE e.cached
           new == [known |-> TRUE, cached |-> c, value |-> [e.value EXCEPT ![f] = v],
                   changed |-> changed]
<1>1. /\ e \in [known : {TRUE}, cached : BOOLEAN, value : [Fields -> Values],
                changed : SUBSET Fields]
      /\ u \in DOMAIN sid
      /\ sid \in Seq(Entries)
  BY EntryType DEF ItemsInv, ItemTypes
<1>2. c \in BOOLEAN
  BY <1>1
<1>3. sid' = [sid EXCEPT ![u] = new]
  BY DEF Store
<1> HIDE DEF c, new, e
<1>4. /\ manager[u] \in Items /\ value \in [Items -> [Fields -> Values]]
      /\ Uids = DOMAIN sid
  <2>1. manager[u] \in Items
    BY ManagedIsMade DEF ItemsInv
  <2>2. /\ value \in [Items -> [Fields -> Values]]
        /\ sid \in Seq(Entries) /\ Len(sid) = Len(manager)
    BY DEF ItemsInv, ItemTypes
  <2>. QED
    BY <2>1, <2>2 DEF Uids
<1> USE DEF new, e
<1>5. new \in Entries /\ new.value = [e.value EXCEPT ![f] = v] /\ new.changed = changed
  BY <1>1, <1>2 DEF Entries
<1> HIDE DEF new, e
<1>6. /\ sid' \in Seq(Entries) /\ Len(sid') = Len(sid)
      /\ sid'[u] = new /\ \A w \in Uids : w # u => sid'[w] = sid[w]
  BY <1>1, <1>3, <1>4, <1>5
<1>7. value' \in [Items -> [Fields -> Values]]
  BY <1>4
<1>8. ASSUME NEW w \in Uids, Live(w), HasEntry(w)', NEW g \in Fields, Trusted(w, g)'
      PROVE  sid'[w].value[g] = value'[manager[w]][g]
  <2>1. manager[w] \in Items
    BY <1>8, ManagedIsMade DEF ItemsInv
  <2>2. CASE w = u /\ g = f
    BY <2>2, <1>1, <1>4, <1>5, <1>6 DEF e
  <2>3. CASE w = u /\ g # f
    <3>1. Trusted(u, g)
      BY <1>8, <2>3, <1>5, <1>6 DEF Trusted, Clean
    <3>2. sid[u].value[g] = value[manager[u]][g]
      BY <3>1 DEF ItemsInv, EntriesHonest
    <3>3. sid'[u].value[g] = sid[u].value[g]
      BY <2>3, <1>1, <1>5, <1>6 DEF e
    <3>4. value'[manager[u]][g] = value[manager[u]][g]
      BY <2>3, <1>4
    <3>. QED
      BY <2>3, <3>2, <3>3, <3>4
  <2>4. CASE w # u
    <3>1. manager[w] # manager[u]
      BY <1>8, <2>4 DEF ItemsInv, OneUid
    <3>2. sid'[w] = sid[w]
      BY <2>4, <1>6
    <3>3. Trusted(w, g) /\ HasEntry(w)
      BY <1>8, <3>2 DEF Trusted, Clean, HasEntry
    <3>4. value'[manager[w]] = value[manager[w]]
      BY <3>1, <2>1, <1>4
    <3>. QED
      BY <1>8, <3>2, <3>3, <3>4 DEF ItemsInv, EntriesHonest
  <2>. QED
    BY <2>2, <2>3, <2>4
<1>9. EntriesHonest'
  <2>1. Uids' = Uids /\ \A w \in Uids : Live(w)' = Live(w)
    BY DEF Uids, Live
  <2>. QED
    BY <1>8, <2>1 DEF EntriesHonest
<1>10. stale' \in BOOLEAN /\ itemCalled
  BY DEF ItemsInv, ItemTypes, Store
<1>. QED
  BY <1>6, <1>7, <1>9, <1>10, FieldsOnly

LEMMA GetKeeps ==
    ASSUME ItemsInv, NEW u \in Uids, NEW f \in Fields, Get(u, f)
    PROVE  ItemsInv'
<1>1. ItemCall(u)
  BY DEF Get
<1>2. sid[u].changed \in SUBSET Fields
  BY <1>1, EntryType DEF ItemsInv, ItemTypes, ItemCall
<1>3. manager[u] \in Items /\ value \in [Items -> [Fields -> Values]]
  BY <1>1, ManagedIsMade DEF ItemsInv, ItemTypes, ItemCall
<1>4. valueOf(u, f) \in Values
  BY <1>3 DEF valueOf
<1>5. value' = [value EXCEPT ![manager[u]][f] = valueOf(u, f)]
  BY <1>3 DEF Get, server, valueOf
<1>6. Store(u, f, valueOf(u, f), sid[u].changed \ {f})
  BY DEF Get
<1>7. UNCHANGED <<order, made, ended, manager, refs, si, stale>>
  BY DEF Get, server
<1>8. /\ sid[u].changed \ {f} \in SUBSET Fields
      /\ sid[u].changed \ {f} \subseteq sid[u].changed \ {f}
  BY <1>2
<1>. QED
  BY <1>1, <1>4, <1>5, <1>6, <1>7, <1>8, StoreKeeps

LEMMA SetKeeps ==
    ASSUME ItemsInv, NEW u \in Uids, NEW f \in Fields, NEW v \in Values,
           NEW changed, sid[u].changed \ {f} \subseteq changed,
           HasEntry(u) => changed \subseteq Fields,
           Set(u, f, v, changed)
    PROVE  ItemsInv'
<1>1. ItemCall(u) /\ changed \in SUBSET Fields
  BY DEF Set, ItemCall
<1>. QED
  BY <1>1, StoreKeeps DEF Set, Apply

LEMMA SetCropKeeps ==
    ASSUME ItemsInv, NEW u \in Uids, NEW v, SetCrop(u, v)
    PROVE  ItemsInv'
<1>1. ItemCall(u)
  BY DEF SetCrop
<1>2. sid[u].changed \in SUBSET Fields
  BY <1>1, EntryType DEF ItemsInv, ItemTypes, ItemCall
<1>3. PICK effective \in Values :
         fitCrop(u, effective) /\ Store(u, "crop", effective, sid[u].changed \ {"crop"})
  BY DEF SetCrop
<1>4. UNCHANGED <<order, made, ended, manager, refs, si, stale>>
  BY DEF SetCrop
<1>5. "crop" \in Fields
  BY DEF Fields, Absolute
<1>. QED
  BY <1>1, <1>2, <1>3, <1>4, <1>5, StoreKeeps DEF fitCrop, Apply

\* A flag that is cleared without a call says nothing of its field's value.
LEMMA SetFlagKeeps ==
    ASSUME ItemsInv, NEW u \in Uids, NEW f \in Flags, NEW v \in Values, SetFlag(u, f, v)
    PROVE  ItemsInv'
<1>1. f \in Fields /\ f \notin Absolute \cup {"rotation"}
  BY DEF Fields, Flags, Absolute
<1>2. HasEntry(u)
  BY DEF SetFlag, Set, ItemCall
<1>3. sid[u].changed \in SUBSET Fields /\ u \in DOMAIN sid
  BY <1>2, EntryType DEF ItemsInv, ItemTypes
<1>4. CASE Set(u, f, v, sid[u].changed \cup {f})
  BY <1>1, <1>3, <1>4, SetKeeps
<1>5. CASE ~Set(u, f, v, sid[u].changed \cup {f})
  <2> DEFINE e == [sid[u] EXCEPT !.changed = @ \ {f}]
  <2>1. /\ itemCalled /\ sid' = [sid EXCEPT ![u] = e]
        /\ UNCHANGED <<order, made, ended, value, manager, refs, si, stale>>
    BY <1>5 DEF SetFlag, server
  <2>2. e = [sid[u] EXCEPT !.changed = sid[u].changed \ {f}]
    OBVIOUS
  <2>3. /\ e \in Entries /\ e.value = sid[u].value
        /\ e.changed = sid[u].changed \ {f} /\ e.known = TRUE
    BY <1>2, <1>3, <2>2, MarkedEntry DEF ItemsInv, ItemTypes
  <2> HIDE DEF e
  <2>4. /\ sid' \in Seq(Entries) /\ Len(sid') = Len(sid) /\ sid'[u] = e
        /\ \A w \in Uids : w # u => sid'[w] = sid[w]
    BY <1>3, <2>1, <2>3 DEF ItemsInv, ItemTypes, Uids
  <2>5. \A w \in Uids : HasEntry(w)' => HasEntry(w) /\ sid'[w].value = sid[w].value
    BY <1>2, <2>3, <2>4 DEF HasEntry
  <2>6. \A w \in Uids, g \in Fields : Trusted(w, g)' => Trusted(w, g)
    BY <1>1, <2>1, <2>3, <2>4 DEF Trusted, Clean
  <2>7. EntriesHonest'
    BY <2>1, <2>5, <2>6 DEF ItemsInv, EntriesHonest, Uids, Live
  <2>. QED
    BY <2>1, <2>4, <2>7, FieldsOnly DEF ItemsInv, ItemTypes
<1>. QED
  BY <1>4, <1>5

LEMMA BecomesType ==
    ASSUME NEW i \in Items, NEW fs, Becomes(i, fs), value \in [Items -> [Fields -> Values]]
    PROVE  /\ value' \in [Items -> [Fields -> Values]]
           /\ \A j \in Items : j # i => value'[j] = value[j]
           /\ \A g \in Fields \ fs : value'[i][g] = value[i][g]
<1>1. PICK w \in [fs -> Values] :
         value' = [value EXCEPT ![i] = [f \in Fields |-> IF f \in fs THEN w[f] ELSE @[f]]]
  BY DEF Becomes
<1>2. [f \in Fields |-> IF f \in fs THEN w[f] ELSE value[i][f]] \in [Fields -> Values]
  OBVIOUS
<1>. QED
  BY <1>1, <1>2

\* Fields that libobs changes are marked, if there is an entry to mark them in.
LEMMA MarkKeeps ==
    ASSUME ItemsInv, NEW u \in Uids, Live(u), itemCalled,
           NEW fs \in SUBSET (Absolute \cup {"rotation"}),
           Becomes(manager[u], fs), Suspect(u, fs),
           UNCHANGED <<order, made, ended, manager, refs, si, stale>>
    PROVE  ItemsInv'
<1>1. manager[u] \in Items
  BY ManagedIsMade DEF ItemsInv
<1>2. /\ value' \in [Items -> [Fields -> Values]]
      /\ \A j \in Items : j # manager[u] => value'[j] = value[j]
      /\ \A g \in Fields \ fs : value'[manager[u]][g] = value[manager[u]][g]
  BY <1>1, BecomesType DEF ItemsInv, ItemTypes
<1>3. fs \subseteq Fields
  BY DEF Absolute, Fields
<1>4. /\ sid' \in Seq(Entries) /\ Len(sid') = Len(sid)
      /\ \A w \in Uids : w # u => sid'[w] = sid[w]
      /\ HasEntry(u)' => HasEntry(u) /\ sid'[u].value = sid[u].value
                                     /\ sid'[u].changed = sid[u].changed \cup fs
  <2>1. CASE ~HasEntry(u)
    BY <2>1 DEF Suspect, HasEntry, ItemsInv, ItemTypes
  <2>2. CASE HasEntry(u)
    <3> DEFINE e == [sid[u] EXCEPT !.changed = @ \cup fs]
    <3>1. sid' = [sid EXCEPT ![u] = e]
      BY <2>2 DEF Suspect
    <3>2. sid[u].changed \cup fs \in SUBSET Fields
      BY <1>3, <2>2, EntryType DEF ItemsInv, ItemTypes
    <3>3. e = [sid[u] EXCEPT !.changed = sid[u].changed \cup fs]
      OBVIOUS
    <3>4. e \in Entries /\ e.value = sid[u].value /\ e.changed = sid[u].changed \cup fs
      BY <2>2, <3>2, <3>3, MarkedEntry DEF ItemsInv, ItemTypes
    <3> HIDE DEF e
    <3>5. u \in DOMAIN sid /\ Uids = DOMAIN sid /\ sid \in Seq(Entries)
      BY DEF ItemsInv, ItemTypes, Uids
    <3>. QED
      BY <2>2, <3>1, <3>4, <3>5
  <2>. QED
    BY <2>1, <2>2
<1>5. ASSUME NEW w \in Uids, Live(w), HasEntry(w)', NEW g \in Fields, Trusted(w, g)'
      PROVE  sid'[w].value[g] = value'[manager[w]][g]
  <2>1. CASE w = u
    <3>1. g \notin fs
      BY <1>4, <1>5, <2>1 DEF Trusted, Clean
    <3>2. Trusted(w, g) /\ HasEntry(w)
      BY <1>4, <1>5, <2>1 DEF Trusted, Clean
    <3>3. sid[w].value[g] = value[manager[w]][g]
      BY <1>5, <3>2 DEF ItemsInv, EntriesHonest
    <3>. QED
      BY <1>2, <1>4, <1>5, <2>1, <3>1, <3>3
  <2>2. CASE w # u
    <3>1. manager[w] # manager[u] /\ manager[w] \in Items
      BY <1>5, <2>2, ManagedIsMade DEF ItemsInv, OneUid
    <3>2. sid'[w] = sid[w] /\ value'[manager[w]] = value[manager[w]]
      BY <1>2, <1>4, <2>2, <3>1
    <3>3. Trusted(w, g) /\ HasEntry(w)
      BY <1>5, <3>2 DEF Trusted, Clean, HasEntry
    <3>. QED
      BY <1>5, <3>2, <3>3 DEF ItemsInv, EntriesHonest
  <2>. QED
    BY <2>1, <2>2
<1>6. EntriesHonest'
  <2>1. Uids' = Uids /\ \A w \in Uids : Live(w)' = Live(w)
    BY DEF Uids, Live
  <2>. QED
    BY <1>5, <2>1 DEF EntriesHonest
<1>. QED
  BY <1>2, <1>4, <1>6, FieldsOnly DEF ItemsInv, ItemTypes

LEMMA CanvasKeeps ==
    ASSUME ItemsInv, NEW u \in Uids, SetCanvas(u) \/ SetTransformInfo(u)
    PROVE  ItemsInv'
<1>1. CASE SetCanvas(u)
  BY <1>1, MarkKeeps DEF SetCanvas, changeCanvas
<1>2. CASE SetTransformInfo(u)
  BY <1>2, MarkKeeps DEF SetTransformInfo, applyTransform
<1>. QED
  BY <1>1, <1>2

\* After a reset no entry's position, scale or crop counts until it is marked.
LEMMA ResetCanvasKeeps ==
    ASSUME ItemsInv, ResetCanvas
    PROVE  ItemsInv'
<1>1. PICK i \in Made : Becomes(i, Absolute)
  BY DEF ResetCanvas
<1>2. i \in Items
  BY MadeAreItems DEF ItemsInv
<1>3. /\ value' \in [Items -> [Fields -> Values]]
      /\ \A j \in Items : j # i => value'[j] = value[j]
      /\ \A g \in Fields \ Absolute : value'[i][g] = value[i][g]
  BY <1>1, <1>2, BecomesType DEF ItemsInv, ItemTypes
<1>4. /\ itemCalled /\ stale' = TRUE
      /\ UNCHANGED <<order, made, ended, manager, refs, si, sid>>
  BY DEF ResetCanvas
<1>5. ASSUME NEW w \in Uids, Live(w), HasEntry(w), NEW g \in Fields, Trusted(w, g)'
      PROVE  sid[w].value[g] = value'[manager[w]][g]
  <2>1. g \notin Absolute /\ Trusted(w, g)
    BY <1>4, <1>5 DEF Trusted, Clean
  <2>2. manager[w] \in Items
    BY <1>5, ManagedIsMade DEF ItemsInv
  <2>3. value'[manager[w]][g] = value[manager[w]][g]
    BY <1>3, <2>1, <2>2
  <2>. QED
    BY <1>5, <2>1, <2>3 DEF ItemsInv, EntriesHonest
<1>6. EntriesHonest'
  BY <1>4, <1>5 DEF EntriesHonest, Uids, Live, HasEntry
<1>. QED
  BY <1>3, <1>4, <1>6, FieldsOnly DEF ItemsInv, ItemTypes

LEMMA InvalidateKeeps ==
    ASSUME ItemsInv, InvalidateItemTransformCache
    PROVE  ItemsInv'
<1>1. /\ itemCalled /\ stale' = FALSE
      /\ UNCHANGED <<order, made, ended, value, manager, refs, si>>
      /\ sid' = [u \in Uids |-> IF HasEntry(u) THEN [sid[u] EXCEPT !.changed = @ \cup Absolute]
                                ELSE sid[u]]
  BY DEF InvalidateItemTransformCache, InvalidateSceneItemTransforms, server
<1>2. \A u \in Uids :
         /\ sid'[u] \in Entries
         /\ HasEntry(u)' => HasEntry(u) /\ sid'[u].value = sid[u].value
                                        /\ sid'[u].changed = sid[u].changed \cup Absolute
  <2> TAKE u \in Uids
  <2>1. CASE ~HasEntry(u)
    <3>1. sid'[u] = sid[u]
      BY <1>1, <2>1
    <3>2. sid[u] \in Entries
      BY DEF ItemsInv, ItemTypes, Uids
    <3>. QED
      BY <2>1, <3>1, <3>2 DEF HasEntry
  <2>2. CASE HasEntry(u)
    <3>1. sid'[u] = [sid[u] EXCEPT !.changed = sid[u].changed \cup Absolute]
      BY <1>1, <2>2
    <3>2. sid[u].changed \cup Absolute \in SUBSET Fields
      BY <2>2, EntryType DEF ItemsInv, ItemTypes, Fields
    <3> DEFINE fs == sid[u].changed \cup Absolute
               e == [sid[u] EXCEPT !.changed = fs]
    <3>3. fs \in SUBSET Fields /\ sid \in Seq(Entries) /\ Len(sid) = Len(manager)
      BY <3>2 DEF ItemsInv, ItemTypes
    <3> HIDE DEF fs
    <3>4. e \in Entries /\ e.value = sid[u].value /\ e.changed = fs
      BY <2>2, <3>3, MarkedEntry
    <3>5. sid'[u] = e
      BY <3>1 DEF fs
    <3> HIDE DEF e
    <3>. QED
      BY <2>2, <3>4, <3>5 DEF fs
  <2>. QED
    BY <2>1, <2>2
<1>3. sid' \in Seq(Entries) /\ Len(sid') = Len(sid)
  <2>1. Len(manager) \in Nat /\ Len(sid) = Len(manager)
    BY DEF ItemsInv, ItemTypes
  <2>2. DOMAIN sid' = 1..Len(manager)
    BY <1>1 DEF Uids
  <2>3. sid' \in [1..Len(manager) -> Entries]
    BY <1>1, <1>2 DEF Uids
  <2>. QED
    BY <2>1, <2>2, <2>3
<1>4. ASSUME NEW w \in Uids, Live(w), HasEntry(w)', NEW g \in Fields, Trusted(w, g)'
      PROVE  sid'[w].value[g] = value[manager[w]][g]
  <2>1. HasEntry(w) /\ sid'[w].value = sid[w].value
        /\ sid'[w].changed = sid[w].changed \cup Absolute
    BY <1>2, <1>4
  <2>2. Trusted(w, g)
    BY <1>4, <2>1 DEF Trusted, Clean
  <2>. QED
    BY <1>4, <2>1, <2>2 DEF ItemsInv, EntriesHonest
<1>5. EntriesHonest'
  BY <1>1, <1>4 DEF EntriesHonest, Uids, Live
<1>. QED
  BY <1>1, <1>3, <1>5, FieldsOnly DEF ItemsInv, ItemTypes

-----------------------------------------------------------------------------
(* Scene items: numbers are given out.                                        *)
LEMMA NewNumbers ==
    ASSUME OneUid, NEW S, manager \in Seq(S), NEW new \in Seq(S),
           \A i, j \in DOMAIN new : i # j => new[i] # new[j],
           \A i \in DOMAIN new : ~Managed(manager, new[i]),
           manager' = manager \o new
    PROVE  /\ OneUid'
           /\ manager' \in Seq(S) /\ Len(manager') = Len(manager) + Len(new)
           /\ Uids \subseteq Uids'
           /\ \A u \in Uids : manager'[u] = manager[u]
           /\ \A u \in Uids' \ Uids : manager'[u] \in Range(new)
<1> DEFINE m == Len(manager)
<1>1. m \in Nat /\ Len(new) \in Nat
  OBVIOUS
<1>2. manager' \in Seq(S) /\ Len(manager') = m + Len(new)
  OBVIOUS
<1>3. /\ \A u \in 1..m : manager'[u] = manager[u]
      /\ \A u \in m + 1..m + Len(new) : u - m \in DOMAIN new /\ manager'[u] = new[u - m]
  OBVIOUS
<1> HIDE DEF m
<1>4. Uids = 1..m /\ Uids' = 1..m + Len(new)
  <2>1. Uids = 1..m
    BY DEF Uids, m
  <2>2. Uids' = 1..Len(manager')
    BY DEF Uids
  <2>. QED
    BY <1>2, <2>1, <2>2
<1>5. Uids \subseteq Uids' /\ \A u \in Uids' \ Uids : u \in m + 1..m + Len(new)
  BY <1>1, <1>4
<1>6. \A u \in Uids, i \in DOMAIN new : manager[u] # new[i]
  BY <1>4 DEF Managed, m
<1>7. ASSUME NEW u \in Uids', NEW w \in Uids', Live(u)', manager'[u] = manager'[w]
      PROVE  u = w
  <2>1. CASE u \in Uids /\ w \in Uids
    <3>1. manager'[u] = manager[u] /\ manager'[w] = manager[w]
      BY <1>3, <1>4, <2>1
    <3>2. Live(u) /\ manager[u] = manager[w]
      BY <1>7, <3>1 DEF Live
    <3>. QED
      BY <2>1, <3>2 DEF OneUid
  <2>2. CASE u \in Uids /\ w \notin Uids
    <3>1. w - m \in DOMAIN new /\ manager'[w] = new[w - m]
      BY <1>3, <1>5, <2>2
    <3>2. manager'[u] = manager[u]
      BY <1>3, <1>4, <2>2
    <3>. QED
      BY <1>6, <1>7, <2>2, <3>1, <3>2
  <2>3. CASE u \notin Uids /\ w \in Uids
    <3>1. u - m \in DOMAIN new /\ manager'[u] = new[u - m]
      BY <1>3, <1>5, <2>3
    <3>2. manager'[w] = manager[w]
      BY <1>3, <1>4, <2>3
    <3>. QED
      BY <1>6, <1>7, <2>3, <3>1, <3>2
  <2>4. CASE u \notin Uids /\ w \notin Uids
    <3>1. u \in m + 1..m + Len(new) /\ w \in m + 1..m + Len(new)
      BY <1>5, <1>7, <2>4
    <3>2. u - m \in DOMAIN new /\ w - m \in DOMAIN new /\ new[u - m] = new[w - m]
      BY <1>3, <1>7, <3>1
    <3>3. u - m = w - m
      BY <3>2
    <3>. QED
      BY <1>1, <3>1, <3>3
  <2>. QED
    BY <2>1, <2>2, <2>3, <2>4
<1>8. OneUid'
  BY <1>7 DEF OneUid
<1>9. ASSUME NEW u \in Uids' \ Uids
      PROVE  manager'[u] \in Range(new)
  <2>1. u - m \in DOMAIN new /\ manager'[u] = new[u - m]
    BY <1>3, <1>5
  <2>. QED
    BY <2>1 DEF Range
<1>10. m = Len(manager)
  BY DEF m
<1>. QED
  BY <1>2, <1>3, <1>4, <1>5, <1>8, <1>9, <1>10

LEMMA UnnumberedType ==
    ASSUME MadeInOrder, NEW list \in Seq(Made), NEW new \in Unnumbered(list)
    PROVE  /\ new \in Seq(Made)
           /\ \A i, j \in DOMAIN new : i # j => new[i] # new[j]
           /\ \A i \in DOMAIN new : ~Managed(manager, new[i])
<1> DEFINE T == {i \in Range(list) : ~Managed(manager, i)}
<1>1. PICK k \in 0..MaxItems : Made = 1..k
  BY DEF MadeInOrder
<1>2. k \in Int /\ 1 \in Int
  BY <1>1, SceneItemsAssumption
<1>3. IsFiniteSet(Made)
  BY <1>1, <1>2, FS_Interval, Zenon
<1>4. T \subseteq Made
  BY DEF Range
<1>5. IsFiniteSet(T)
  BY <1>3, <1>4, FS_Subset
<1>6. new \in SetToSeqs(T)
  BY DEF Unnumbered
<1>7. new \in Seq(T) /\ \A i, j \in DOMAIN new : i # j => new[i] # new[j]
  BY <1>5, <1>6, PermutationType
<1>8. \A i \in DOMAIN new : new[i] \in T
  BY <1>7
<1>9. new \in Seq(Made)
  BY <1>4, <1>7
<1>. QED
  BY <1>7, <1>8, <1>9

\* The items of a list that had no number get one, and a reference each.
LEMMA AllocateKeeps ==
    ASSUME ItemsInv, NEW list \in Seq(Made), allocate(list), itemCalled,
           order' \in [Scenes -> Seq(Made)], UNCHANGED <<made, ended, value, stale>>,
           DOMAIN si' = Scenes,
           \A s \in Scenes : /\ si'[s].known = si[s].known
                             /\ {"items", "itemsOrderCached", "known"} \subseteq DOMAIN si'[s]
    PROVE  ItemsInv'
<1>1. PICK new \in Unnumbered(list) :
         /\ manager' = manager \o new
         /\ refs' = [i \in Items |-> IF i \in Range(new) THEN refs[i] + 1 ELSE refs[i]]
         /\ sid' = sid \o [n \in 1..Len(new) |-> NoEntry]
  BY DEF allocate
<1>2. /\ new \in Seq(Made)
      /\ \A i, j \in DOMAIN new : i # j => new[i] # new[j]
      /\ \A i \in DOMAIN new : ~Managed(manager, new[i])
  BY UnnumberedType DEF ItemsInv
<1>3. new \in Seq(Made \cup {None}) /\ manager \in Seq(Made \cup {None})
  BY <1>2 DEF ItemsInv, ItemTypes
<1>4. /\ OneUid'
      /\ manager' \in Seq(Made \cup {None}) /\ Len(manager') = Len(manager) + Len(new)
      /\ Uids \subseteq Uids'
      /\ \A u \in Uids : manager'[u] = manager[u]
      /\ \A u \in Uids' \ Uids : manager'[u] \in Range(new)
  BY <1>1, <1>2, <1>3, NewNumbers DEF ItemsInv
<1>5. Range(new) \subseteq Made
  BY <1>2 DEF Range
<1>6. /\ sid' \in Seq(Entries) /\ Len(sid') = Len(manager')
      /\ \A u \in Uids : sid'[u] = sid[u]
      /\ \A u \in Uids' \ Uids : sid'[u] = NoEntry
  <2> DEFINE none == [n \in 1..Len(new) |-> NoEntry]
  <2>1. Len(new) \in Nat /\ Len(manager) \in Nat
    BY <1>2, <1>3
  <2>2. none \in Seq(Entries) /\ Len(none) = Len(new)
        /\ \A n \in 1..Len(new) : none[n] = NoEntry
    BY <2>1 DEF Entries
  <2>3. sid \in Seq(Entries) /\ Len(sid) = Len(manager)
    BY DEF ItemsInv, ItemTypes
  <2> HIDE DEF none
  <2>4. sid' = sid \o none
    BY <1>1 DEF none
  <2>5. /\ sid \o none \in Seq(Entries)
        /\ Len(sid \o none) = Len(sid) + Len(none)
        /\ \A i \in 1..Len(sid) : (sid \o none)[i] = sid[i]
        /\ \A i \in Len(sid) + 1..Len(sid) + Len(none) : (sid \o none)[i] = none[i - Len(sid)]
    <3>1. sid \in Seq(Entries) /\ none \in Seq(Entries)
      BY <2>2, <2>3
    <3>. QED
      BY <3>1, ConcatType
  <2>6. /\ sid' \in Seq(Entries) /\ Len(sid') = Len(manager) + Len(new)
        /\ \A u \in 1..Len(manager) : sid'[u] = sid[u]
        /\ \A u \in Len(manager) + 1..Len(manager) + Len(new) : sid'[u] = none[u - Len(manager)]
    BY <2>2, <2>3, <2>4, <2>5, Zenon
  <2>7. ASSUME NEW u \in Uids' \ Uids
        PROVE  sid'[u] = NoEntry
    <3>1. u \in Len(manager) + 1..Len(manager) + Len(new)
      BY <1>4, <2>1 DEF Uids
    <3>2. u - Len(manager) \in 1..Len(new)
      BY <2>1, <3>1
    <3>. QED
      BY <2>2, <2>6, <3>1, <3>2
  <2>. QED
    BY <1>4, <2>6, <2>7 DEF Uids
<1>7. Made' = Made /\ Made \subseteq Items
  BY MadeAreItems DEF Made, ItemsInv
<1>8. /\ refs' \in [Items -> Nat]
      /\ \A i \in Items : refs'[i] >= refs[i]
      /\ \A i \in Range(new) : refs'[i] > 0
  <2>1. refs \in [Items -> Nat]
    BY DEF ItemsInv, ItemTypes
  <2>. QED
    BY <1>1, <1>5, <1>7, <2>1
<1>9. ItemTypes'
  BY <1>4, <1>6, <1>7, <1>8, SceneItemsAssumption DEF ItemsInv, ItemTypes, itemCalled
<1>10. MadeInOrder' /\ UnmadeIsEmpty'
  BY <1>7 DEF ItemsInv, MadeInOrder, UnmadeIsEmpty
<1>11. ASSUME NEW u \in Uids', Live(u)'
       PROVE  refs'[manager'[u]] > 0
  <2>1. CASE u \in Uids
    <3>1. Live(u) /\ manager'[u] = manager[u]
      BY <1>4, <1>11, <2>1 DEF Live
    <3>2. manager[u] \in Items
      BY <2>1, <3>1, ManagedIsMade DEF ItemsInv
    <3>3. refs[manager[u]] > 0
      BY <2>1, <3>1 DEF ItemsInv, ManagedIsAlive
    <3>4. refs[manager[u]] \in Nat /\ refs'[manager[u]] \in Nat
      BY <1>8, <3>2 DEF ItemsInv, ItemTypes
    <3>. QED
      BY <1>8, <3>1, <3>2, <3>3, <3>4
  <2>2. CASE u \notin Uids
    BY <1>4, <1>8, <2>2
  <2>. QED
    BY <2>1, <2>2
<1>12. ASSUME NEW u \in Uids', Live(u)', HasEntry(u)', NEW f \in Fields, Trusted(u, f)'
       PROVE  sid'[u].value[f] = value'[manager'[u]][f]
  <2>1. u \in Uids
    BY <1>6, <1>12 DEF HasEntry, NoEntry
  <2>2. Live(u) /\ HasEntry(u) /\ manager'[u] = manager[u] /\ sid'[u] = sid[u]
    BY <1>4, <1>6, <1>12, <2>1 DEF Live, HasEntry
  <2>3. Trusted(u, f)
    BY <1>12, <2>2 DEF Trusted, Clean
  <2>. QED
    BY <2>1, <2>2, <2>3 DEF ItemsInv, EntriesHonest
<1>. QED
  BY <1>4, <1>9, <1>10, <1>11, <1>12 DEF ItemsInv, ManagedIsAlive, EntriesHonest

LEMMA ListedKnown ==
    ASSUME ItemsInv, NEW s \in Scenes, NEW is, Listed(s, is)
    PROVE  /\ DOMAIN si' = Scenes
           /\ \A t \in Scenes : /\ si'[t].known = si[t].known
                                /\ {"items", "itemsOrderCached", "known"} \subseteq DOMAIN si'[t]
<1> DEFINE info == [si[s] EXCEPT !.items = Pairs(is), !.itemsOrderCached = TRUE]
<1>1. /\ DOMAIN si = Scenes
      /\ \A t \in Scenes : {"items", "itemsOrderCached", "known"} \subseteq DOMAIN si[t]
  BY DEF ItemsInv, ItemTypes
<1>2. si' = [si EXCEPT ![s] = info]
  BY DEF Listed
<1>3. info.known = si[s].known /\ DOMAIN info = DOMAIN si[s]
  BY <1>1
<1> HIDE DEF info
<1>. QED
  BY <1>1, <1>2, <1>3

LEMMA FoundKeeps ==
    ASSUME ItemsInv, NEW i \in Made, found(i), itemCalled,
           UNCHANGED <<order, made, ended, value, si, stale>>
    PROVE  ItemsInv'
<1>1. <<i>> \in Seq(Made) /\ allocate(<<i>>)
  BY DEF found
<1>2. /\ order' \in [Scenes -> Seq(Made)]
      /\ DOMAIN si' = Scenes
      /\ \A s \in Scenes : /\ si'[s].known = si[s].known
                           /\ {"items", "itemsOrderCached", "known"} \subseteq DOMAIN si'[s]
  BY DEF ItemsInv, ItemTypes
<1>. QED
  BY <1>1, <1>2, AllocateKeeps

LEMMA ReorderKeeps ==
    ASSUME ItemsInv, NEW s \in Scenes, NEW new \in Seq(Made), reorder(s, new), itemCalled
    PROVE  ItemsInv'
<1>1. order' \in [Scenes -> Seq(Made)]
  BY DEF reorder, ItemsInv, ItemTypes
<1>2. /\ DOMAIN si' = Scenes
      /\ \A t \in Scenes : /\ si'[t].known = si[t].known
                           /\ {"items", "itemsOrderCached", "known"} \subseteq DOMAIN si'[t]
  <2>1. CASE new = <<>>
    BY <2>1 DEF reorder, ItemsInv, ItemTypes
  <2>2. CASE new # <<>>
    BY <2>2, ListedKnown DEF reorder
  <2>. QED
    BY <2>1, <2>2
<1>. QED
  BY <1>1, <1>2, AllocateKeeps DEF reorder

LEMMA ListCallsKeep ==
    ASSUME ItemsInv, NEW s \in Scenes,
           \/ FindItem(s)
           \/ GetItems(s)
           \/ OrderItems(s)
           \/ \E from, to \in 0..MaxItems - 1 : MoveItem(s, from, to)
           \/ \E index, to \in Items : GetItemAtIndex(s, index) \/ GetItemsInRange(s, index, to)
    PROVE  ItemsInv'
<1>1. order[s] \in Seq(Made) /\ Lists(s) \subseteq Made
  BY DEF ItemsInv, ItemTypes, Lists, Range
<1>2. CASE FindItem(s)
  BY <1>1, <1>2, FoundKeeps DEF FindItem
<1>3. CASE GetItems(s)
  <2>1. order' \in [Scenes -> Seq(Made)]
    BY <1>3 DEF GetItems, ItemsInv, ItemTypes
  <2>2. Listed(s, order[s]) /\ allocate(order[s]) /\ itemCalled
        /\ UNCHANGED <<made, ended, value, stale>>
    BY <1>3 DEF GetItems
  <2>. QED
    BY <1>1, <2>1, <2>2, ListedKnown, AllocateKeeps
<1>4. CASE OrderItems(s)
  <2>1. PICK new \in SetToSeqs(Lists(s)) : reorder(s, new) /\ itemCalled
    BY <1>4 DEF OrderItems
  <2>2. IsFiniteSet(Lists(s))
    <3>1. PICK k \in 0..MaxItems : Made = 1..k
      BY DEF ItemsInv, MadeInOrder
    <3>2. k \in Int /\ 1 \in Int
      BY <3>1, SceneItemsAssumption
    <3>3. IsFiniteSet(Made)
      BY <3>1, <3>2, FS_Interval, Zenon
    <3>. QED
      BY <1>1, <3>3, FS_Subset
  <2>3. new \in Seq(Lists(s))
    BY <2>2, PermutationType
  <2>4. new \in Seq(Made)
    BY <1>1, <2>3
  <2>. QED
    BY <2>1, <2>4, ReorderKeeps
<1>5. CASE \E from, to \in 0..MaxItems - 1 : MoveItem(s, from, to)
  <2>1. PICK from \in 0..MaxItems - 1, to \in 0..MaxItems - 1 : MoveItem(s, from, to)
    BY <1>5
  <2> DEFINE n == Len(order[s])
  <2>2. n \in Nat /\ from \in Nat /\ to \in Nat
    BY <1>1
  <2>3. from < n /\ to < n
    BY <2>1 DEF MoveItem
  <2>4. n - from \in 1..n /\ n - to \in 1..n
    BY <2>2, <2>3
  <2>5. moved(order[s], n - from, n - to) \in Seq(Made)
    BY <1>1, <2>4, MovedType
  <2>6. movedItem(s, from, to) \in Seq(Made)
    BY <2>5 DEF movedItem
  <2>. QED
    BY <2>1, <2>6, ReorderKeeps DEF MoveItem
<1>6. ASSUME NEW index \in Items, NEW to \in Items,
             GetItemAtIndex(s, index) \/ GetItemsInRange(s, index, to)
      PROVE  ItemsInv'
  <2>1. CASE GetItemAtIndex(s, index)
    <3>1. index \in DOMAIN order[s] /\ found(order[s][index])
      BY <2>1 DEF GetItemAtIndex, foundAt
    <3>2. order[s][index] \in Made
      BY <1>1, <3>1
    <3>. QED
      BY <2>1, <3>1, <3>2, FoundKeeps DEF GetItemAtIndex
  <2>2. CASE GetItemsInRange(s, index, to)
    <3>1. inRange(s, index, to) \subseteq Made
      BY <1>1 DEF inRange
    <3>. QED
      BY <2>2, <3>1, FoundKeeps DEF GetItemsInRange
  <2>. QED
    BY <1>6, <2>1, <2>2
<1>. QED
  BY <1>2, <1>3, <1>4, <1>5, <1>6

-----------------------------------------------------------------------------
(* Scene items: order and removal.                                            *)

\* A call that moves or drops items of scenes, or ends a scene, keeps the rest.
LEMMA OrderOnly ==
    ASSUME ItemsInv, itemCalled, order' \in [Scenes -> Seq(Made)], ended' \subseteq Scenes,
           UNCHANGED <<made, value, manager, refs, si, sid, stale>>
    PROVE  ItemsInv'
<1>1. Made' = Made /\ Uids' = Uids /\ \A u \in Uids : Live(u)' = Live(u)
  BY DEF Made, Uids, Live
<1>2. ItemTypes'
  BY <1>1, SceneItemsAssumption DEF ItemsInv, ItemTypes, itemCalled
<1>3. MadeInOrder' /\ UnmadeIsEmpty' /\ OneUid' /\ ManagedIsAlive' /\ EntriesHonest'
  BY <1>1 DEF ItemsInv, MadeInOrder, UnmadeIsEmpty, OneUid, ManagedIsAlive, EntriesHonest,
              HasEntry, Trusted, Clean
<1>. QED
  BY <1>2, <1>3 DEF ItemsInv

LEMMA ArrangeKeeps ==
    ASSUME ItemsInv, NEW u \in Uids, NEW to, arrange(u, to)
    PROVE  ItemsInv'
<1> DEFINE s == HomeOf(manager[u])
           p == Place(u)
           n == Top(u)
<1>1. manager[u] \in Made
  BY ManagedIsMade DEF arrange, ItemsInv
<1>2. \E t \in Scenes : manager[u] \in Range(made[t])
  BY <1>1 DEF Made
<1>3. s \in Scenes
  BY <1>2 DEF HomeOf
<1>4. order[s] \in Seq(Made) /\ n = Len(order[s])
  BY <1>3 DEF ItemsInv, ItemTypes, Top
<1>5. p \in 1..n /\ to \in 1..n
  <2>1. p \in 0..Len(order[s])
    BY <1>4, PlaceOf DEF Place
  <2>2. p # 0 /\ to \in 1..n
    BY DEF arrange
  <2>3. Len(order[s]) \in Nat
    BY <1>4
  <2> HIDE DEF p, s, n
  <2>. QED
    BY <1>4, <2>1, <2>2, <2>3
<1>6. order' = [order EXCEPT ![s] = moved(order[s], p, to)]
  BY DEF arrange
<1> HIDE DEF p, n, s
<1>7. moved(order[s], p, to) \in Seq(Made)
  BY <1>4, <1>5, MovedType
<1>8. order' \in [Scenes -> Seq(Made)]
  BY <1>3, <1>6, <1>7 DEF ItemsInv, ItemTypes
<1>9. /\ itemCalled /\ ended' \subseteq Scenes
      /\ UNCHANGED <<made, value, manager, refs, si, sid, stale>>
  BY DEF arrange, ItemsInv, ItemTypes
<1>. QED
  BY <1>8, <1>9, OrderOnly

LEMMA WithoutType ==
    ASSUME order \in [Scenes -> Seq(Made)], NEW i
    PROVE  Without(i) \in [Scenes -> Seq(Made)]
BY RemoveFirstType DEF Without

LEMMA EndsKeep ==
    ASSUME ItemsInv,
           \/ \E i \in Items : Prune(i)
           \/ \E s \in Scenes : SceneRelease(s)
    PROVE  ItemsInv'
<1>1. CASE \E i \in Items : Prune(i)
  <2>1. PICK i \in Items : Prune(i)
    BY <1>1
  <2>2. order' \in [Scenes -> Seq(Made)]
    BY <2>1, WithoutType DEF Prune, ItemsInv, ItemTypes
  <2>3. ended' \subseteq Scenes /\ itemCalled
        /\ UNCHANGED <<made, value, manager, refs, si, sid, stale>>
    BY <2>1 DEF Prune, ItemsInv, ItemTypes
  <2>. QED
    BY <2>2, <2>3, OrderOnly
<1>2. CASE \E s \in Scenes : SceneRelease(s)
  <2>1. PICK s \in Scenes : SceneRelease(s)
    BY <1>2
  <2>2. order' \in [Scenes -> Seq(Made)] /\ ended' \subseteq Scenes
    BY <2>1 DEF SceneRelease, ItemsInv, ItemTypes
  <2>3. itemCalled /\ UNCHANGED <<made, value, manager, refs, si, sid, stale>>
    BY <2>1 DEF SceneRelease
  <2>. QED
    BY <2>2, <2>3, OrderOnly
<1>. QED
  BY <1>1, <1>2

\* Numbers that are taken back, with the entries of no other item.
LEMMA FewerKeep ==
    ASSUME ItemsInv, itemCalled, order' \in [Scenes -> Seq(Made)], ended' \subseteq Scenes,
           UNCHANGED <<made, value, stale>>,
           manager' \in Seq(Made \cup {None}), Len(manager') = Len(manager),
           \A u \in Uids : manager'[u] = None \/ (manager'[u] = manager[u] /\ sid'[u] = sid[u]),
           refs' \in [Items -> Nat],
           \A u \in Uids : manager'[u] # None => refs'[manager[u]] > 0,
           sid' \in Seq(Entries), Len(sid') = Len(sid),
           DOMAIN si' = Scenes,
           \A s \in Scenes : /\ si'[s].known = si[s].known
                             /\ {"items", "itemsOrderCached", "known"} \subseteq DOMAIN si'[s]
    PROVE  ItemsInv'
<1>1. Made' = Made /\ Uids' = Uids
  BY DEF Made, Uids
<1>2. \A u \in Uids : Live(u)' => Live(u) /\ manager'[u] = manager[u] /\ sid'[u] = sid[u]
                                  /\ refs'[manager[u]] > 0
  BY DEF Live
<1>3. ItemTypes'
  BY <1>1, SceneItemsAssumption DEF ItemsInv, ItemTypes, itemCalled
<1>4. MadeInOrder' /\ UnmadeIsEmpty'
  BY <1>1 DEF ItemsInv, MadeInOrder, UnmadeIsEmpty
<1>5. OneUid' /\ ManagedIsAlive'
  <2>1. ASSUME NEW u \in Uids, NEW w \in Uids, Live(u)', manager'[u] = manager'[w]
        PROVE  u = w
    <3>1. Live(w)' /\ Live(u) /\ manager[u] = manager[w]
      BY <1>2, <2>1 DEF Live
    <3>. QED
      BY <3>1 DEF ItemsInv, OneUid
  <2>2. \A u \in Uids : Live(u)' => refs'[manager'[u]] > 0
    BY <1>2
  <2>. QED
    BY <1>1, <2>1, <2>2 DEF OneUid, ManagedIsAlive
<1>6. ASSUME NEW u \in Uids, Live(u)', HasEntry(u)', NEW f \in Fields, Trusted(u, f)'
      PROVE  sid'[u].value[f] = value[manager'[u]][f]
  <2>1. Live(u) /\ HasEntry(u) /\ Trusted(u, f)
    BY <1>2, <1>6 DEF HasEntry, Trusted, Clean
  <2>. QED
    BY SMTT(30), <1>2, <1>6, <2>1 DEF ItemsInv, EntriesHonest
<1>7. EntriesHonest'
  BY <1>1, <1>6 DEF EntriesHonest
<1>. QED
  BY <1>3, <1>4, <1>5, <1>7 DEF ItemsInv

LEMMA RemoveItemKeeps ==
    ASSUME ItemsInv, NEW u \in Uids, RemoveItem(u)
    PROVE  ItemsInv'
<1>1. /\ Live(u) /\ itemCalled /\ UNCHANGED <<made, ended, value, stale>>
      /\ manager' = [manager EXCEPT ![u] = None]
      /\ order' = Without(manager[u])
      /\ refs' = [refs EXCEPT ![manager[u]] = @ - 1]
      /\ sid' = [sid EXCEPT ![u] = NoEntry]
  BY DEF RemoveItem, removeItem
<1>2. order' \in [Scenes -> Seq(Made)] /\ ended' \subseteq Scenes
  BY <1>1, WithoutType DEF ItemsInv, ItemTypes
<1>3. manager[u] \in Made /\ manager[u] \in Items
  BY <1>1, ManagedIsMade DEF ItemsInv
<1>4. /\ manager' \in Seq(Made \cup {None}) /\ Len(manager') = Len(manager)
      /\ manager'[u] = None
      /\ \A w \in Uids : w # u => manager'[w] = manager[w]
  BY <1>1 DEF ItemsInv, ItemTypes, Uids
<1>5. /\ sid' \in Seq(Entries) /\ Len(sid') = Len(sid)
      /\ \A w \in Uids : w # u => sid'[w] = sid[w]
  BY <1>1 DEF ItemsInv, ItemTypes, Uids, Entries
<1>6. refs[manager[u]] \in Nat /\ refs[manager[u]] > 0 /\ refs \in [Items -> Nat]
  BY <1>1, <1>3 DEF ItemsInv, ItemTypes, ManagedIsAlive
<1>7. refs' \in [Items -> Nat]
  BY <1>1, <1>3, <1>6
<1>8. ASSUME NEW w \in Uids, manager'[w] # None
      PROVE  refs'[manager[w]] > 0
  <2>1. w # u /\ Live(w)
    BY <1>4, <1>8 DEF Live
  <2>2. manager[w] # manager[u] /\ manager[w] \in Items
    BY <2>1, ManagedIsMade DEF ItemsInv, OneUid
  <2>3. refs'[manager[w]] = refs[manager[w]]
    BY <1>1, <1>6, <2>2
  <2>. QED
    BY <2>1, <2>3 DEF ItemsInv, ManagedIsAlive
<1>9. /\ DOMAIN si' = Scenes
      /\ \A s \in Scenes : /\ si'[s].known = si[s].known
                           /\ {"items", "itemsOrderCached", "known"} \subseteq DOMAIN si'[s]
  <2>1. /\ DOMAIN si = Scenes
        /\ \A s \in Scenes : {"items", "itemsOrderCached", "known"} \subseteq DOMAIN si[s]
    BY DEF ItemsInv, ItemTypes
  <2>2. CASE ~HasEntry(u)
    BY <2>1, <2>2 DEF RemoveItem
  <2>3. CASE HasEntry(u)
    <3> DEFINE h == HomeOf(manager[u])
               info == [si[h] EXCEPT !.itemsOrderCached = FALSE]
    <3>1. si' = [si EXCEPT ![h] = info]
      BY <2>3 DEF RemoveItem
    <3>2. h \in Scenes
      BY <1>3 DEF HomeOf, Made
    <3>3. info.known = si[h].known /\ DOMAIN info = DOMAIN si[h]
      BY <2>1, <3>2
    <3> HIDE DEF info, h
    <3>. QED
      BY <2>1, <3>1, <3>2, <3>3
  <2>. QED
    BY <2>2, <2>3
<1>10. \A w \in Uids : manager'[w] = None \/ (manager'[w] = manager[w] /\ sid'[w] = sid[w])
  <2>1. \A w \in Uids : w # u => manager'[w] = manager[w]
    BY <1>4
  <2>2. \A w \in Uids : w # u => sid'[w] = sid[w]
    BY <1>5
  <2>3. manager'[u] = None
    BY <1>4
  <2>. QED
    BY <2>1, <2>2, <2>3, Zenon
<1>. QED
  BY <1>1, <1>2, <1>4, <1>5, <1>7, <1>8, <1>9, <1>10, FewerKeep

LEMMA SceneRemoveKeeps ==
    ASSUME ItemsInv, NEW s \in Scenes, SceneRemove(s)
    PROVE  ItemsInv'
<1>1. /\ itemCalled /\ UNCHANGED <<made, value, refs, si, sid, stale>>
      /\ order' = [order EXCEPT ![s] = <<>>]
      /\ manager' = [u \in Uids |-> IF manager[u] \in Lists(s) THEN None ELSE manager[u]]
      /\ ended' = ended \cup {s}
  BY DEF SceneRemove
<1>2. order' \in [Scenes -> Seq(Made)] /\ ended' \subseteq Scenes
  BY <1>1 DEF ItemsInv, ItemTypes
<1>3. manager \in Seq(Made \cup {None}) /\ Len(manager) \in Nat
  BY DEF ItemsInv, ItemTypes
<1>4. /\ manager' \in [1..Len(manager) -> Made \cup {None}]
      /\ \A u \in Uids : manager'[u] = None \/ manager'[u] = manager[u]
  BY <1>1, <1>3 DEF Uids
<1>5. manager' \in Seq(Made \cup {None}) /\ Len(manager') = Len(manager)
  BY <1>3, <1>4
<1>6. \A u \in Uids : manager'[u] # None => refs'[manager[u]] > 0
  BY <1>1, <1>4 DEF ItemsInv, ManagedIsAlive, Live
<1>7. /\ refs' \in [Items -> Nat]
      /\ sid' \in Seq(Entries) /\ Len(sid') = Len(sid)
      /\ DOMAIN si' = Scenes
      /\ \A t \in Scenes : /\ si'[t].known = si[t].known
                           /\ {"items", "itemsOrderCached", "known"} \subseteq DOMAIN si'[t]
  BY <1>1 DEF ItemsInv, ItemTypes
<1>. QED
  BY <1>1, <1>2, <1>4, <1>5, <1>6, <1>7, FewerKeep

-----------------------------------------------------------------------------
(* Scene items: scenes and items are made.                                    *)
LEMMA CreateKeeps ==
    ASSUME ItemsInv, NEW s \in Scenes, Create(s)
    PROVE  ItemsInv'
<1>1. /\ itemCalled /\ si' = [si EXCEPT ![s] = NewInfo]
      /\ UNCHANGED <<order, made, ended, value, manager, refs, sid, stale>>
  BY DEF Create, server
<1>2. Made' = Made /\ Uids' = Uids /\ \A u \in Uids : Live(u)' = Live(u)
  BY <1>1 DEF Made, Uids, Live
<1>3. /\ DOMAIN si' = Scenes
      /\ \A t \in Scenes : si'[t].known \in BOOLEAN
                           /\ {"items", "itemsOrderCached", "known"} \subseteq DOMAIN si'[t]
  BY <1>1 DEF ItemsInv, ItemTypes, NewInfo
<1>4. ItemTypes'
  BY <1>1, <1>2, <1>3, SceneItemsAssumption DEF ItemsInv, ItemTypes, itemCalled
<1>5. UnmadeIsEmpty'
  BY <1>1 DEF ItemsInv, ItemTypes, UnmadeIsEmpty, NewInfo
<1>6. MadeInOrder' /\ OneUid' /\ ManagedIsAlive' /\ EntriesHonest'
  BY <1>1, <1>2 DEF ItemsInv, MadeInOrder, OneUid, ManagedIsAlive, EntriesHonest, HasEntry,
                    Trusted, Clean
<1>. QED
  BY <1>4, <1>5, <1>6 DEF ItemsInv

LEMMA NextItemIsNew ==
    ASSUME MadeInOrder
    PROVE  \E k \in 0..MaxItems : Made = 1..k /\ NextItem = k + 1
<1>1. PICK k \in 0..MaxItems : Made = 1..k
  BY DEF MadeInOrder
<1>2. k \in Nat
  BY <1>1, SceneItemsAssumption
<1>3. 1 \in Int /\ k \in Int /\ 1 <= k + 1
  BY <1>2
<1>4. Cardinality(1..k) = IF 1 > k THEN 0 ELSE k - 1 + 1
  BY ONLY <1>3, FS_Interval
<1>5. Cardinality(1..k) = k
  BY <1>2, <1>4
<1>. QED
  BY <1>1, <1>5 DEF NextItem

LEMMA SeqMonotone ==
    ASSUME NEW S, NEW T, S \subseteq T, NEW s \in Seq(S)
    PROVE  s \in Seq(T)
OBVIOUS

LEMMA DuplicateKeeps ==
    ASSUME ItemsInv, NEW s \in Scenes, NEW copy \in Scenes, Duplicate(s, copy)
    PROVE  ItemsInv'
<1> DEFINE m == Len(order[s])
           new == [n \in DOMAIN order[s] |-> NextItem + n - 1]
<1>1. /\ itemCalled /\ ~si[copy].known
      /\ UNCHANGED <<ended, manager, refs, sid, stale>>
      /\ si' = [si EXCEPT ![copy] = NewInfo]
      /\ Range(new) \subseteq Items
      /\ order' = [order EXCEPT ![copy] = new]
      /\ made' = [made EXCEPT ![copy] = new]
      /\ value' = [i \in Items |-> IF i \in Range(new) THEN value[order[s][i - NextItem + 1]]
                                                       ELSE value[i]]
  BY DEF Duplicate, copyItems
<1>2. PICK k \in 0..MaxItems : Made = 1..k /\ NextItem = k + 1
  BY NextItemIsNew DEF ItemsInv
<1>3. k \in Nat /\ m \in Nat /\ MaxItems \in Nat
  BY <1>2, SceneItemsAssumption DEF ItemsInv, ItemTypes
<1>4. order[s] \in Seq(Made) /\ DOMAIN order[s] = 1..m
  BY DEF ItemsInv, ItemTypes
<1> HIDE DEF m
<1>5. new = [n \in 1..m |-> k + n]
  <2>1. \A n \in 1..m : NextItem + n - 1 = k + n
    BY <1>2, <1>3
  <2>. QED
    BY <1>4, <2>1
<1> HIDE DEF new
<1>6. Range(new) = k + 1..k + m
  <2>1. Range(new) = {k + n : n \in 1..m}
    BY <1>5 DEF Range
  <2>2. ASSUME NEW i \in k + 1..k + m
        PROVE  i \in {k + n : n \in 1..m}
    <3>1. i - k \in 1..m /\ k + (i - k) = i
      BY <1>3
    <3>. QED
      BY <3>1
  <2>3. \A n \in 1..m : k + n \in k + 1..k + m
    BY <1>3
  <2>. QED
    BY <2>1, <2>2, <2>3
<1>7. k + m \in 0..MaxItems
  <2>1. CASE m = 0
    BY <1>2, <1>3, <2>1
  <2>2. CASE m # 0
    <3>1. k + m \in Range(new)
      BY <1>3, <1>6, <2>2
    <3>. QED
      BY <1>1, <1>3, <3>1 DEF Items
  <2>. QED
    BY <2>1, <2>2
<1>8. Made' = 1..k + m
  <2>1. made \in [Scenes -> Seq(Items)] /\ made[copy] = <<>>
    BY <1>1 DEF ItemsInv, ItemTypes, UnmadeIsEmpty
  <2>2. Range(made[copy]) = {}
    BY <2>1 DEF Range
  <2>3. made'[copy] = new /\ \A t \in Scenes : t # copy => made'[t] = made[t]
    BY <1>1, <2>1
  <2>4. \A i : i \in Made' <=> i \in Made \/ i \in Range(new)
    BY <2>2, <2>3 DEF Made
  <2>5. \A i : (i \in 1..k \/ i \in k + 1..k + m) <=> i \in 1..k + m
    BY <1>3
  <2>. QED
    BY <1>2, <1>6, <2>4, <2>5
<1>9. Made \subseteq Made' /\ Range(new) \subseteq Made'
  BY <1>2, <1>3, <1>6, <1>8
<1>10. new \in Seq(Items) /\ new \in Seq(Made')
  <2>1. \A n \in 1..m : new[n] \in Range(new)
    BY <1>5 DEF Range
  <2>2. new \in [1..m -> Range(new)]
    BY <1>5, <2>1
  <2>. QED
    BY <1>1, <1>3, <1>9, <2>2
<1>11. value' \in [Items -> [Fields -> Values]]
       /\ \A i \in Items : i \notin Range(new) => value'[i] = value[i]
  <2>1. value \in [Items -> [Fields -> Values]]
    BY DEF ItemsInv, ItemTypes
  <2>2. ASSUME NEW i \in Items, i \in Range(new)
        PROVE  value[order[s][i - NextItem + 1]] \in [Fields -> Values]
    <3>1. i - NextItem + 1 \in 1..m
      BY <1>2, <1>3, <1>6, <2>2
    <3>2. \A j \in 1..m : order[s][j] \in Made
      BY <1>4 DEF m
    <3>3. Made \subseteq Items
      BY MadeAreItems DEF ItemsInv
    <3>. QED
      BY <2>1, <3>1, <3>2, <3>3
  <2>. QED
    BY <1>1, <2>1, <2>2
<1>12. /\ DOMAIN si' = Scenes
       /\ \A t \in Scenes : /\ si'[t].known \in BOOLEAN
                            /\ {"items", "itemsOrderCached", "known"} \subseteq DOMAIN si'[t]
       /\ si'[copy].known /\ \A t \in Scenes : t # copy => si'[t] = si[t]
  BY <1>1 DEF ItemsInv, ItemTypes, NewInfo
<1>13. order' \in [Scenes -> Seq(Made')]
  <2>1. \A t \in Scenes : order[t] \in Seq(Made')
    BY <1>9, SeqMonotone DEF ItemsInv, ItemTypes
  <2>. QED
    BY <1>1, <1>10, <2>1 DEF ItemsInv, ItemTypes
<1>14. made' \in [Scenes -> Seq(Items)]
  BY <1>1, <1>10 DEF ItemsInv, ItemTypes
<1>15. manager' \in Seq(Made' \cup {None})
  <2>1. Made \cup {None} \subseteq Made' \cup {None} /\ manager \in Seq(Made \cup {None})
    BY <1>9 DEF ItemsInv, ItemTypes
  <2>. QED
    BY <1>1, <2>1, SeqMonotone
<1>16. ItemTypes'
  BY <1>1, <1>11, <1>12, <1>13, <1>14, <1>15, SceneItemsAssumption
  DEF ItemsInv, ItemTypes, itemCalled
<1>17. MadeInOrder'
  BY <1>7, <1>8 DEF MadeInOrder
<1>18. UnmadeIsEmpty'
  <2>1. ASSUME NEW t \in Scenes, ~si'[t].known
        PROVE  made'[t] = <<>>
    <3>1. t # copy /\ si'[t] = si[t]
      BY <1>12, <2>1
    <3>2. made'[t] = made[t]
      BY <1>1, <3>1 DEF ItemsInv, ItemTypes
    <3>. QED
      BY <2>1, <3>1, <3>2 DEF ItemsInv, UnmadeIsEmpty
  <2>. QED
    BY <2>1 DEF UnmadeIsEmpty
<1>19. Uids' = Uids /\ \A u \in Uids : Live(u)' = Live(u)
  BY <1>1 DEF Uids, Live
<1>20. OneUid' /\ ManagedIsAlive'
  BY <1>1, <1>19 DEF ItemsInv, OneUid, ManagedIsAlive
<1>21. ASSUME NEW u \in Uids, Live(u), HasEntry(u), NEW f \in Fields, Trusted(u, f)
       PROVE  sid[u].value[f] = value'[manager[u]][f]
  <2>1. manager[u] \in Made /\ manager[u] \in Items
    BY <1>21, ManagedIsMade DEF ItemsInv
  <2>2. manager[u] \notin Range(new)
    BY <1>2, <1>3, <1>6, <2>1
  <2>. QED
    BY <1>11, <1>21, <2>1, <2>2 DEF ItemsInv, EntriesHonest
<1>22. EntriesHonest'
  BY <1>1, <1>19, <1>21 DEF EntriesHonest, HasEntry, Trusted, Clean
<1>. QED
  BY <1>16, <1>17, <1>18, <1>20, <1>22 DEF ItemsInv

\* A source that is added has a number, a reference and an entry that says what
\* libobs has, but for a crop that libobs may have fitted.
LEMMA AddSourceKeeps ==
    ASSUME ItemsInv, NEW s \in Scenes, AddSource(s)
    PROVE  ItemsInv'
<1>1. PICK transform \in BOOLEAN, v \in Values : addSource(s, v, transform)
  BY DEF AddSource
<1> DEFINE item == NextItem
           fresh == newEntry(v, transform)
<1>2. PICK crop \in (IF transform THEN Values ELSE {0}) :
         value' = [value EXCEPT ![item] = [fresh.value EXCEPT !["crop"] = crop]]
  BY <1>1 DEF addSource
<1>3. /\ itemCalled /\ UNCHANGED <<ended, stale>> /\ Exists(s) /\ item <= MaxItems
      /\ order' = [order EXCEPT ![s] = Append(order[s], item)]
      /\ made' = [made EXCEPT ![s] = Append(made[s], item)]
      /\ manager' = Append(manager, item)
      /\ refs' = [refs EXCEPT ![item] = refs[item] + 1]
      /\ sid' = Append(sid, fresh)
  BY <1>1 DEF AddSource, addSource
<1>4. PICK k \in 0..MaxItems : Made = 1..k /\ item = k + 1
  BY NextItemIsNew DEF ItemsInv
<1>5. k \in Nat /\ MaxItems \in Nat /\ k + 1 \in 0..MaxItems /\ item \in Items /\ item \notin Made
  BY <1>3, <1>4, SceneItemsAssumption DEF Items
<1>6. /\ fresh.value \in [Fields -> Values] /\ fresh.changed \in SUBSET Fields
      /\ "crop" \in fresh.changed /\ "crop" \in Fields
      /\ fresh \in Entries
  <2>1. "crop" \in Fields /\ "crop" # "selected"
    BY DEF Fields, Absolute
  <2>2. fresh.value \in [Fields -> Values]
    BY SceneItemsAssumption DEF newEntry
  <2>3. fresh.changed \in SUBSET Fields /\ "crop" \in fresh.changed
    BY <2>1 DEF newEntry
  <2> DEFINE no == FALSE
  <2>4. no \in BOOLEAN
    OBVIOUS
  <2>5. fresh = [known |-> TRUE, cached |-> no, value |-> fresh.value, changed |-> fresh.changed]
    BY DEF newEntry
  <2> HIDE DEF no, fresh
  <2>6. fresh \in Entries
    BY <2>2, <2>3, <2>4, <2>5, EntryMade
  <2>. QED
    BY <2>1, <2>2, <2>3, <2>6
<1>7. crop \in Values
  BY SceneItemsAssumption
<1> HIDE DEF item, fresh
<1>8. /\ value' \in [Items -> [Fields -> Values]]
      /\ \A i \in Items : i # item => value'[i] = value[i]
      /\ \A f \in Fields : f # "crop" => value'[item][f] = fresh.value[f]
  <2>1. value \in [Items -> [Fields -> Values]]
    BY DEF ItemsInv, ItemTypes
  <2>2. [fresh.value EXCEPT !["crop"] = crop] \in [Fields -> Values]
    BY <1>6, <1>7
  <2>3. \A f \in Fields : f # "crop" => [fresh.value EXCEPT !["crop"] = crop][f] = fresh.value[f]
    BY <1>6
  <2>. QED
    BY <1>2, <1>5, <2>1, <2>2, <2>3
<1>9. Made' = Made \cup {item}
  <2>1. made \in [Scenes -> Seq(Items)]
    BY DEF ItemsInv, ItemTypes
  <2>2. Range(Append(made[s], item)) = Range(made[s]) \cup {item}
    <3>1. made[s] \in Seq(Items) /\ Len(made[s]) \in Nat
      BY <2>1
    <3>2. DOMAIN Append(made[s], item) = 1..Len(made[s]) + 1
      BY <1>5, <3>1
    <3>3. Append(made[s], item)[Len(made[s]) + 1] = item
      BY <1>5, <3>1
    <3>4. \A i \in 1..Len(made[s]) : Append(made[s], item)[i] = made[s][i]
      BY <1>5, <3>1
    <3>5. \A i \in 1..Len(made[s]) + 1 : i \in 1..Len(made[s]) \/ i = Len(made[s]) + 1
      BY <3>1
    <3>6. Len(made[s]) + 1 \in 1..Len(made[s]) + 1 /\ 1..Len(made[s]) \subseteq 1..Len(made[s]) + 1
      BY <3>1
    <3>. QED
      BY <3>1, <3>2, <3>3, <3>4, <3>5, <3>6 DEF Range
  <2>3. made'[s] = Append(made[s], item) /\ \A t \in Scenes : t # s => made'[t] = made[t]
    BY <1>3, <2>1
  <2>. QED
    BY <2>2, <2>3 DEF Made
<1>10. Made' = 1..k + 1 /\ MadeInOrder'
  <2>1. 1..k + 1 = 1..k \cup {k + 1}
    BY <1>5
  <2>. QED
    BY <1>4, <1>5, <1>9, <2>1 DEF MadeInOrder
<1>11. manager \in Seq(Made' \cup {None}) /\ \A t \in Scenes : order[t] \in Seq(Made')
  <2>1. Made \cup {None} \subseteq Made' \cup {None} /\ Made \subseteq Made'
    BY <1>9
  <2>. QED
    BY <2>1, SeqMonotone DEF ItemsInv, ItemTypes
<1>12. /\ manager' \in Seq(Made' \cup {None}) /\ Len(manager') = Len(manager) + 1
       /\ \A u \in Uids : manager'[u] = manager[u]
       /\ manager'[Len(manager) + 1] = item
       /\ Uids' = Uids \cup {Len(manager) + 1} /\ Len(manager) + 1 \notin Uids
  <2>1. Len(manager) \in Nat /\ item \in Made' \cup {None}
    BY <1>9, <1>11
  <2>2. /\ manager' \in Seq(Made' \cup {None}) /\ Len(manager') = Len(manager) + 1
        /\ \A u \in 1..Len(manager) : manager'[u] = manager[u]
        /\ manager'[Len(manager) + 1] = item
    BY <1>3, <1>11, <2>1
  <2>3. 1..Len(manager) + 1 = 1..Len(manager) \cup {Len(manager) + 1}
    BY <2>1
  <2>4. Len(manager) + 1 \notin 1..Len(manager)
    BY <2>1
  <2>. QED
    BY <2>2, <2>3, <2>4 DEF Uids
<1>13. /\ sid' \in Seq(Entries) /\ Len(sid') = Len(manager')
       /\ \A u \in Uids : sid'[u] = sid[u]
       /\ sid'[Len(manager) + 1] = fresh
  <2>1. sid \in Seq(Entries) /\ Len(sid) = Len(manager)
    BY DEF ItemsInv, ItemTypes
  <2>. QED
    BY <1>3, <1>6, <1>12, <2>1 DEF Uids
<1>14. /\ refs' \in [Items -> Nat] /\ refs'[item] > 0
       /\ \A i \in Items : i # item => refs'[i] = refs[i]
  BY <1>3, <1>5 DEF ItemsInv, ItemTypes
<1>15. /\ DOMAIN si' = Scenes
       /\ \A t \in Scenes : /\ si'[t].known = si[t].known
                            /\ {"items", "itemsOrderCached", "known"} \subseteq DOMAIN si'[t]
  <2> DEFINE info == [si[s] EXCEPT !.items = Append(@, <<Len(made[s]) + 1, Len(manager) + 1>>),
                                   !.itemsOrderCached = TRUE]
  <2>1. /\ DOMAIN si = Scenes
        /\ \A t \in Scenes : {"items", "itemsOrderCached", "known"} \subseteq DOMAIN si[t]
    BY DEF ItemsInv, ItemTypes
  <2>2. si' = [si EXCEPT ![s] = info]
    BY DEF AddSource
  <2>3. info.known = si[s].known /\ DOMAIN info = DOMAIN si[s]
    BY <2>1
  <2> HIDE DEF info
  <2>. QED
    BY <2>1, <2>2, <2>3
<1>16. order' \in [Scenes -> Seq(Made')] /\ made' \in [Scenes -> Seq(Items)]
  <2>1. order \in [Scenes -> Seq(Made')]
    BY <1>11 DEF ItemsInv, ItemTypes
  <2>2. Append(order[s], item) \in Seq(Made')
    BY <1>9, <1>11
  <2>3. made \in [Scenes -> Seq(Items)]
    BY DEF ItemsInv, ItemTypes
  <2>4. Append(made[s], item) \in Seq(Items)
    BY <1>5, <2>3
  <2>5. order' \in [Scenes -> Seq(Made')]
    BY <1>3, <2>1, <2>2
  <2>6. made' \in [Scenes -> Seq(Items)]
    BY <1>3, <2>3, <2>4
  <2>. QED
    BY <2>5, <2>6
<1>17. ItemTypes'
  BY <1>3, <1>8, <1>12, <1>13, <1>14, <1>15, <1>16, SceneItemsAssumption
  DEF ItemsInv, ItemTypes, itemCalled
<1>18. UnmadeIsEmpty'
  <2>1. ASSUME NEW t \in Scenes, ~si'[t].known
        PROVE  made'[t] = <<>>
    <3>1. ~si[t].known
      BY <1>15, <2>1
    <3>2. t # s
      BY <1>3, <3>1 DEF Exists
    <3>3. made'[t] = made[t]
      BY <1>3, <3>2 DEF ItemsInv, ItemTypes
    <3>. QED
      BY <3>1, <3>3 DEF ItemsInv, UnmadeIsEmpty
  <2>. QED
    BY <2>1 DEF UnmadeIsEmpty
<1>19. \A u \in Uids : Live(u) => manager[u] \in Made /\ manager[u] \in Items /\ manager[u] # item
  BY <1>5, ManagedIsMade DEF ItemsInv
<1>20. OneUid'
  <2>1. ASSUME NEW u \in Uids', NEW w \in Uids', Live(u)', manager'[u] = manager'[w]
        PROVE  u = w
    <3>1. CASE u \in Uids /\ w \in Uids
      BY <1>12, <2>1, <3>1 DEF ItemsInv, OneUid, Live
    <3>2. CASE u \notin Uids /\ w \in Uids
      <4>1. manager'[u] = item /\ manager[w] = item
        BY <1>12, <2>1, <3>2
      <4>2. Live(w)
        BY <2>1, <4>1 DEF Live
      <4>. QED
        BY <1>19, <3>2, <4>1, <4>2
    <3>3. CASE u \in Uids /\ w \notin Uids
      <4>1. manager'[u] = manager[u] /\ manager[u] = item
        BY <1>12, <2>1, <3>3
      <4>2. Live(u)
        BY <2>1, <4>1 DEF Live
      <4>. QED
        BY <1>19, <3>3, <4>1, <4>2
    <3>4. CASE u \notin Uids /\ w \notin Uids
      BY <1>12, <2>1, <3>4
    <3>. QED
      BY <3>1, <3>2, <3>3, <3>4
  <2>. QED
    BY <2>1 DEF OneUid
<1>21. ManagedIsAlive'
  <2>1. ASSUME NEW u \in Uids', Live(u)'
        PROVE  refs'[manager'[u]] > 0
    <3>1. CASE u \notin Uids
      BY <1>12, <1>14, <2>1, <3>1
    <3>2. CASE u \in Uids
      <4>1. Live(u) /\ manager'[u] = manager[u]
        BY <1>12, <2>1, <3>2 DEF Live
      <4>2. refs'[manager[u]] = refs[manager[u]]
        BY <1>14, <1>19, <3>2, <4>1
      <4>. QED
        BY <3>2, <4>1, <4>2 DEF ItemsInv, ManagedIsAlive
    <3>. QED
      BY <3>1, <3>2
  <2>. QED
    BY <2>1 DEF ManagedIsAlive
<1>22. ASSUME NEW u \in Uids', Live(u)', HasEntry(u)', NEW f \in Fields, Trusted(u, f)'
       PROVE  sid'[u].value[f] = value'[manager'[u]][f]
  <2>1. CASE u \notin Uids
    <3>1. sid'[u] = fresh /\ manager'[u] = item
      BY <1>12, <1>13, <1>22, <2>1
    <3>2. f # "crop"
      <4>1. "crop" \in Absolute
        BY DEF Absolute
      <4>. QED
        BY <1>6, <1>22, <3>1, <4>1 DEF Trusted, Clean
    <3>. QED
      BY <1>8, <3>1, <3>2
  <2>2. CASE u \in Uids
    <3>1. Live(u) /\ manager'[u] = manager[u] /\ sid'[u] = sid[u]
      BY <1>12, <1>13, <1>22, <2>2 DEF Live
    <3>2. HasEntry(u) /\ Trusted(u, f)
      BY <1>3, <1>22, <3>1 DEF HasEntry, Trusted, Clean
    <3>3. value'[manager[u]] = value[manager[u]]
      BY <1>8, <1>19, <2>2, <3>1
    <3>. QED
      BY <2>2, <3>1, <3>2, <3>3 DEF ItemsInv, EntriesHonest
  <2>. QED
    BY <2>1, <2>2
<1>23. EntriesHonest'
  BY <1>22 DEF EntriesHonest
<1>. QED
  BY <1>10, <1>17, <1>18, <1>20, <1>21, <1>23 DEF ItemsInv

-----------------------------------------------------------------------------
(* Scene items: every call, and the theorems.                                 *)
LEMMA ReadsKeep ==
    ASSUME ItemsInv, NEW u \in Uids, Reads(u)
    PROVE  ItemsInv'
<1>1. \E f \in Fields : Get(u, f)
  BY DEF Reads, IsVisible, IsSelected, IsStreamVisible, IsRecordingVisible, GetPosition,
         GetRotation, GetScale, GetScaleFilter, GetCrop, GetBlendingMethod, GetBlendingMode,
         Fields, Flags, Absolute
<1>. QED
  BY <1>1, GetKeeps

LEMMA WritesKeep ==
    ASSUME ItemsInv, NEW u \in Uids, NEW v \in Values, Writes(u, v)
    PROVE  ItemsInv'
<1>1. HasEntry(u) => sid[u].changed \subseteq Fields
  BY EntryType DEF ItemsInv, ItemTypes
<1>2. ASSUME NEW f \in Fields, SetAndTrust(u, f, v)
      PROVE  ItemsInv'
  <2>1. HasEntry(u) => sid[u].changed \ {f} \subseteq Fields
    BY <1>1
  <2>. QED
    BY <1>2, <2>1, SetKeeps DEF SetAndTrust
<1>3. ASSUME NEW f \in Fields, Set(u, f, v, sid[u].changed)
      PROVE  ItemsInv'
  <2>1. sid[u].changed \ {f} \subseteq sid[u].changed
    OBVIOUS
  <2>. QED
    BY <1>1, <1>3, <2>1, SetKeeps
<1>4. \/ \E f \in Fields : SetAndTrust(u, f, v)
      \/ \E f \in Fields : Set(u, f, v, sid[u].changed)
      \/ \E f \in Flags : SetFlag(u, f, v)
      \/ SetCrop(u, v)
  BY DEF Writes, SetVisible, SetSelected, SetStreamVisible, SetRecordingVisible, SetPosition,
         SetRotation, SetScale, SetScaleFilter, SetBlendingMethod, SetBlendingMode, Fields,
         Flags, Absolute
<1>. QED
  BY <1>2, <1>3, <1>4, SetFlagKeeps, SetCropKeeps

LEMMA ItemsStep ==
    ASSUME ItemsInv, ItemsNext
    PROVE  ItemsInv'
<1>1. ASSUME NEW u \in Uids, Arranges(u)
      PROVE  ItemsInv'
  <2>1. \E to : arrange(u, to)
    BY <1>1 DEF Arranges, MoveUp, MoveDown, MoveTop, MoveBottom, Move
  <2>. QED
    BY <2>1, ArrangeKeeps
<1>2. CASE \E u \in Uids :
             \/ Reads(u) \/ SetCanvas(u) \/ SetTransformInfo(u) \/ Arranges(u) \/ RemoveItem(u)
             \/ \E v \in Values : Writes(u, v)
  BY <1>1, <1>2, ReadsKeep, WritesKeep, CanvasKeeps, RemoveItemKeeps
<1>3. CASE ResetCanvas \/ InvalidateItemTransformCache
  BY <1>3, ResetCanvasKeeps, InvalidateKeeps
<1>4. CASE \E s \in Scenes :
             \/ Create(s) \/ AddSource(s) \/ FindItem(s) \/ GetItems(s)
             \/ OrderItems(s) \/ SceneRemove(s) \/ SceneRelease(s)
             \/ \E from, to \in 0..MaxItems - 1 : MoveItem(s, from, to)
             \/ \E index, to \in Items : GetItemAtIndex(s, index) \/ GetItemsInRange(s, index, to)
             \/ \E copy \in Scenes : Duplicate(s, copy)
  <2>1. PICK s \in Scenes :
             \/ Create(s) \/ AddSource(s) \/ FindItem(s) \/ GetItems(s)
             \/ OrderItems(s) \/ SceneRemove(s) \/ SceneRelease(s)
             \/ \E from, to \in 0..MaxItems - 1 : MoveItem(s, from, to)
             \/ \E index, to \in Items : GetItemAtIndex(s, index) \/ GetItemsInRange(s, index, to)
             \/ \E copy \in Scenes : Duplicate(s, copy)
    BY <1>4
  <2>2. CASE Create(s) \/ AddSource(s) \/ SceneRemove(s) \/ SceneRelease(s)
    BY <2>2, CreateKeeps, AddSourceKeeps, SceneRemoveKeeps, EndsKeep
  <2>3. CASE \E copy \in Scenes : Duplicate(s, copy)
    BY <2>3, DuplicateKeeps
  <2>4. CASE \/ FindItem(s) \/ GetItems(s) \/ OrderItems(s)
             \/ \E from, to \in 0..MaxItems - 1 : MoveItem(s, from, to)
             \/ \E index, to \in Items : GetItemAtIndex(s, index) \/ GetItemsInRange(s, index, to)
    BY <2>4, ListCallsKeep
  <2>. QED
    BY <2>1, <2>2, <2>3, <2>4
<1>5. CASE \E i \in Items : Prune(i)
  BY <1>5, EndsKeep
<1>. QED
  BY <1>2, <1>3, <1>4, <1>5 DEF ItemsNext

LEMMA ItemsInitially == ItemsInit => ItemsInv
<1> SUFFICES ASSUME ItemsInit PROVE ItemsInv
  OBVIOUS
<1>1. Made = {}
  BY DEF ItemsInit, Made, Range
<1>2. Made = 1..0 /\ 0 \in 0..MaxItems
  BY <1>1, SceneItemsAssumption
<1>3. manager = <<>> /\ Uids = {}
  BY DEF ItemsInit, Uids
<1>4. ItemTypes
  <2>1. value \in [Items -> [Fields -> Values]]
    BY SceneItemsAssumption DEF ItemsInit, Defaults
  <2>2. \A s \in Scenes : si[s].known \in BOOLEAN
                          /\ {"items", "itemsOrderCached", "known"} \subseteq DOMAIN si[s]
    BY DEF ItemsInit, NoInfo
  <2>3. stale \in BOOLEAN
    BY Zenon DEF ItemsInit
  <2>. QED
    BY <1>3, <2>1, <2>2, <2>3, SceneItemsAssumption DEF ItemsInit, ItemTypes
<1>. QED
  BY <1>2, <1>3, <1>4
  DEF ItemsInit, ItemsInv, MadeInOrder, UnmadeIsEmpty, OneUid, ManagedIsAlive, EntriesHonest

LEMMA ItemsInvariant == ItemsSpec => []ItemsInv
<1>1. ItemsInv /\ [ItemsNext]_itemVars => ItemsInv'
  <2>1. CASE ItemsInv /\ ItemsNext
    BY <2>1, ItemsStep
  <2>2. CASE ItemsInv /\ UNCHANGED itemVars
    <3>1. UNCHANGED <<order, made, ended, value, manager, refs, si, sid, stale, itemCalls>>
      BY <2>2 DEF itemVars, server
    <3>2. Made' = Made /\ Uids' = Uids /\ \A u \in Uids : Live(u)' = Live(u)
      BY <3>1 DEF Made, Uids, Live
    <3>. QED
      BY <2>2, <3>1, <3>2 DEF ItemsInv, ItemTypes, MadeInOrder, UnmadeIsEmpty, OneUid,
         ManagedIsAlive, EntriesHonest, HasEntry, Trusted, Clean
  <2>. QED
    BY <2>1, <2>2
<1>. QED
  BY <1>1, ItemsInitially, PTL DEF ItemsSpec

\* The scenes, items, numbers and entries have their types whatever is called.
THEOREM ItemsTypes == ItemsSpec => []ItemsTypeOK
<1>1. ItemsInv => ItemsTypeOK
  <2> SUFFICES ASSUME ItemsInv PROVE ItemsTypeOK
    OBVIOUS
  <2>1. Made \subseteq Items /\ Made \cup {None} \subseteq Items \cup {None}
    BY MadeAreItems DEF ItemsInv
  <2>2. \A s \in Scenes : order[s] \in Seq(Items)
    BY <2>1, SeqMonotone DEF ItemsInv, ItemTypes
  <2>3. manager \in Seq(Items \cup {None})
    BY <2>1, SeqMonotone DEF ItemsInv, ItemTypes
  <2>. QED
    BY <2>2, <2>3 DEF ItemsInv, ItemTypes, ItemsTypeOK
<1>. QED
  BY <1>1, ItemsInvariant, PTL

\* The server refers to each item that it may be asked for, for any number of
\* scenes and items and any order of calls (osn-sceneitem.cpp, osn-scene.cpp).
THEOREM ItemsAreAlive == ItemsSpec => []ManagedIsAlive
<1>1. ItemsInv => ManagedIsAlive
  BY DEF ItemsInv
<1>. QED
  BY <1>1, ItemsInvariant, PTL

\* A getter answers, and a setter returns without a call, only when the entry
\* says what libobs has (sceneitem.cpp, scene.cpp of the client).
THEOREM EntriesOfItemsHonest == ItemsSpec => []CacheIsHonest
<1>1. ItemsInv => CacheIsHonest
  <2> SUFFICES ASSUME ItemsInv PROVE CacheIsHonest
    OBVIOUS
  <2>1. AnswersTrue
    <3>1. SUFFICES ASSUME ~stale, NEW u \in Uids, Live(u), HasEntry(u), NEW f \in Fields,
                          answered(u, f)
                   PROVE  sid[u].value[f] = value[manager[u]][f]
      BY DEF AnswersTrue
    <3>2. CASE f \in Absolute \cup {"rotation"}
      <4>1. f # "scaleFilter" /\ f # "selected"
        BY <3>2 DEF Absolute
      <4>2. Trusted(u, f)
        BY <3>1, <4>1 DEF answered, Trusted
      <4>. QED
        BY <3>1, <4>2 DEF ItemsInv, EntriesHonest
    <3>3. CASE f \notin Absolute \cup {"rotation"}
      BY <3>1, <3>3 DEF ItemsInv, EntriesHonest, Trusted
    <3>. QED
      BY <3>2, <3>3
  <2>2. NoLostWrite
    <3>1. SUFFICES ASSUME ~stale, NEW u \in Uids, Live(u), HasEntry(u),
                          NEW f \in Fields \ {"rotation"}, NEW v \in Values, skipped(u, f, v)
                   PROVE  value[manager[u]][f] = v
      BY DEF NoLostWrite
    <3>2. Trusted(u, f)
      BY <3>1 DEF skipped, Trusted
    <3>. QED
      BY <3>1, <3>2 DEF skipped, ItemsInv, EntriesHonest
  <2>. QED
    BY <2>1, <2>2 DEF CacheIsHonest
<1>. QED
  BY <1>1, ItemsInvariant, PTL

-----------------------------------------------------------------------------
(* SourceRecords.                                                                   *)
AnyValue == {0} \cup SourceValues \cup Names \cup Seq(Numbers)
SourceRecords == [kind : {"input", "filter"}, type : Types, value : [Attributes -> AnyValue]]
SourceEntries == [known : {TRUE}, changed : SUBSET Attributes, value : [Attributes -> AnyValue]] \cup {Forgotten}

SourceTypes ==
    /\ source \in Seq(SourceRecords) /\ Len(source) <= MaxSources
    /\ \A s \in Given : FiltersOf(s) \in Seq(Given)
    /\ own \subseteq Given
    /\ entry \in Seq(SourceEntries) /\ Len(entry) = Len(source)
    /\ byName \in [Names -> Given \cup {NoNumber}]
    /\ removed \subseteq Given
    /\ astray \subseteq Numbers \X Attributes
    /\ sourceCalls \in 0..MaxSourceCalls

\* A name leads to an entry that was made under it; a removed source has none.
NamedIsRemembered ==
    \A n \in Names : byName[n] # NoNumber => Remembered(byName[n]) /\ entry[byName[n]].value["name"] = n
RemovedIsForgotten == \A s \in removed : ~Remembered(s)

\* An attribute that libobs may change on its own is never taken from an entry.
RestlessIsFlagged ==
    \A s \in Given : Remembered(s) =>
        /\ source[s].type \in RestlessProperties => "properties" \in entry[s].changed
        /\ source[s].type \in RestlessSettings /\ <<s, "settings">> \notin astray => "settings" \in entry[s].changed

\* What is answered is true, of a source that is gone as well.
AnsweredIsTrue ==
    \A s \in Given, f \in Attributes :
        Remembered(s) /\ f \notin entry[s].changed /\ <<s, f>> \notin astray => entry[s].value[f] = source[s].value[f]

CacheInv == SourceTypes /\ NamedIsRemembered /\ RemovedIsForgotten /\ RestlessIsFlagged /\ AnsweredIsTrue

-----------------------------------------------------------------------------
(* SourceRecords: calls on one source.                                              *)
LEMMA SourceType ==
    ASSUME SourceTypes, NEW s \in Given
    PROVE  /\ source[s] \in [kind : {"input", "filter"}, type : Types, value : [Attributes -> AnyValue]]
           /\ s \in Numbers /\ Given = 1..Len(source) /\ Given \subseteq Numbers
           /\ FiltersOf(s) \in Seq(Given) /\ FiltersOf(s) \in AnyValue
<1>1. source \in Seq(SourceRecords) /\ Len(source) \in Nat /\ Len(source) <= MaxSources
  BY DEF SourceTypes
<1>2. source[s] \in SourceRecords /\ Given = 1..Len(source)
  BY <1>1 DEF Given
<1>3. Given \subseteq Numbers /\ s \in Numbers
  BY <1>1, <1>2, SourceCacheAssumption DEF Numbers
<1>4. FiltersOf(s) \in Seq(Given)
  BY DEF SourceTypes
<1>5. FiltersOf(s) \in Seq(Numbers)
  BY <1>3, <1>4, SeqMonotone
<1>. QED
  BY <1>2, <1>3, <1>4, <1>5 DEF SourceRecords, AnyValue

LEMMA SourceEntryType ==
    ASSUME SourceTypes, NEW s \in Given
    PROVE  /\ Remembered(s) => entry[s] \in [known : {TRUE}, changed : SUBSET Attributes,
                                             value : [Attributes -> AnyValue]]
           /\ entry[s] \in SourceEntries
<1>1. entry[s] \in SourceEntries
  BY DEF SourceTypes, Given
<1>2. Remembered(s) => entry[s] # Forgotten
  BY DEF Remembered, Forgotten
<1>. QED
  BY <1>1, <1>2 DEF SourceEntries

\* What a call on one source must leave behind.
Types1(s) ==
    /\ source' \in Seq(SourceRecords) /\ Len(source') = Len(source)
    /\ source'[s].type = source[s].type
    /\ source'[s].value["filters"] \in Seq(Given)
    /\ entry' \in Seq(SourceEntries) /\ Len(entry') = Len(entry)
    /\ entry'[s].known = entry[s].known
    /\ Remembered(s) => entry'[s].value["name"] = entry[s].value["name"]
Others(s) ==
    \A t \in Given : t # s =>
       /\ source'[t] = source[t] /\ entry'[t] = entry[t]
       /\ \A f \in Attributes : <<t, f>> \in astray' <=> <<t, f>> \in astray
Sound(s) ==
    Remembered(s) =>
       /\ source[s].type \in RestlessProperties => "properties" \in entry[s].changed
       /\ source[s].type \in RestlessSettings /\ <<s, "settings">> \notin astray
             => "settings" \in entry[s].changed
       /\ \A f \in Attributes : f \notin entry[s].changed /\ <<s, f>> \notin astray
             => entry[s].value[f] = source[s].value[f]

LEMMA CallKeeps ==
    ASSUME CacheInv, sourceCalled, NEW s \in Given, Types1(s), Others(s), Sound(s)',
           UNCHANGED <<own, byName, removed>>, astray' \subseteq Numbers \X Attributes
    PROVE  CacheInv'
<1>1. Given' = Given
  BY DEF Types1, Given, CacheInv, SourceTypes
<1>2. \A t \in Given : /\ Remembered(t)' = Remembered(t)
                       /\ source'[t].type = source[t].type
                       /\ Remembered(t) => entry'[t].value["name"] = entry[t].value["name"]
  BY DEF Types1, Others, Remembered
<1>3. \A t \in Given : FiltersOf(t)' \in Seq(Given)
  BY DEF Types1, Others, CacheInv, SourceTypes, FiltersOf
<1>4. SourceTypes'
  BY <1>1, <1>3, SourceCacheAssumption DEF Types1, CacheInv, SourceTypes, sourceCalled
<1>5. NamedIsRemembered'
  <2>1. \A n \in Names : byName[n] # NoNumber => byName[n] \in Given
    BY DEF CacheInv, SourceTypes
  <2>. QED
    BY <1>2, <2>1 DEF CacheInv, NamedIsRemembered
<1>6. RemovedIsForgotten'
  BY <1>2 DEF CacheInv, SourceTypes, RemovedIsForgotten
<1>7. ASSUME NEW t \in Given
      PROVE  Sound(t)'
  <2>1. CASE t = s
    BY <2>1
  <2>2. CASE t # s
    <3>1. /\ source'[t] = source[t] /\ entry'[t] = entry[t]
          /\ \A f \in Attributes : <<t, f>> \in astray' <=> <<t, f>> \in astray
      BY <2>2 DEF Others
    <3>2. "settings" \in Attributes
      BY DEF Attributes, Plain
    <3>3. Sound(t)
      BY DEF Sound, CacheInv, RestlessIsFlagged, AnsweredIsTrue
    <3>. QED
      BY <3>1, <3>2, <3>3 DEF Sound, Remembered
  <2>. QED
    BY <2>1, <2>2
<1>8. RestlessIsFlagged' /\ AnsweredIsTrue'
  BY <1>1, <1>7 DEF Sound, RestlessIsFlagged, AnsweredIsTrue
<1>. QED
  BY <1>4, <1>5, <1>6, <1>8 DEF CacheInv

\* An entry that is kept.
LEMMA KeepsType ==
    ASSUME SourceTypes, NEW s \in Given, NEW says, NEW changed, Keeps(s, says, changed),
           Remembered(s) => /\ says \in [Attributes -> AnyValue]
                            /\ changed \in SUBSET Attributes
                            /\ says["name"] = entry[s].value["name"]
    PROVE  /\ entry' \in Seq(SourceEntries) /\ Len(entry') = Len(entry)
           /\ entry'[s].known = entry[s].known
           /\ Remembered(s)' = Remembered(s)
           /\ Remembered(s) => entry'[s].value = says /\ entry'[s].changed = changed
           /\ Remembered(s) => entry'[s].value["name"] = entry[s].value["name"]
           /\ \A t \in Given : t # s => entry'[t] = entry[t]
<1>1. entry \in Seq(SourceEntries) /\ Len(entry) = Len(source) /\ s \in DOMAIN entry
      /\ Given = DOMAIN entry
  BY DEF SourceTypes, Given
<1>2. CASE ~Remembered(s)
  BY <1>1, <1>2 DEF Keeps, Remembered
<1>3. CASE Remembered(s)
  <2> DEFINE e == [known |-> TRUE, value |-> says, changed |-> changed]
  <2>1. e \in SourceEntries /\ e.value = says /\ e.changed = changed /\ e.known = TRUE
    BY <1>3 DEF SourceEntries
  <2>2. entry' = [entry EXCEPT ![s] = e]
    BY <1>3 DEF Keeps
  <2>3. entry[s].known = TRUE
    BY <1>3, SourceEntryType
  <2> HIDE DEF e
  <2>4. /\ entry' \in Seq(SourceEntries) /\ Len(entry') = Len(entry) /\ entry'[s] = e
        /\ \A t \in Given : t # s => entry'[t] = entry[t]
    BY <1>1, <2>1, <2>2
  <2>. QED
    BY <1>3, <2>1, <2>3, <2>4 DEF Remembered
<1>. QED
  BY <1>2, <1>3

\* An attribute that libobs gives another value.
LEMMA AppliedType ==
    ASSUME SourceTypes, NEW s \in Given, NEW f \in Attributes, NEW v \in AnyValue, Applied(s, f, v)
    PROVE  /\ source' \in Seq(SourceRecords) /\ Len(source') = Len(source)
           /\ source'[s].type = source[s].type
           /\ source'[s].value[f] = v
           /\ \A g \in Attributes : g # f => source'[s].value[g] = source[s].value[g]
           /\ \A t \in Given : t # s => source'[t] = source[t]
<1> DEFINE r == [source[s] EXCEPT !.value[f] = v]
<1>1. source[s] \in [kind : {"input", "filter"}, type : Types, value : [Attributes -> AnyValue]]
  BY SourceType
<1>2. /\ r \in SourceRecords /\ r.type = source[s].type /\ r.value[f] = v
      /\ \A g \in Attributes : g # f => r.value[g] = source[s].value[g]
  BY <1>1 DEF SourceRecords
<1>3. source' = [source EXCEPT ![s] = r]
  BY DEF Applied
<1> HIDE DEF r
<1>. QED
  BY <1>2, <1>3 DEF SourceTypes, Given

LEMMA ConfiguredType ==
    ASSUME SourceTypes, NEW s \in Given, NEW v \in SourceValues, NEW w \in SourceValues,
           Configured(s, v, w)
    PROVE  /\ source' \in Seq(SourceRecords) /\ Len(source') = Len(source)
           /\ source'[s].type = source[s].type
           /\ source'[s].value["settings"] = v
           /\ \A g \in Attributes : g \notin {"settings", "properties"}
                 => source'[s].value[g] = source[s].value[g]
           /\ \A t \in Given : t # s => source'[t] = source[t]
<1> DEFINE u == [source[s].value EXCEPT !["settings"] = v, !["properties"] = w]
           r == [source[s] EXCEPT !.value = u]
<1>1. source[s] \in [kind : {"input", "filter"}, type : Types, value : [Attributes -> AnyValue]]
  BY SourceType
<1>2. v \in AnyValue /\ w \in AnyValue /\ "settings" \in Attributes /\ "properties" \in Attributes
  BY DEF AnyValue, Attributes, Plain
<1>3. /\ u \in [Attributes -> AnyValue] /\ u["settings"] = v
      /\ \A g \in Attributes : g \notin {"settings", "properties"} => u[g] = source[s].value[g]
  BY <1>1, <1>2
<1> HIDE DEF u
<1>4. r \in SourceRecords /\ r.type = source[s].type /\ r.value = u
  BY <1>1, <1>3 DEF SourceRecords
<1>5. source' = [source EXCEPT ![s] = r]
  BY DEF Configured, u
<1> HIDE DEF r
<1>. QED
  BY <1>3, <1>4, <1>5 DEF SourceTypes, Given

\* What is read is true; another attribute may change if that is recorded.
LEMMA ReadKeeps ==
    ASSUME CacheInv, sourceCalled, NEW s \in Given, NEW f \in Attributes \ {"name"}, NEW flagged,
           Read(s, f, flagged),
           source' \in Seq(SourceRecords), Len(source') = Len(source),
           source'[s].type = source[s].type, source'[s].value["filters"] \in Seq(Given),
           \A t \in Given : t # s => source'[t] = source[t],
           \A g \in Attributes : \/ source'[s].value[g] = source[s].value[g]
                                 \/ g # f /\ <<s, g>> \in astray',
           \A g \in Attributes : g # f /\ <<s, g>> \in astray => <<s, g>> \in astray',
           \A t \in Given, g \in Attributes : t # s => (<<t, g>> \in astray' <=> <<t, g>> \in astray),
           astray' \subseteq Numbers \X Attributes,
           f = "settings" /\ Remembered(s) /\ source[s].type \in RestlessSettings => flagged,
           f = "properties" /\ Remembered(s) /\ source[s].type \in RestlessProperties => flagged,
           UNCHANGED <<own, byName, removed>>
    PROVE  CacheInv'
<1> DEFINE says == [entry[s].value EXCEPT ![f] = source[s].value[f]]
           changed == IF flagged THEN entry[s].changed \cup {f} ELSE entry[s].changed \ {f}
<1>1. SourceTypes /\ "settings" \in Attributes /\ "properties" \in Attributes
  BY DEF CacheInv, Attributes, Plain
<1>2. Keeps(s, says, changed)
  BY DEF Read
<1>3. Remembered(s) => /\ entry[s].value \in [Attributes -> AnyValue]
                       /\ entry[s].changed \in SUBSET Attributes
                       /\ source[s].value[f] \in AnyValue
  BY <1>1, SourceType, SourceEntryType
<1>4. Remembered(s) => /\ says \in [Attributes -> AnyValue]
                       /\ says[f] = source[s].value[f]
                       /\ \A g \in Attributes : g # f => says[g] = entry[s].value[g]
                       /\ says["name"] = entry[s].value["name"]
  BY <1>3
<1>5. Remembered(s) => changed \in SUBSET Attributes
  BY <1>3
<1>6. (\A g : g # f /\ g \in entry[s].changed => g \in changed) /\ (flagged => f \in changed)
  OBVIOUS
<1> HIDE DEF says, changed
<1>7. /\ entry' \in Seq(SourceEntries) /\ Len(entry') = Len(entry)
      /\ entry'[s].known = entry[s].known
      /\ Remembered(s)' = Remembered(s)
      /\ Remembered(s) => entry'[s].value = says /\ entry'[s].changed = changed
      /\ Remembered(s) => entry'[s].value["name"] = entry[s].value["name"]
      /\ \A t \in Given : t # s => entry'[t] = entry[t]
  BY <1>1, <1>2, <1>4, <1>5, KeepsType
<1>8. Types1(s) /\ Others(s)
  BY <1>7 DEF Types1, Others
<1>9. Sound(s)
  BY DEF Sound, CacheInv, RestlessIsFlagged, AnsweredIsTrue
<1>10. Sound(s)'
  <2> SUFFICES ASSUME Remembered(s)' PROVE
        /\ source'[s].type \in RestlessProperties => "properties" \in entry'[s].changed
        /\ source'[s].type \in RestlessSettings /\ <<s, "settings">> \notin astray'
              => "settings" \in entry'[s].changed
        /\ \A g \in Attributes : g \notin entry'[s].changed /\ <<s, g>> \notin astray'
              => entry'[s].value[g] = source'[s].value[g]
    BY DEF Sound
  <2>1. Remembered(s) /\ entry'[s].value = says /\ entry'[s].changed = changed
    BY <1>7
  <2>2. source'[s].type \in RestlessProperties => "properties" \in changed
    BY <1>6, <1>9, <2>1 DEF Sound
  <2>3. source'[s].type \in RestlessSettings /\ <<s, "settings">> \notin astray' => "settings" \in changed
    BY <1>1, <1>6, <1>9, <2>1 DEF Sound
  <2>4. ASSUME NEW g \in Attributes, g \notin changed, <<s, g>> \notin astray'
        PROVE  says[g] = source'[s].value[g]
    <3>1. source'[s].value[g] = source[s].value[g]
      BY <2>4
    <3>2. CASE g = f
      BY <1>4, <2>1, <3>1, <3>2
    <3>3. CASE g # f
      BY <1>4, <1>6, <1>9, <2>1, <2>4, <3>1, <3>3 DEF Sound
    <3>. QED
      BY <3>2, <3>3
  <2>. QED
    BY <2>1, <2>2, <2>3, <2>4
<1>. QED
  BY <1>8, <1>10, CallKeeps

LEMMA GettersKeep ==
    ASSUME CacheInv, NEW s \in Given,
           GetSettings(s) \/ GetProperties(s) \/ GetMuted(s) \/ GetAudioMixers(s) \/ Filters(s)
    PROVE  CacheInv'
<1>1. /\ SourceTypes /\ astray \subseteq Numbers \X Attributes /\ source \in Seq(SourceRecords)
      /\ s \in Numbers /\ source[s].value["filters"] \in Seq(Given)
  BY SourceType DEF CacheInv, SourceTypes, FiltersOf
<1>2. /\ {"settings", "properties", "muted", "mixers", "filters"} \subseteq Attributes \ {"name"}
      /\ RestlessSettings = {"screen_capture", "vst_filter"} /\ RestlessProperties = {"game_capture"}
  BY DEF Attributes, Plain, RestlessSettings, RestlessProperties
<1>3. ASSUME NEW f \in Attributes \ {"name"}, NEW flagged, Read(s, f, flagged), sourceCalled,
             astray' = astray \/ astray' = astray \ {<<s, f>>},
             f = "settings" /\ Remembered(s) /\ source[s].type \in RestlessSettings => flagged,
             f # "properties", UNCHANGED <<source, own, byName, removed>>
      PROVE  CacheInv'
  <2>1. /\ \A g \in Attributes : g # f /\ <<s, g>> \in astray => <<s, g>> \in astray'
        /\ \A t \in Given, g \in Attributes :
              t # s => (<<t, g>> \in astray' <=> <<t, g>> \in astray)
        /\ astray' \subseteq Numbers \X Attributes
    BY <1>1, <1>3
  <2>2. /\ source' \in Seq(SourceRecords) /\ Len(source') = Len(source)
        /\ source'[s].type = source[s].type /\ source'[s].value["filters"] \in Seq(Given)
        /\ \A t \in Given : t # s => source'[t] = source[t]
        /\ \A g \in Attributes : source'[s].value[g] = source[s].value[g]
    BY <1>1, <1>3
  <2>. QED
    BY <1>3, <2>1, <2>2, ReadKeeps
<1>4. CASE GetSettings(s)
  BY <1>2, <1>3, <1>4 DEF GetSettings, Gets, TypeIn
<1>5. CASE GetMuted(s)
  BY <1>2, <1>3, <1>5 DEF GetMuted, Gets
<1>6. CASE GetAudioMixers(s)
  BY <1>2, <1>3, <1>6 DEF GetAudioMixers, Gets
<1>7. CASE Filters(s)
  BY <1>2, <1>3, <1>7 DEF Filters, Gets
<1>8. CASE GetProperties(s)
  <2> DEFINE flagged == TypeIn(s, RestlessProperties)
  <2>1. /\ sourceCalled /\ Read(s, "properties", flagged) /\ UNCHANGED <<own, byName, removed>>
        /\ Properties(s)
    BY <1>8 DEF GetProperties, Gets
  <2>2. Remembered(s) /\ source[s].type \in RestlessProperties => flagged
    BY DEF TypeIn
  <2>3. /\ source' \in Seq(SourceRecords) /\ Len(source') = Len(source)
        /\ source'[s].type = source[s].type /\ source'[s].value["filters"] \in Seq(Given)
        /\ \A t \in Given : t # s => source'[t] = source[t]
        /\ \A g \in Attributes : \/ source'[s].value[g] = source[s].value[g]
                                 \/ g # "properties" /\ <<s, g>> \in astray'
        /\ astray' = astray \/ astray' = astray \cup {<<s, "settings">>}
    <3>1. CASE source' = source /\ astray' = astray
      BY <1>1, <3>1
    <3>2. CASE /\ \E v \in SourceValues : Applied(s, "settings", v)
               /\ astray' = astray \cup {<<s, "settings">>}
      <4>1. PICK v \in SourceValues : Applied(s, "settings", v)
        BY <3>2
      <4>2. v \in AnyValue /\ "settings" \in Attributes /\ "filters" \in Attributes
        BY <1>2 DEF AnyValue
      <4>3. /\ source' \in Seq(SourceRecords) /\ Len(source') = Len(source)
            /\ source'[s].type = source[s].type
            /\ \A g \in Attributes : g # "settings" => source'[s].value[g] = source[s].value[g]
            /\ \A t \in Given : t # s => source'[t] = source[t]
        BY <1>1, <4>1, <4>2, AppliedType
      <4>4. source'[s].value["filters"] = source[s].value["filters"]
        BY <4>2, <4>3
      <4>. QED
        BY <1>1, <3>2, <4>3, <4>4
    <3>. QED
      BY <2>1, <3>1, <3>2 DEF Properties
  <2>4. /\ \A g \in Attributes : g # "properties" /\ <<s, g>> \in astray => <<s, g>> \in astray'
        /\ \A t \in Given, g \in Attributes :
              t # s => (<<t, g>> \in astray' <=> <<t, g>> \in astray)
        /\ astray' \subseteq Numbers \X Attributes
    BY <1>1, <1>2, <2>3
  <2> HIDE DEF flagged
  <2>5. "properties" \in Attributes \ {"name"}
    BY <1>2
  <2>. QED
    BY <2>1, <2>2, <2>3, <2>4, <2>5, ReadKeeps
<1>. QED
  BY <1>4, <1>5, <1>6, <1>7, <1>8

\* A call that writes: what the entry says afterwards is true where it is trusted.
LEMMA WriteKeeps ==
    ASSUME CacheInv, sourceCalled, NEW s \in Given, NEW says, NEW changed,
           Keeps(s, says, changed),
           Remembered(s) => /\ says \in [Attributes -> AnyValue]
                            /\ changed \in SUBSET Attributes
                            /\ says["name"] = entry[s].value["name"],
           source' \in Seq(SourceRecords), Len(source') = Len(source),
           source'[s].type = source[s].type, source'[s].value["filters"] \in Seq(Given),
           \A t \in Given : t # s => source'[t] = source[t],
           astray' \subseteq Numbers \X Attributes,
           \A t \in Given, g \in Attributes : t # s => (<<t, g>> \in astray' <=> <<t, g>> \in astray),
           Remembered(s) /\ source[s].type \in RestlessProperties => "properties" \in changed,
           Remembered(s) /\ source[s].type \in RestlessSettings /\ <<s, "settings">> \notin astray'
              => "settings" \in changed,
           Remembered(s) => \A g \in Attributes : g \notin changed /\ <<s, g>> \notin astray'
              => says[g] = source'[s].value[g],
           UNCHANGED <<own, byName, removed>>
    PROVE  CacheInv'
<1>1. /\ entry' \in Seq(SourceEntries) /\ Len(entry') = Len(entry)
      /\ entry'[s].known = entry[s].known
      /\ Remembered(s)' = Remembered(s)
      /\ Remembered(s) => entry'[s].value = says /\ entry'[s].changed = changed
      /\ Remembered(s) => entry'[s].value["name"] = entry[s].value["name"]
      /\ \A t \in Given : t # s => entry'[t] = entry[t]
  BY KeepsType DEF CacheInv
<1>2. Types1(s) /\ Others(s)
  BY <1>1 DEF Types1, Others
<1>3. Sound(s)'
  BY <1>1 DEF Sound
<1>. QED
  BY <1>2, <1>3, CallKeeps

\* A call that flags at least what it writes.
LEMMA FlagKeeps ==
    ASSUME CacheInv, sourceCalled, NEW s \in Given, NEW fs \in SUBSET Attributes, Flag(s, fs),
           source' \in Seq(SourceRecords), Len(source') = Len(source),
           source'[s].type = source[s].type, source'[s].value["filters"] \in Seq(Given),
           \A t \in Given : t # s => source'[t] = source[t],
           \A g \in Attributes : g \notin fs => source'[s].value[g] = source[s].value[g],
           UNCHANGED <<own, byName, removed, astray>>
    PROVE  CacheInv'
<1> DEFINE says == entry[s].value
           changed == entry[s].changed \cup fs
<1>1. Keeps(s, says, changed)
  BY DEF Flag
<1>2. Sound(s) /\ astray' \subseteq Numbers \X Attributes
  BY DEF Sound, CacheInv, RestlessIsFlagged, AnsweredIsTrue, SourceTypes
<1>3. Remembered(s) => /\ says \in [Attributes -> AnyValue]
                       /\ changed \in SUBSET Attributes
                       /\ says["name"] = entry[s].value["name"]
  BY SourceEntryType DEF CacheInv
<1>4. /\ Remembered(s) /\ source[s].type \in RestlessProperties => "properties" \in changed
      /\ Remembered(s) /\ source[s].type \in RestlessSettings /\ <<s, "settings">> \notin astray'
            => "settings" \in changed
      /\ Remembered(s) => \A g \in Attributes : g \notin changed /\ <<s, g>> \notin astray'
            => says[g] = source'[s].value[g]
  BY <1>2 DEF Sound
<1> HIDE DEF says, changed
<1>. QED
  BY <1>1, <1>2, <1>3, <1>4, WriteKeeps

\* A call that leaves the entry alone: what it writes is not trusted.
LEMMA PastKeeps ==
    ASSUME CacheInv, sourceCalled, NEW s \in Given,
           source' \in Seq(SourceRecords), Len(source') = Len(source),
           source'[s].type = source[s].type, source'[s].value["filters"] \in Seq(Given),
           \A t \in Given : t # s => source'[t] = source[t],
           astray \subseteq astray', astray' \subseteq Numbers \X Attributes,
           \A t \in Given, g \in Attributes : t # s => (<<t, g>> \in astray' <=> <<t, g>> \in astray),
           Remembered(s) => \A g \in Attributes : g \notin entry[s].changed /\ <<s, g>> \notin astray'
              => source'[s].value[g] = source[s].value[g],
           UNCHANGED <<own, entry, byName, removed>>
    PROVE  CacheInv'
<1>1. Sound(s) /\ entry \in Seq(SourceEntries)
  BY DEF Sound, CacheInv, RestlessIsFlagged, AnsweredIsTrue, SourceTypes
<1>2. Types1(s) /\ Others(s)
  BY <1>1 DEF Types1, Others
<1>3. Sound(s)'
  BY <1>1 DEF Sound, Remembered
<1>. QED
  BY <1>2, <1>3, CallKeeps

LEMMA WritesToOneKeep ==
    ASSUME CacheInv, NEW s \in Given,
           \/ \E v \in SourceValues : SetMuted(s, v) \/ SetAudioMixers(s, v)
           \/ \E name \in Names : SetName(s, name)
           \/ Modified(s) \/ ButtonClicked(s) \/ Update(s) \/ Change(s)
    PROVE  CacheInv'
<1>1. /\ SourceTypes /\ astray \subseteq Numbers \X Attributes /\ s \in Numbers
      /\ source[s].value["filters"] \in Seq(Given)
  BY SourceType DEF CacheInv, SourceTypes, FiltersOf
<1>2. /\ {"settings", "properties", "muted", "mixers", "filters", "name"} = Attributes
      /\ SourceValues \subseteq AnyValue /\ Names \subseteq AnyValue
  BY DEF Attributes, Plain, AnyValue
<1>3. ASSUME NEW f \in Attributes \ {"filters"}, NEW v \in AnyValue, Applied(s, f, v)
      PROVE  /\ source' \in Seq(SourceRecords) /\ Len(source') = Len(source)
             /\ source'[s].type = source[s].type /\ source'[s].value["filters"] \in Seq(Given)
             /\ \A t \in Given : t # s => source'[t] = source[t]
             /\ \A g \in Attributes : g # f => source'[s].value[g] = source[s].value[g]
  <2>1. /\ source' \in Seq(SourceRecords) /\ Len(source') = Len(source)
        /\ source'[s].type = source[s].type
        /\ \A t \in Given : t # s => source'[t] = source[t]
        /\ \A g \in Attributes : g # f => source'[s].value[g] = source[s].value[g]
    BY <1>1, <1>3, AppliedType
  <2>2. source'[s].value["filters"] = source[s].value["filters"]
    BY <1>2, <2>1
  <2>. QED
    BY <1>1, <2>1, <2>2
<1>4. ASSUME NEW v \in SourceValues, NEW w \in SourceValues, Configured(s, v, w)
      PROVE  /\ source' \in Seq(SourceRecords) /\ Len(source') = Len(source)
             /\ source'[s].type = source[s].type /\ source'[s].value["filters"] \in Seq(Given)
             /\ source'[s].value["settings"] = v
             /\ \A t \in Given : t # s => source'[t] = source[t]
             /\ \A g \in Attributes : g \notin {"settings", "properties"}
                   => source'[s].value[g] = source[s].value[g]
  <2>1. /\ source' \in Seq(SourceRecords) /\ Len(source') = Len(source)
        /\ source'[s].type = source[s].type
        /\ source'[s].value["settings"] = v
        /\ \A t \in Given : t # s => source'[t] = source[t]
        /\ \A g \in Attributes : g \notin {"settings", "properties"}
              => source'[s].value[g] = source[s].value[g]
    BY <1>1, <1>4, ConfiguredType
  <2>2. source'[s].value["filters"] = source[s].value["filters"]
    BY <1>2, <2>1
  <2>. QED
    BY <1>1, <2>1, <2>2
<1>5. CASE \E v \in SourceValues : SetMuted(s, v) \/ SetAudioMixers(s, v)
  <2>1. PICK v \in SourceValues, f \in {"muted", "mixers"} :
           /\ sourceCalled /\ Applied(s, f, v) /\ Flag(s, {f})
           /\ UNCHANGED <<own, byName, removed, astray>>
    BY <1>5 DEF SetMuted, SetAudioMixers, WritesTo
  <2>2. f \in Attributes \ {"filters"} /\ v \in AnyValue /\ {f} \in SUBSET Attributes
    BY <1>2
  <2>3. /\ source' \in Seq(SourceRecords) /\ Len(source') = Len(source)
        /\ source'[s].type = source[s].type /\ source'[s].value["filters"] \in Seq(Given)
        /\ \A t \in Given : t # s => source'[t] = source[t]
        /\ \A g \in Attributes : g \notin {f} => source'[s].value[g] = source[s].value[g]
    BY <1>3, <2>1, <2>2
  <2>. QED
    BY <2>1, <2>2, <2>3, FlagKeeps
<1>6. CASE \E name \in Names : SetName(s, name)
  <2>1. PICK name \in Names : SetName(s, name)
    BY <1>6
  <2>2. /\ sourceCalled /\ Applied(s, "name", name) /\ astray' = astray \cup {<<s, "name">>}
        /\ UNCHANGED <<own, entry, byName, removed>>
    BY <2>1 DEF SetName, WritesTo
  <2>3. "name" \in Attributes \ {"filters"} /\ name \in AnyValue
    BY <1>2
  <2>4. /\ source' \in Seq(SourceRecords) /\ Len(source') = Len(source)
        /\ source'[s].type = source[s].type /\ source'[s].value["filters"] \in Seq(Given)
        /\ \A t \in Given : t # s => source'[t] = source[t]
        /\ \A g \in Attributes : g # "name" => source'[s].value[g] = source[s].value[g]
    BY <1>3, <2>2, <2>3
  <2>5. /\ astray \subseteq astray' /\ astray' \subseteq Numbers \X Attributes
        /\ \A t \in Given, g \in Attributes :
              t # s => (<<t, g>> \in astray' <=> <<t, g>> \in astray)
        /\ \A g \in Attributes : <<s, g>> \notin astray' => g # "name"
    BY <1>1, <2>2, <2>3
  <2>6. \A g \in Attributes : g \notin entry[s].changed /\ <<s, g>> \notin astray'
              => source'[s].value[g] = source[s].value[g]
    BY <2>4, <2>5
  <2>. QED
    BY <2>2, <2>4, <2>5, <2>6, PastKeeps
<1>7. CASE Modified(s)
  <2>1. PICK v \in SourceValues, w \in SourceValues : Configured(s, v, w)
    BY <1>7 DEF Modified
  <2>2. /\ source' \in Seq(SourceRecords) /\ Len(source') = Len(source)
        /\ source'[s].type = source[s].type /\ source'[s].value["filters"] \in Seq(Given)
        /\ \A t \in Given : t # s => source'[t] = source[t]
        /\ \A g \in Attributes : g \notin {"settings", "properties"}
              => source'[s].value[g] = source[s].value[g]
    BY <1>4, <2>1
  <2>3. /\ sourceCalled /\ Flag(s, {"settings", "properties"})
        /\ UNCHANGED <<own, byName, removed, astray>>
    BY <1>7 DEF Modified, WritesTo
  <2>4. {"settings", "properties"} \in SUBSET Attributes
    BY <1>2
  <2>. QED
    BY <2>2, <2>3, <2>4, FlagKeeps
<1>8. CASE ButtonClicked(s)
  <2>1. PICK v \in SourceValues, w \in SourceValues : Configured(s, v, w)
    BY <1>8 DEF ButtonClicked
  <2>2. /\ source' \in Seq(SourceRecords) /\ Len(source') = Len(source)
        /\ source'[s].type = source[s].type /\ source'[s].value["filters"] \in Seq(Given)
        /\ \A t \in Given : t # s => source'[t] = source[t]
        /\ \A g \in Attributes : g \notin {"settings", "properties"}
              => source'[s].value[g] = source[s].value[g]
    BY <1>4, <2>1
  <2>3. sourceCalled /\ UNCHANGED <<own, byName, removed>>
    BY <1>8 DEF ButtonClicked, WritesTo
  <2>4. {"settings", "properties"} \in SUBSET Attributes
    BY <1>2
  <2>5. CASE Flag(s, {"settings", "properties"}) /\ astray' = astray
    BY <2>2, <2>3, <2>4, <2>5, FlagKeeps
  <2>6. CASE /\ Keeps(s, entry[s].value, (entry[s].changed \cup {"properties"}) \ {"settings"})
             /\ astray' = astray \cup {<<s, "settings">>}
    <3> DEFINE says == entry[s].value
               changed == (entry[s].changed \cup {"properties"}) \ {"settings"}
    <3>1. Keeps(s, says, changed)
      BY <2>6
    <3>2. Remembered(s) => /\ says \in [Attributes -> AnyValue]
                           /\ changed \in SUBSET Attributes
                           /\ says["name"] = entry[s].value["name"]
      BY <1>1, <1>2, SourceEntryType
    <3>3. /\ astray' \subseteq Numbers \X Attributes
          /\ \A t \in Given, g \in Attributes :
                t # s => (<<t, g>> \in astray' <=> <<t, g>> \in astray)
          /\ <<s, "settings">> \in astray' /\ astray \subseteq astray'
      BY <1>1, <1>2, <2>6
    <3>4. Sound(s) /\ "properties" \in changed
      BY DEF Sound, CacheInv, RestlessIsFlagged, AnsweredIsTrue
    <3>5. ASSUME Remembered(s), NEW g \in Attributes, g \notin changed, <<s, g>> \notin astray'
          PROVE  says[g] = source'[s].value[g]
      <4>1. g \notin {"settings", "properties"} /\ g \notin entry[s].changed /\ <<s, g>> \notin astray
        BY <3>3, <3>5
      <4>2. entry[s].value[g] = source[s].value[g]
        BY <3>4, <3>5, <4>1 DEF Sound
      <4>. QED
        BY <2>2, <4>1, <4>2
    <3> HIDE DEF says, changed
    <3>. QED
      BY <2>2, <2>3, <3>1, <3>2, <3>3, <3>4, <3>5, WriteKeeps
  <2>. QED
    BY <1>8, <2>5, <2>6 DEF ButtonClicked
<1>9. CASE Update(s)
  <2> DEFINE flagged == entry[s].changed \cup {"properties"}
             changed == IF TypeIn(s, RestlessSettings) THEN flagged \cup {"settings"}
                                                       ELSE flagged \ {"settings"}
             says(v) == [entry[s].value EXCEPT !["settings"] = v]
  <2>1. PICK v \in SourceValues, w \in SourceValues :
           Configured(s, v, w) /\ Keeps(s, says(v), changed)
    BY <1>9 DEF Update
  <2>2. /\ source' \in Seq(SourceRecords) /\ Len(source') = Len(source)
        /\ source'[s].type = source[s].type /\ source'[s].value["filters"] \in Seq(Given)
        /\ source'[s].value["settings"] = v
        /\ \A t \in Given : t # s => source'[t] = source[t]
        /\ \A g \in Attributes : g \notin {"settings", "properties"}
              => source'[s].value[g] = source[s].value[g]
    BY <1>4, <2>1
  <2>3. sourceCalled /\ UNCHANGED <<own, byName, removed>> /\ astray' = astray \ {<<s, "settings">>}
    BY <1>9 DEF Update, WritesTo
  <2>4. /\ Remembered(s) => says(v) \in [Attributes -> AnyValue] /\ changed \in SUBSET Attributes
        /\ Remembered(s) => says(v)["settings"] = v
        /\ Remembered(s) => \A g \in Attributes : g # "settings" => says(v)[g] = entry[s].value[g]
        /\ Remembered(s) => says(v)["name"] = entry[s].value["name"]
    BY <1>1, <1>2, SourceEntryType
  <2>5. /\ astray' \subseteq Numbers \X Attributes
        /\ \A t \in Given, g \in Attributes :
              t # s => (<<t, g>> \in astray' <=> <<t, g>> \in astray)
        /\ \A g \in Attributes : g # "settings" => (<<s, g>> \in astray' <=> <<s, g>> \in astray)
    BY <1>1, <2>3
  <2>6. /\ "properties" \in changed
        /\ TypeIn(s, RestlessSettings) => "settings" \in changed
        /\ \A g \in entry[s].changed : g # "settings" => g \in changed
    OBVIOUS
  <2>7. Sound(s)
    BY DEF Sound, CacheInv, RestlessIsFlagged, AnsweredIsTrue
  <2> HIDE DEF says, changed
  <2>8. ASSUME Remembered(s), NEW g \in Attributes, g \notin changed, <<s, g>> \notin astray'
        PROVE  says(v)[g] = source'[s].value[g]
    <3>1. CASE g = "settings"
      BY <2>2, <2>4, <2>8, <3>1
    <3>2. CASE g # "settings"
      <4>1. g \notin {"settings", "properties"} /\ g \notin entry[s].changed /\ <<s, g>> \notin astray
        BY <2>5, <2>6, <2>8, <3>2
      <4>2. entry[s].value[g] = source[s].value[g]
        BY <2>7, <2>8, <4>1 DEF Sound
      <4>. QED
        BY <2>2, <2>4, <2>8, <4>1, <4>2
    <3>. QED
      BY <3>1, <3>2
  <2>9. Remembered(s) /\ source[s].type \in RestlessSettings => "settings" \in changed
    BY <2>6 DEF TypeIn
  <2>. QED
    BY <2>1, <2>2, <2>3, <2>4, <2>5, <2>6, <2>8, <2>9, WriteKeeps
<1>10. CASE Change(s)
  <2> DEFINE f == Restless[source[s].type]
  <2>1. PICK v \in SourceValues : Applied(s, f, v)
    BY <1>10 DEF Change
  <2>2. /\ sourceCalled /\ UNCHANGED <<own, entry, byName, removed, astray>>
        /\ source[s].type \in DOMAIN Restless
    BY <1>10 DEF Change
  <2>3. \/ f = "settings" /\ source[s].type \in RestlessSettings
        \/ f = "properties" /\ source[s].type \in RestlessProperties
    BY <2>2, SourceCacheAssumption
  <2> HIDE DEF f
  <2>4. f \in Attributes \ {"filters"} /\ v \in AnyValue
    BY <1>2, <2>3
  <2>5. /\ source' \in Seq(SourceRecords) /\ Len(source') = Len(source)
        /\ source'[s].type = source[s].type /\ source'[s].value["filters"] \in Seq(Given)
        /\ \A t \in Given : t # s => source'[t] = source[t]
        /\ \A g \in Attributes : g # f => source'[s].value[g] = source[s].value[g]
    BY <1>3, <2>1, <2>4
  <2>6. Sound(s)
    BY DEF Sound, CacheInv, RestlessIsFlagged, AnsweredIsTrue
  <2>7. Remembered(s) => \A g \in Attributes : g \notin entry[s].changed /\ <<s, g>> \notin astray
              => source'[s].value[g] = source[s].value[g]
    BY <2>3, <2>5, <2>6 DEF Sound
  <2>8. /\ astray \subseteq astray' /\ astray' \subseteq Numbers \X Attributes
        /\ \A t \in Given, g \in Attributes :
              t # s => (<<t, g>> \in astray' <=> <<t, g>> \in astray)
        /\ Remembered(s) => \A g \in Attributes :
              g \notin entry[s].changed /\ <<s, g>> \notin astray'
              => source'[s].value[g] = source[s].value[g]
    BY <1>1, <2>2, <2>7
  <2>. QED
    BY <2>2, <2>5, <2>8, PastKeeps
<1>. QED
  BY <1>5, <1>6, <1>7, <1>8, <1>9, <1>10

LEMMA FilterCallsKeep ==
    ASSUME CacheInv, NEW s \in Given, NEW filter \in Given,
           AddFilter(s, filter) \/ RemoveFilter(s, filter) \/ SetFilterOrder(s)
    PROVE  CacheInv'
<1>1. SourceTypes /\ FiltersOf(s) \in Seq(Given) /\ Given \subseteq Numbers
  BY SourceType DEF CacheInv
<1>2. ASSUME NEW fs \in Seq(Given), sourceCalled, Filtered(s, fs)
      PROVE  CacheInv'
  <2>1. "filters" \in Attributes /\ {"filters"} \in SUBSET Attributes
    BY DEF Attributes
  <2>2. fs \in AnyValue
    BY <1>1, SeqMonotone DEF AnyValue
  <2>3. /\ Applied(s, "filters", fs) /\ Flag(s, {"filters"})
        /\ UNCHANGED <<own, byName, removed, astray>>
    BY <1>2 DEF Filtered
  <2>4. /\ source' \in Seq(SourceRecords) /\ Len(source') = Len(source)
        /\ source'[s].type = source[s].type
        /\ source'[s].value["filters"] = fs
        /\ \A g \in Attributes : g # "filters" => source'[s].value[g] = source[s].value[g]
        /\ \A t \in Given : t # s => source'[t] = source[t]
    BY <1>1, <2>1, <2>2, <2>3, AppliedType
  <2>. QED
    BY <1>2, <2>1, <2>3, <2>4, FlagKeeps
<1>3. CASE AddFilter(s, filter)
  <2>1. Append(FiltersOf(s), filter) \in Seq(Given)
    BY <1>1
  <2>. QED
    BY <1>2, <1>3, <2>1 DEF AddFilter
<1>4. CASE RemoveFilter(s, filter)
  BY <1>1, <1>2, <1>4, RemoveFirstType DEF RemoveFilter
<1>5. CASE SetFilterOrder(s)
  <2>1. PICK fs \in SetToSeqs(Range(FiltersOf(s))) : Filtered(s, fs)
    BY <1>5 DEF SetFilterOrder
  <2>2. Range(FiltersOf(s)) \subseteq Given
    BY <1>1 DEF Range
  <2>3. Len(source) \in Int /\ 1 \in Int /\ Given = 1..Len(source)
    BY SourceType DEF CacheInv, SourceTypes
  <2>4. IsFiniteSet(Given)
    BY <2>3, FS_Interval, Zenon
  <2>5. IsFiniteSet(Range(FiltersOf(s)))
    BY <2>2, <2>4, FS_Subset
  <2>6. fs \in Seq(Range(FiltersOf(s)))
    BY <2>5, PermutationType
  <2>7. fs \in Seq(Given)
    BY <2>2, <2>6, SeqMonotone
  <2>. QED
    BY <1>2, <1>5, <2>1, <2>7 DEF SetFilterOrder
<1>. QED
  BY <1>3, <1>4, <1>5

-----------------------------------------------------------------------------
(* SourceRecords: new ones, and ends.                                               *)
LEMMA GrowKeeps ==
    ASSUME CacheInv, sourceCalled, UNCHANGED removed,
           source' \in Seq(SourceRecords), Len(source) <= Len(source'), Len(source') <= MaxSources,
           entry' \in Seq(SourceEntries), Len(entry') = Len(source'),
           \A t \in Given : entry'[t] = entry[t] /\ source'[t].type = source[t].type,
           \A t \in Given' : FiltersOf(t)' \in Seq(Given'),
           own' \subseteq Given', astray' \subseteq Numbers \X Attributes, astray \subseteq astray',
           \A t \in Given, f \in Attributes :
              <<t, f>> \notin astray' => source'[t].value[f] = source[t].value[f],
           \A t \in Given, f \in Attributes : <<t, f>> \in astray' /\ f = "settings" => <<t, f>> \in astray,
           \A n \in Names : \/ byName'[n] = byName[n]
                            \/ /\ byName'[n] \in Given' \ Given
                               /\ entry'[byName'[n]].known /\ entry'[byName'[n]].value["name"] = n,
           byName' \in [Names -> Given' \cup {NoNumber}],
           \A t \in Given' \ Given : Sound(t)'
    PROVE  CacheInv'
<1>1. Given = 1..Len(source) /\ Given' = 1..Len(source') /\ Len(source) \in Nat /\ Len(source') \in Nat
  BY DEF Given, CacheInv, SourceTypes
<1>2. Given \subseteq Given' /\ NoNumber \notin Given'
  BY <1>1 DEF NoNumber
<1>3. byName \in [Names -> Given \cup {NoNumber}]
  BY DEF CacheInv, SourceTypes
<1>6. removed' \subseteq Given'
  BY <1>2 DEF CacheInv, SourceTypes
<1>7. SourceTypes'
  BY <1>6, SourceCacheAssumption DEF SourceTypes, sourceCalled, CacheInv
<1>8. NamedIsRemembered'
  <2>1. ASSUME NEW n \in Names, byName'[n] # NoNumber
        PROVE  entry'[byName'[n]].known /\ entry'[byName'[n]].value["name"] = n
    <3>1. CASE byName'[n] = byName[n]
      <4>1. byName[n] \in Given /\ Remembered(byName[n]) /\ entry[byName[n]].value["name"] = n
        BY <1>3, <2>1, <3>1 DEF CacheInv, NamedIsRemembered
      <4>2. entry'[byName[n]] = entry[byName[n]]
        BY <4>1
      <4>. QED
        BY <3>1, <4>1, <4>2 DEF Remembered
    <3>. QED
      BY <3>1
  <2>. QED
    BY <2>1 DEF NamedIsRemembered, Remembered
<1>9. RemovedIsForgotten'
  <2>1. removed \subseteq Given
    BY DEF CacheInv, SourceTypes
  <2>. QED
    BY <2>1 DEF CacheInv, RemovedIsForgotten, Remembered
<1>10. ASSUME NEW t \in Given
       PROVE  Sound(t)'
  <2>1. Sound(t)
    BY DEF Sound, CacheInv, RestlessIsFlagged, AnsweredIsTrue
  <2>2. entry'[t] = entry[t] /\ source'[t].type = source[t].type
    OBVIOUS
  <2>3. "settings" \in Attributes
    BY DEF Attributes, Plain
  <2>4. \A f \in Attributes : <<t, f>> \notin astray' =>
           <<t, f>> \notin astray /\ source'[t].value[f] = source[t].value[f]
    OBVIOUS
  <2>. QED
    BY <2>1, <2>2, <2>3, <2>4 DEF Sound, Remembered
<1>11. RestlessIsFlagged' /\ AnsweredIsTrue'
  BY <1>10 DEF Sound, RestlessIsFlagged, AnsweredIsTrue
<1>. QED
  BY <1>7, <1>8, <1>9, <1>11 DEF CacheInv

\* One more source: what it and its entry are.

LEMMA OneMore ==
    ASSUME CacheInv, sourceCalled, UNCHANGED removed, New <= MaxSources, NEW r \in SourceRecords,
           NEW e \in SourceEntries, source' = Append(source, r), r.value["filters"] \in Seq(Given),
           entry' = Append(entry, e), own' = own \cup {New},
           astray' = astray \/ astray' = astray \cup {<<New, "name">>},
           byName' \in [Names -> Given \cup {New, NoNumber}],
           \A n \in Names : \/ byName'[n] = byName[n]
                            \/ byName'[n] = New /\ e.known /\ e.value["name"] = n,
           e.known => /\ Attributes \ {"name"} \subseteq e.changed
                      /\ \/ e.value["name"] = r.value["name"]
                         \/ <<New, "name">> \in astray'
    PROVE  CacheInv'
<1>0. PICK k : k = New
  OBVIOUS
<1>1. /\ source \in Seq(SourceRecords) /\ Len(source) \in Nat /\ New = Len(source) + 1
      /\ entry \in Seq(SourceEntries) /\ Len(entry) = Len(source) /\ Given = 1..Len(source)
  BY DEF CacheInv, SourceTypes, New, Given
<1>2. /\ source' \in Seq(SourceRecords) /\ Len(source') = New /\ source'[New] = r
      /\ \A t \in 1..Len(source) : source'[t] = source[t]
  BY <1>1
<1>3. /\ entry' \in Seq(SourceEntries) /\ Len(entry') = New /\ entry'[New] = e
      /\ \A t \in 1..Len(source) : entry'[t] = entry[t]
  BY <1>1
<1>4. Given' = Given \cup {New} /\ New \notin Given /\ Given \subseteq Given'
  <2>1. Given' = 1..Len(source) + 1
    BY <1>1, <1>2 DEF Given
  <2>. QED
    BY <1>1, <2>1
<1>5. \A t \in Given' : FiltersOf(t)' \in Seq(Given')
  <2>1. \A t \in Given : FiltersOf(t) \in Seq(Given)
    BY DEF CacheInv, SourceTypes
  <2>2. \A t \in Given : FiltersOf(t)' \in Seq(Given)
    BY <1>1, <1>2, <2>1 DEF FiltersOf
  <2>3. FiltersOf(k)' \in Seq(Given)
    BY <1>0, <1>1, <1>2 DEF FiltersOf
  <2>. QED
    BY <1>0, <1>4, <2>2, <2>3, SeqMonotone
<1>6. own' \subseteq Given'
  BY <1>4 DEF CacheInv, SourceTypes
<1>7. New \in Numbers /\ "name" \in Attributes
  BY <1>1, SourceCacheAssumption DEF Numbers, Attributes
<1>8. /\ astray' \subseteq Numbers \X Attributes /\ astray \subseteq astray'
      /\ \A t \in Given, f \in Attributes : <<t, f>> \in astray' /\ f = "settings" => <<t, f>> \in astray
  BY <1>4, <1>7 DEF CacheInv, SourceTypes
<1>9. Sound(k)'
  <2>1. {"settings", "properties"} \subseteq Attributes \ {"name"}
    BY DEF Attributes, Plain
  <2>2. source'[k] = r /\ entry'[k] = e
    BY <1>0, <1>2, <1>3
  <2>3. e.known => /\ "settings" \in e.changed /\ "properties" \in e.changed
                   /\ \A f \in Attributes : f \notin e.changed => f = "name"
    BY <2>1
  <2>4. e.known => e.value["name"] = r.value["name"] \/ <<k, "name">> \in astray'
    BY <1>0
  <2>. QED
    BY <2>2, <2>3, <2>4 DEF Sound, Remembered
<1>10. \A n \in Names : \/ byName'[n] = byName[n]
                        \/ /\ byName'[n] \in Given' \ Given
                           /\ entry'[byName'[n]].known /\ entry'[byName'[n]].value["name"] = n
  BY <1>3, <1>4
<1>11. Len(source) <= Len(source') /\ Len(source') <= MaxSources
  BY <1>1, <1>2
<1>12. \A t \in Given : entry'[t] = entry[t] /\ source'[t] = source[t]
  BY <1>1, <1>2, <1>3
<1>13. \A t \in Given' \ Given : Sound(t)'
  BY <1>0, <1>4, <1>9
<1>14. Len(entry') = Len(source') /\ byName' \in [Names -> Given' \cup {NoNumber}]
  BY <1>2, <1>3, <1>4
<1>. QED
  BY <1>2, <1>3, <1>5, <1>6, <1>8, <1>10, <1>11, <1>12, <1>13, <1>14, GrowKeeps

LEMMA NewSourceType ==
    ASSUME NEW kind \in {"input", "filter"}, NEW type \in Types, NEW name \in Names,
           NEW v \in {0} \cup SourceValues
    PROVE  /\ NewSource(kind, type, name, v) \in SourceRecords
           /\ NewSource(kind, type, name, v).value["name"] = name
           /\ NewSource(kind, type, name, v).value["filters"] = <<>>
           /\ NewSource(kind, type, name, v).type = type
<1> DEFINE w == [f \in Attributes |-> CASE f = "name" -> name
                                       [] f = "filters" -> <<>>
                                       [] f = "muted" -> 0
                                       [] OTHER -> v]
<1>1. "name" \in Attributes /\ "filters" \in Attributes
  BY DEF Attributes
<1>2. 0 \in AnyValue /\ v \in AnyValue /\ name \in AnyValue /\ <<>> \in AnyValue
  BY DEF AnyValue
<1>3. w \in [Attributes -> AnyValue] /\ w["name"] = name /\ w["filters"] = <<>>
  BY <1>1, <1>2
<1>4. NewSource(kind, type, name, v) = [kind |-> kind, type |-> type, value |-> w]
  BY DEF NewSource
<1> HIDE DEF w
<1>. QED
  BY <1>3, <1>4 DEF SourceRecords

LEMMA NewEntryType ==
    ASSUME NEW name \in Names, NEW known \in SUBSET Plain, NEW v \in {0} \cup SourceValues
    PROVE  /\ NewEntry(name, known, v) \in SourceEntries
           /\ NewEntry(name, known, v).known
           /\ NewEntry(name, known, v).changed = Attributes \ {"name"}
           /\ NewEntry(name, known, v).value["name"] = name
<1> DEFINE w == [f \in Attributes |-> CASE f = "name" -> name
                                       [] f = "filters" -> <<>>
                                       [] f \in known -> v
                                       [] OTHER -> 0]
<1>1. "name" \in Attributes
  BY DEF Attributes
<1>2. 0 \in AnyValue /\ v \in AnyValue /\ name \in AnyValue /\ <<>> \in AnyValue
  BY DEF AnyValue
<1>3. "name" \notin known /\ "filters" \notin known
  BY DEF Plain
<1>4. w \in [Attributes -> AnyValue] /\ w["name"] = name
  BY <1>1, <1>2, <1>3
<1>5. NewEntry(name, known, v) = [known |-> TRUE, changed |-> Attributes \ {"name"}, value |-> w]
  BY DEF NewEntry
<1> HIDE DEF w
<1>. QED
  BY <1>4, <1>5 DEF SourceEntries

LEMMA MadeKeeps ==
    ASSUME CacheInv, sourceCalled, UNCHANGED removed, New <= MaxSources,
           NEW kind \in {"input", "filter"}, NEW type \in Types, NEW name \in Names,
           NEW asked \in Names, NEW v \in SourceValues, NEW w \in SourceValues, NEW known \in SUBSET Plain,
           source' = Append(source, NewSource(kind, type, name, v)),
           StoreEntry(asked, NewEntry(asked, known, w)), own' = own \cup {New},
           astray' = IF name = asked THEN astray ELSE astray \cup {<<New, "name">>}
    PROVE  CacheInv'
<1> DEFINE r == NewSource(kind, type, name, v)
           e == NewEntry(asked, known, w)
<1>1. r \in SourceRecords /\ r.value["name"] = name /\ r.value["filters"] = <<>>
  BY NewSourceType
<1>2. /\ e \in SourceEntries /\ e.known /\ e.changed = Attributes \ {"name"}
      /\ e.value["name"] = asked
  <2>1. w \in {0} \cup SourceValues
    OBVIOUS
  <2>. QED
    BY <2>1, NewEntryType, Zenon
<1>3. /\ source' = Append(source, r) /\ entry' = Append(entry, e)
      /\ byName' = [byName EXCEPT ![asked] = New]
  BY DEF StoreEntry
<1> HIDE DEF r, e
<1>4. byName \in [Names -> Given \cup {NoNumber}]
  BY DEF CacheInv, SourceTypes
<1>5. /\ byName' \in [Names -> Given \cup {New, NoNumber}]
      /\ \A n \in Names : \/ byName'[n] = byName[n]
                          \/ byName'[n] = New /\ e.known /\ e.value["name"] = n
  BY <1>2, <1>3, <1>4
<1>6. r.value["filters"] \in Seq(Given)
  BY <1>1
<1>7. /\ astray' = astray \/ astray' = astray \cup {<<New, "name">>}
      /\ e.value["name"] = r.value["name"] \/ <<New, "name">> \in astray'
      /\ Attributes \ {"name"} \subseteq e.changed
  BY <1>1, <1>2
<1>. QED
  BY <1>1, <1>2, <1>3, <1>5, <1>6, <1>7, OneMore

LEMMA CreateSourceKeeps ==
    ASSUME CacheInv,
           InputCreate \/ FilterCreate \/ TransitionCreate \/ SceneCreate \/ CreatePrivate
    PROVE  CacheInv'
<1>1. ASSUME NEW kind \in {"input", "filter"}, NEW public \in BOOLEAN, NEW known \in SUBSET Plain,
             Creates(kind, public, known)
      PROVE  CacheInv'
  <2>1. /\ sourceCalled /\ New <= MaxSources /\ own' = own \cup {New} /\ UNCHANGED removed
        /\ \E type \in Types, v \in SourceValues, asked, name \in Names :
              /\ source' = Append(source, NewSource(kind, type, name, v))
              /\ StoreEntry(asked, NewEntry(asked, known, v))
              /\ astray' = IF name = asked THEN astray ELSE astray \cup {<<New, "name">>}
    BY <1>1 DEF Creates
  <2>. QED
    BY <2>1, MadeKeeps
<1>3. {"settings", "mixers"} \in SUBSET Plain /\ {} \in SUBSET Plain
  BY DEF Plain
<1>2. CASE CreatePrivate
  <2>1. /\ sourceCalled /\ New <= MaxSources /\ own' = own \cup {New} /\ UNCHANGED <<removed, astray>>
        /\ \E type \in Types, v, junk \in SourceValues, name \in Names :
              /\ source' = Append(source, NewSource("input", type, name, v))
              /\ StoreEntry(name, NewEntry(name, {"settings", "mixers"}, junk))
    BY <1>2 DEF CreatePrivate
  <2>2. PICK type \in Types, v \in SourceValues, junk \in SourceValues, name \in Names :
           /\ source' = Append(source, NewSource("input", type, name, v))
           /\ StoreEntry(name, NewEntry(name, {"settings", "mixers"}, junk))
    BY <2>1
  <2>3. astray' = IF name = name THEN astray ELSE astray \cup {<<New, "name">>}
    BY <2>1
  <2>. QED
    BY <2>1, <2>2, <2>3, <1>3, MadeKeeps
<1>. QED
  BY <1>1, <1>2, <1>3 DEF InputCreate, FilterCreate, TransitionCreate, SceneCreate

LEMMA DuplicateSourceKeeps ==
    ASSUME CacheInv, NEW s \in Given, DuplicateSource(s)
    PROVE  CacheInv'
<1>1. PICK name \in Names : source' = Append(source, [source[s] EXCEPT !.value["name"] = name])
  BY DEF DuplicateSource
<1> DEFINE r == [source[s] EXCEPT !.value["name"] = name]
<1>2. source[s] \in [kind : {"input", "filter"}, type : Types, value : [Attributes -> AnyValue]]
      /\ source[s].value["filters"] \in Seq(Given)
  BY SourceType DEF CacheInv, FiltersOf
<1>3. name \in AnyValue /\ "filters" \in Attributes
  BY DEF AnyValue, Attributes
<1>4. r \in SourceRecords /\ r.value["filters"] = source[s].value["filters"]
  BY <1>2, <1>3 DEF SourceRecords
<1>5. Forgotten \in SourceEntries /\ ~Forgotten.known
  BY DEF SourceEntries, Forgotten
<1>6. /\ sourceCalled /\ New <= MaxSources /\ own' = own \cup {New}
      /\ entry' = Append(entry, Forgotten) /\ UNCHANGED <<byName, removed, astray>>
  BY DEF DuplicateSource
<1>7. byName \in [Names -> Given \cup {NoNumber}]
  BY DEF CacheInv, SourceTypes
<1>8. byName' \in [Names -> Given \cup {New, NoNumber}] /\ \A n \in Names : byName'[n] = byName[n]
  BY <1>6, <1>7
<1> HIDE DEF r
<1>9. source' = Append(source, r)
  BY <1>1 DEF r
<1>. QED
  BY <1>2, <1>4, <1>5, <1>6, <1>8, <1>9, OneMore

LEMMA EndOfSourceKeeps ==
    ASSUME CacheInv, NEW s \in Given, SourceRemove(s) \/ Release(s)
    PROVE  CacheInv'
<1>1. /\ sourceCalled /\ own' = own \ {s} /\ UNCHANGED <<source, astray>>
      /\ own' \subseteq Given /\ Given' = Given
  BY DEF SourceRemove, Release, CacheInv, SourceTypes, Given
<1>2. CASE Release(s)
  <2>1. UNCHANGED <<source, entry, byName, removed, astray>>
    BY <1>2 DEF Release
  <2>2. SourceTypes'
    BY <1>1, <2>1, SourceCacheAssumption DEF CacheInv, SourceTypes, FiltersOf, sourceCalled
  <2>. QED
    BY <1>1, <2>1, <2>2 DEF CacheInv, NamedIsRemembered, RemovedIsForgotten, RestlessIsFlagged,
       AnsweredIsTrue, Remembered
<1>3. CASE SourceRemove(s)
  <2> DEFINE old == entry[s].value["name"]
  <2>1. /\ entry' = [entry EXCEPT ![s] = Forgotten]
        /\ byName' = IF Remembered(s) THEN [byName EXCEPT ![old] = NoNumber] ELSE byName
        /\ removed' = removed \cup {s}
    BY <1>3 DEF SourceRemove
  <2>2. entry \in Seq(SourceEntries) /\ Len(entry) = Len(source) /\ Given = DOMAIN entry
        /\ byName \in [Names -> Given \cup {NoNumber}]
    BY DEF CacheInv, SourceTypes, Given
  <2>3. /\ entry' \in Seq(SourceEntries) /\ Len(entry') = Len(entry)
        /\ ~entry'[s].known /\ \A t \in Given : t # s => entry'[t] = entry[t]
    BY <2>1, <2>2 DEF SourceEntries, Forgotten
  <2>4. byName' \in [Names -> Given \cup {NoNumber}]
    BY <2>1, <2>2
  <2>5. ASSUME NEW n \in Names, byName'[n] # NoNumber
        PROVE  byName[n] = byName'[n] /\ byName'[n] # s
    <3>1. byName'[n] = byName[n]
      BY <2>1, <2>2, <2>5
    <3>2. Remembered(byName[n]) /\ entry[byName[n]].value["name"] = n
      BY <2>5, <3>1 DEF CacheInv, NamedIsRemembered
    <3>3. byName[n] # s
      BY <2>1, <2>2, <2>5, <3>1, <3>2
    <3>. QED
      BY <3>1, <3>3
  <2>6. NamedIsRemembered'
    BY <2>2, <2>3, <2>5 DEF CacheInv, NamedIsRemembered, Remembered
  <2>7. RemovedIsForgotten'
    BY <2>1, <2>3 DEF CacheInv, SourceTypes, RemovedIsForgotten, Remembered
  <2>8. SourceTypes'
    BY <1>1, <2>1, <2>2, <2>3, <2>4, SourceCacheAssumption
    DEF CacheInv, SourceTypes, FiltersOf, sourceCalled
  <2>9. RestlessIsFlagged' /\ AnsweredIsTrue'
    BY <1>1, <2>3 DEF CacheInv, RestlessIsFlagged, AnsweredIsTrue, Remembered
  <2>. QED
    BY <2>6, <2>7, <2>8, <2>9 DEF CacheInv
<1>. QED
  BY <1>2, <1>3

LEMMA CopyFiltersKeeps ==
    ASSUME CacheInv, NEW from \in Given, NEW to \in Given, CopyFilters(from, to)
    PROVE  CacheInv'
<1> DEFINE fs == FiltersOf(from)
           k == Len(source)
           m == Len(fs)
           copies == [n \in DOMAIN fs |-> k + n]
           r == [source[to] EXCEPT !.value["filters"] = FiltersOf(to) \o copies]
           base == [source EXCEPT ![to] = r]
           more == [n \in DOMAIN fs |-> source[fs[n]]]
           none == [n \in DOMAIN fs |-> Forgotten]
<1>1. /\ sourceCalled /\ k + m <= MaxSources
      /\ source' = [source EXCEPT ![to].value["filters"] = @ \o copies] \o more
      /\ own' = own \cup Range(copies)
      /\ entry' = entry \o none
      /\ astray' = astray \cup {<<to, "filters">>}
      /\ UNCHANGED <<byName, removed>>
  BY DEF CopyFilters
<1>2. source' = base \o more
  BY <1>1 DEF FiltersOf
<1>3. /\ fs \in Seq(Given) /\ m \in Nat /\ DOMAIN fs = 1..m /\ k \in Nat
      /\ Given = 1..k /\ source \in Seq(SourceRecords) /\ MaxSources \in Nat
      /\ entry \in Seq(SourceEntries) /\ Len(entry) = k
  BY SourceType, SourceCacheAssumption DEF CacheInv, SourceTypes
<1>4. copies \in [1..m -> k + 1..k + m]
  <2>1. \A n \in 1..m : k + n \in k + 1..k + m
    BY <1>3
  <2>. QED
    BY <1>3, <2>1
<1>5. 1..k + m \subseteq Numbers /\ 1..k \subseteq 1..k + m /\ k + 1..k + m \subseteq 1..k + m
  BY <1>1, <1>3 DEF Numbers
<1>6. copies \in Seq(1..k + m) /\ Range(copies) \subseteq 1..k + m
  <2>1. copies \in [1..m -> 1..k + m]
    BY <1>4, <1>5
  <2>. QED
    BY <1>3, <2>1 DEF Range
<1> HIDE DEF copies
<1>7. FiltersOf(to) \o copies \in Seq(1..k + m)
  <2>1. FiltersOf(to) \in Seq(Given)
    BY SourceType DEF CacheInv
  <2>2. FiltersOf(to) \in Seq(1..k + m)
    BY <1>3, <1>5, <2>1, SeqMonotone
  <2>. QED
    BY <1>6, <2>2, ConcatType
<1>8. /\ r \in SourceRecords /\ r.type = source[to].type
      /\ r.value["filters"] = FiltersOf(to) \o copies
      /\ \A f \in Attributes : f # "filters" => r.value[f] = source[to].value[f]
  <2>1. source[to] \in [kind : {"input", "filter"}, type : Types, value : [Attributes -> AnyValue]]
    BY SourceType DEF CacheInv
  <2>2. FiltersOf(to) \o copies \in AnyValue
    <3>1. FiltersOf(to) \o copies \in Seq(Numbers)
      BY <1>5, <1>7, SeqMonotone
    <3>. QED
      BY <3>1 DEF AnyValue
  <2>3. "filters" \in Attributes
    BY DEF Attributes
  <2> DEFINE x == FiltersOf(to) \o copies
  <2>4. r = [source[to] EXCEPT !.value["filters"] = x] /\ x \in AnyValue
    BY <2>2
  <2> HIDE DEF x
  <2>5. /\ [source[to] EXCEPT !.value["filters"] = x] \in SourceRecords
        /\ [source[to] EXCEPT !.value["filters"] = x].type = source[to].type
        /\ [source[to] EXCEPT !.value["filters"] = x].value["filters"] = x
        /\ \A f \in Attributes : f # "filters" =>
              [source[to] EXCEPT !.value["filters"] = x].value[f] = source[to].value[f]
    BY <2>1, <2>3, <2>4 DEF SourceRecords
  <2>. QED
    BY <2>4, <2>5 DEF x
<1> HIDE DEF r
<1>9. /\ base \in Seq(SourceRecords) /\ Len(base) = k /\ base[to] = r
      /\ \A t \in Given : t # to => base[t] = source[t]
  BY <1>3, <1>8
<1>10. /\ more \in Seq(SourceRecords) /\ Len(more) = m
       /\ \A n \in 1..m : more[n] = source[fs[n]] /\ fs[n] \in Given
  <2>1. \A n \in 1..m : fs[n] \in Given /\ source[fs[n]] \in SourceRecords
    BY <1>3
  <2>2. more \in [1..m -> SourceRecords]
    BY <1>3, <2>1
  <2>. QED
    BY <1>3, <2>1, <2>2
<1>11. /\ none \in Seq(SourceEntries) /\ Len(none) = m
       /\ \A n \in 1..m : none[n] = Forgotten
  <2>1. none \in [1..m -> SourceEntries]
    BY <1>3 DEF SourceEntries
  <2>. QED
    BY <1>3, <2>1
<1> HIDE DEF base, more, none, fs
<1>12. /\ base \o more \in Seq(SourceRecords)
       /\ Len(base \o more) = Len(base) + Len(more)
       /\ \A i \in 1..Len(base) : (base \o more)[i] = base[i]
       /\ \A i \in Len(base) + 1..Len(base) + Len(more) : (base \o more)[i] = more[i - Len(base)]
  <2>1. base \in Seq(SourceRecords) /\ more \in Seq(SourceRecords)
    BY <1>9, <1>10
  <2>. QED
    BY <2>1, ConcatType
<1>13. /\ entry \o none \in Seq(SourceEntries)
       /\ Len(entry \o none) = Len(entry) + Len(none)
       /\ \A i \in 1..Len(entry) : (entry \o none)[i] = entry[i]
       /\ \A i \in Len(entry) + 1..Len(entry) + Len(none) : (entry \o none)[i] = none[i - Len(entry)]
  <2>1. entry \in Seq(SourceEntries) /\ none \in Seq(SourceEntries)
    BY <1>3, <1>11
  <2>. QED
    BY <2>1, ConcatType
<1>14. /\ source' \in Seq(SourceRecords) /\ Len(source') = k + m
       /\ \A t \in 1..k : source'[t] = base[t]
       /\ \A t \in k + 1..k + m : source'[t] = more[t - k]
  BY <1>2, <1>9, <1>10, <1>12
<1>15. /\ entry' \in Seq(SourceEntries) /\ Len(entry') = k + m
       /\ \A t \in 1..k : entry'[t] = entry[t]
       /\ \A t \in k + 1..k + m : entry'[t] = none[t - k]
  BY <1>1, <1>3, <1>11, <1>13
<1> HIDE DEF k, m
<1>16. Given' = 1..k + m /\ Given \subseteq Given'
  BY <1>3, <1>5, <1>14 DEF Given
<1>17. \A t \in Given' \ Given : t \in k + 1..k + m /\ t - k \in 1..m
  BY <1>3, <1>16
<1>18. \A t \in Given : /\ entry'[t] = entry[t] /\ source'[t].type = source[t].type
                        /\ \A f \in Attributes :
                             <<t, f>> \notin astray' => source'[t].value[f] = source[t].value[f]
  <2>1. ASSUME NEW t \in Given
        PROVE  /\ entry'[t] = entry[t] /\ source'[t].type = source[t].type
               /\ \A f \in Attributes :
                     <<t, f>> \notin astray' => source'[t].value[f] = source[t].value[f]
    <3>1. entry'[t] = entry[t] /\ source'[t] = base[t]
      BY <1>3, <1>14, <1>15
    <3>2. CASE t = to
      BY <1>1, <1>8, <1>9, <3>1, <3>2
    <3>3. CASE t # to
      BY <1>9, <3>1, <3>3
    <3>. QED
      BY <3>2, <3>3
  <2>. QED
    BY <2>1
<1>19. ASSUME NEW t \in Given'
       PROVE  FiltersOf(t)' \in Seq(Given')
  <2>1. CASE t = to
    BY <1>3, <1>7, <1>8, <1>9, <1>14, <1>16, <2>1 DEF FiltersOf
  <2>2. CASE t \in Given /\ t # to
    <3>1. FiltersOf(t)' = FiltersOf(t) /\ FiltersOf(t) \in Seq(Given)
      BY <1>3, <1>9, <1>14, <2>2, SourceType DEF FiltersOf, CacheInv
    <3>. QED
      BY ZenonT(30), <1>16, <3>1, SeqMonotone
  <2>3. CASE t \notin Given
    <3>1. t - k \in 1..m /\ source'[t] = more[t - k]
      BY <1>14, <1>17, <2>3
    <3>2. fs[t - k] \in Given /\ source'[t] = source[fs[t - k]]
      BY <1>10, <3>1
    <3>3. FiltersOf(t)' = FiltersOf(fs[t - k])
      BY <3>2 DEF FiltersOf
    <3>4. FiltersOf(t)' \in Seq(Given)
      BY <3>2, <3>3, SourceType DEF CacheInv
    <3>. QED
      BY <1>16, <3>4, SeqMonotone
  <2>. QED
    BY <2>1, <2>2, <2>3
<1>20. own' \subseteq Given'
  BY <1>1, <1>6, <1>16 DEF CacheInv, SourceTypes, k, m
<1>21. /\ astray' \subseteq Numbers \X Attributes /\ astray \subseteq astray'
       /\ \A t \in Given, f \in Attributes : <<t, f>> \in astray' /\ f = "settings" => <<t, f>> \in astray
  <2>1. to \in Numbers /\ "filters" \in Attributes
    BY SourceType DEF CacheInv, Attributes
  <2>. QED
    BY <1>1, <2>1 DEF CacheInv, SourceTypes
<1>22. ASSUME NEW t \in Given' \ Given
       PROVE  Sound(t)'
  <2>1. entry'[t] = Forgotten
    BY <1>11, <1>15, <1>17
  <2>. QED
    BY <2>1 DEF Sound, Remembered, Forgotten
<1>23. byName' \in [Names -> Given' \cup {NoNumber}] /\ byName' = byName
  BY <1>1, <1>16 DEF CacheInv, SourceTypes
<1>24. /\ Len(source) <= Len(source') /\ Len(source') <= MaxSources /\ Len(entry') = Len(source')
       /\ source' \in Seq(SourceRecords) /\ entry' \in Seq(SourceEntries)
  BY <1>1, <1>3, <1>14, <1>15 DEF k, m
<1>25. sourceCalled /\ UNCHANGED removed
  BY <1>1
<1>. QED
  BY <1>18, <1>19, <1>20, <1>21, <1>22, <1>23, <1>24, <1>25, GrowKeeps

-----------------------------------------------------------------------------
(* SourceRecords: every call, and the theorems.                                     *)
LEMMA CacheStep ==
    ASSUME CacheInv, CacheNext
    PROVE  CacheInv'
<1>1. CASE InputCreate \/ FilterCreate \/ TransitionCreate \/ SceneCreate \/ CreatePrivate
  BY <1>1, CreateSourceKeeps
<1>2. ASSUME NEW s \in Given,
             \/ DuplicateSource(s)
             \/ GetSettings(s) \/ GetProperties(s) \/ GetMuted(s) \/ GetAudioMixers(s) \/ Filters(s)
             \/ Update(s) \/ Modified(s) \/ ButtonClicked(s) \/ Change(s)
             \/ \E v \in SourceValues : SetMuted(s, v) \/ SetAudioMixers(s, v)
             \/ \E name \in Names : SetName(s, name)
             \/ \E filter \in Given :
                   AddFilter(s, filter) \/ RemoveFilter(s, filter) \/ CopyFilters(s, filter)
             \/ SetFilterOrder(s)
             \/ SourceRemove(s) \/ Release(s)
      PROVE  CacheInv'
  <2>1. CASE DuplicateSource(s)
    BY <2>1, DuplicateSourceKeeps
  <2>2. CASE GetSettings(s) \/ GetProperties(s) \/ GetMuted(s) \/ GetAudioMixers(s) \/ Filters(s)
    BY <2>2, GettersKeep
  <2>3. CASE \/ \E v \in SourceValues : SetMuted(s, v) \/ SetAudioMixers(s, v)
             \/ \E name \in Names : SetName(s, name)
             \/ Modified(s) \/ ButtonClicked(s) \/ Update(s) \/ Change(s)
    BY <2>3, WritesToOneKeep
  <2>4. CASE \/ \E filter \in Given : AddFilter(s, filter) \/ RemoveFilter(s, filter)
             \/ SetFilterOrder(s)
    BY <2>4, FilterCallsKeep
  <2>5. CASE \E filter \in Given : CopyFilters(s, filter)
    BY <2>5, CopyFiltersKeeps
  <2>6. CASE SourceRemove(s) \/ Release(s)
    BY <2>6, EndOfSourceKeeps
  <2>. QED
    BY <1>2, <2>1, <2>2, <2>3, <2>4, <2>5, <2>6
<1>. QED
  BY <1>1, <1>2 DEF CacheNext

LEMMA CacheInitially ==
    ASSUME CacheInit
    PROVE  CacheInv
<1> DEFINE k == Len(Present)
<1>1. /\ Present \in Seq([kind : {"input", "filter"}, type : Types, name : Names])
      /\ k \in Nat /\ DOMAIN Present = 1..k /\ k <= MaxSources
  BY SourceCacheAssumption
<1>2. \A s \in 1..k : /\ Present[s].kind \in {"input", "filter"} /\ Present[s].type \in Types
                      /\ Present[s].name \in Names
  <2> DEFINE R == [kind : {"input", "filter"}, type : Types, name : Names]
  <2>1. \A s \in 1..k : Present[s] \in R
    <3>1. Present \in Seq(R) /\ DOMAIN Present = 1..k
      BY <1>1
    <3> HIDE DEF R, k
    <3>. QED
      BY <3>1 DEF k
  <2>. QED
    BY <2>1
<1>3. {} \in SUBSET Plain /\ 0 \in {0} \cup SourceValues
  OBVIOUS
<1>4. \A s \in 1..k : /\ source[s] \in SourceRecords /\ source[s].value["filters"] = <<>>
                      /\ source[s].value["name"] = Present[s].name
  <2> SUFFICES ASSUME NEW s \in 1..k
               PROVE  /\ source[s] \in SourceRecords /\ source[s].value["filters"] = <<>>
                      /\ source[s].value["name"] = Present[s].name
    OBVIOUS
  <2>1. source[s] = NewSource(Present[s].kind, Present[s].type, Present[s].name, 0)
    BY <1>1 DEF CacheInit
  <2>2. /\ Present[s].kind \in {"input", "filter"}
        /\ Present[s].type \in Types
        /\ Present[s].name \in Names
    BY <1>2
  <2> DEFINE n == NewSource(Present[s].kind, Present[s].type, Present[s].name, 0)
  <2>3. n \in SourceRecords /\ n.value["filters"] = <<>> /\ n.value["name"] = Present[s].name
    BY <1>3, <2>2, NewSourceType
  <2>4. source[s] = n
    BY <2>1
  <2> HIDE DEF n
  <2>. QED
    BY <2>3, <2>4
<1>5. \A s \in 1..k : /\ entry[s] \in SourceEntries /\ entry[s].known
                      /\ entry[s].changed = Attributes \ {"name"}
                      /\ entry[s].value["name"] = Present[s].name
  <2> SUFFICES ASSUME NEW s \in 1..k
               PROVE  /\ entry[s] \in SourceEntries /\ entry[s].known
                      /\ entry[s].changed = Attributes \ {"name"}
                      /\ entry[s].value["name"] = Present[s].name
    OBVIOUS
  <2>1. entry[s] = NewEntry(Present[s].name, {}, 0)
    BY <1>1 DEF CacheInit
  <2>2. Present[s].name \in Names
    BY <1>2
  <2> DEFINE e == NewEntry(Present[s].name, {}, 0)
  <2>3. /\ e \in SourceEntries /\ e.known
        /\ e.changed = Attributes \ {"name"}
        /\ e.value["name"] = Present[s].name
    <3>1. \A name \in Names : LET n == NewEntry(name, {}, 0)
                             IN  /\ n \in SourceEntries /\ n.known
                                 /\ n.changed = Attributes \ {"name"}
                                 /\ n.value["name"] = name
      BY <1>3, NewEntryType
    <3>. QED
      BY <2>2, <3>1
  <2>4. entry[s] = e
    BY <2>1
  <2> HIDE DEF e
  <2>. QED
    BY <2>3, <2>4
<1>6. /\ source \in Seq(SourceRecords) /\ Len(source) = k /\ Given = 1..k
      /\ entry \in Seq(SourceEntries) /\ Len(entry) = k
  <2>1. source \in [1..k -> SourceRecords] /\ entry \in [1..k -> SourceEntries]
    <3>1. DOMAIN source = 1..k /\ DOMAIN entry = 1..k
      BY <1>1 DEF CacheInit
    <3>2. source = [s \in 1..k |-> source[s]] /\ entry = [s \in 1..k |-> entry[s]]
      BY <1>1 DEF CacheInit
    <3>. QED
      BY <1>4, <1>5, <3>1, <3>2
  <2>2. Given = 1..k
    BY <2>1 DEF Given
  <2>3. source \in Seq(SourceRecords) /\ entry \in Seq(SourceEntries)
    BY <1>1, <2>1
  <2>4. Len(source) = k /\ Len(entry) = k
    BY <1>1, <2>1, <2>3
  <2>. QED
    BY <2>2, <2>3, <2>4
<1>7. ASSUME NEW n \in Names
      PROVE  byName[n] # NoNumber => byName[n] \in 1..k /\ Present[byName[n]].name = n
  <2> DEFINE I == {i \in 1..k : Present[i].name = n}
  <2>1. byName[n] = IF I # {} THEN Max(I) ELSE NoNumber
    BY DEF CacheInit, SelectLastInSeq, NoNumber
  <2>2. I \in SUBSET (0..k)
    BY <1>1
  <2>3. I # {} => Max(I) \in I
    BY <1>1, <2>2, GreatestExists
  <2>. QED
    BY <2>1, <2>3
<1>8. byName \in [Names -> Given \cup {NoNumber}]
  <2>1. byName = [n \in Names |-> byName[n]]
    BY DEF CacheInit
  <2>. QED
    BY <1>6, <1>7, <2>1
<1>9. \A s \in Given : FiltersOf(s) \in Seq(Given)
  <2>1. \A s \in Given : FiltersOf(s) = <<>>
    BY <1>4, <1>6 DEF FiltersOf
  <2>2. <<>> \in Seq(Given)
    OBVIOUS
  <2>. QED
    BY <2>1, <2>2
<1>10. own = Given /\ removed = {} /\ astray = {} /\ sourceCalls = 0
  BY <1>1, <1>6 DEF CacheInit
<1>11. SourceTypes
  BY <1>1, <1>6, <1>8, <1>9, <1>10, SourceCacheAssumption DEF SourceTypes
<1>12. NamedIsRemembered /\ RemovedIsForgotten
  BY <1>5, <1>7, <1>10 DEF NamedIsRemembered, RemovedIsForgotten, Remembered
<1>13. RestlessIsFlagged
  BY <1>5, <1>6 DEF RestlessIsFlagged, Attributes, Plain
<1>14. AnsweredIsTrue
  BY <1>4, <1>5, <1>6 DEF AnsweredIsTrue
<1>. QED
  BY <1>11, <1>12, <1>13, <1>14 DEF CacheInv

LEMMA CacheInvariant == CacheSpec => []CacheInv
<1>1. CacheInv /\ [CacheNext]_cacheVars => CacheInv'
  <2>1. CASE CacheInv /\ CacheNext
    BY <2>1, CacheStep
  <2>2. CASE CacheInv /\ UNCHANGED cacheVars
    <3>1. UNCHANGED <<source, own, entry, byName, removed, astray, sourceCalls>>
      BY <2>2 DEF cacheVars
    <3>2. Given' = Given
      BY <3>1 DEF Given
    <3>. QED
      BY <2>2, <3>1, <3>2 DEF CacheInv, SourceTypes, FiltersOf, NamedIsRemembered,
         RemovedIsForgotten, RestlessIsFlagged, AnsweredIsTrue, Remembered
  <2>. QED
    BY <2>1, <2>2
<1>. QED
  BY <1>1, CacheInitially, PTL DEF CacheSpec

\* The client's tables have their types whatever is called.
THEOREM CacheTypes == CacheSpec => []CacheTypeOK
<1>1. CacheInv => CacheTypeOK
  <2> SUFFICES ASSUME CacheInv PROVE CacheTypeOK
    OBVIOUS
  <2>1. /\ Len(source) \in Nat /\ Len(source) <= MaxSources /\ Given = 1..Len(source)
        /\ Len(entry) = Len(source) /\ entry \in Seq(SourceEntries)
    BY DEF CacheInv, SourceTypes, Given
  <2>2. Given \subseteq Numbers /\ DOMAIN entry = Given
    BY <2>1, SourceCacheAssumption DEF Numbers
  <2>3. byName \in [Names -> Numbers \cup {NoNumber}]
    BY <2>2 DEF CacheInv, SourceTypes
  <2>. QED
    BY <2>2, <2>3 DEF CacheInv, SourceTypes, SourceRecords, AnyValue, CacheTypeOK
<1>. QED
  BY <1>1, CacheInvariant, PTL

\* What a getter answers from a source's entry is what the server has, unless
\* the attribute changed past its flag, and no name leads to a source that was
\* removed (isource.cpp, input.cpp, cache-manager.hpp of the client).
THEOREM EntriesOfSourcesTrue == CacheSpec => []EntriesTrue
<1>1. CacheInv => EntriesTrue
  <2> SUFFICES ASSUME CacheInv PROVE EntriesTrue
    OBVIOUS
  <2>1. ASSUME NEW n \in Names
        PROVE  byName[n] \notin removed
    <3>1. CASE byName[n] = NoNumber
      <4>1. NoNumber \notin Given
        BY DEF CacheInv, SourceTypes, Given, NoNumber
      <4>. QED
        BY <3>1, <4>1 DEF CacheInv, SourceTypes
    <3>2. CASE byName[n] # NoNumber
      BY <3>2 DEF CacheInv, NamedIsRemembered, RemovedIsForgotten
    <3>. QED
      BY <3>1, <3>2
  <2>2. \A s \in Given : \A f \in Attributes :
           sourceAnswered(s, f) /\ <<s, f>> \notin astray => entry[s].value[f] = source[s].value[f]
    BY DEF CacheInv, AnsweredIsTrue, sourceAnswered
  <2>. QED
    BY <2>1, <2>2 DEF EntriesTrue
<1>. QED
  BY <1>1, CacheInvariant, PTL

-----------------------------------------------------------------------------
(* MediaCache: the inductive invariant *)

JobRecords == [source : Sources, type : {"query", "set"}, enable : BOOLEAN, file : Files \cup {NoFile}]
ResultRecords == [job : JobRecords, valid : BOOLEAN, applied : BOOLEAN, file : Files \cup {NoFile},
                  caching : BOOLEAN, eligible : BOOLEAN, bytes : Nat]
EntryRecords == [life : {"new", "tracked", "retired", "gone"}, updates : Int, settle : 0..2, fresh : BOOLEAN,
                 scheduled : BOOLEAN, reserved : Nat, file : Files \cup {NoFile}, retries : Nat,
                 retry : {"none", "armed", "due"}, initialized : BOOLEAN, pending : BOOLEAN, waiting : BOOLEAN]
EditRecords == [pc : {"none", "lock", "begin", "clear", "write", "update", "finish"},
                source : Sources \cup {NoSource}, active : BOOLEAN]
PlayerRecords == [file : Files, caching : BOOLEAN]

MediaTypes ==
    /\ phase \in {"stopped", "running", "closing", "stopping"}
    /\ entries \in [Sources -> EntryRecords]
    /\ reserved \in Int
    /\ jobs \in Seq(JobRecords) /\ batch \in Seq(JobRecords)
    /\ completions \in Seq(ResultRecords) /\ results \in Seq(ResultRecords)
    /\ worker \in {"waiting", "locked"}
    /\ notified \in BOOLEAN /\ rebalance \in BOOLEAN
    /\ graphics \in {"idle", "run", "write", "post", "sources"}
    /\ mutex \in [Sources -> Editors \cup {"graphics", NoOne}]
    /\ editor \in [Editors -> EditRecords]
    /\ setting \in [Sources -> PlayerRecords] /\ player \in [Sources -> PlayerRecords]
    /\ deferred \in [Sources -> BOOLEAN] /\ signalled \in [Sources -> BOOLEAN]
    /\ shown \in [Sources -> SUBSET {"main", "display"}] /\ preference \in BOOLEAN
    /\ events \in Nat

\* No source has two jobs on their way, in the queue, in the batch, among the
\* results or among the completions; and the graphics thread's place says which
\* of its sequences are empty.
Elements(q) == {q[i] : i \in DOMAIN q}
Distinct(q) == \A i, j \in DOMAIN q : q[i] = q[j] => i = j
OneOfEach(some) == \A a, b \in some : a.source = b.source => a = b
OneResultOfEach(some) == \A a, b \in some : a.job.source = b.job.source => a = b
Queued == {job.source : job \in Elements(jobs)}
Taken == {job.source : job \in Elements(batch)}
Posting == {result.job.source : result \in Elements(results)}
Posted == {result.job.source : result \in Elements(completions)}
OnTheWay == Queued \cup Taken \cup Posting \cup Posted

OneJobEach ==
    /\ Distinct(jobs) /\ Distinct(batch) /\ Distinct(results) /\ Distinct(completions)
    /\ OneOfEach(Elements(jobs)) /\ OneOfEach(Elements(batch))
    /\ OneResultOfEach(Elements(results)) /\ OneResultOfEach(Elements(completions))
    /\ Queued \cap (Taken \cup Posting \cup Posted) = {}
    /\ Taken \cap (Posting \cup Posted) = {}
    /\ Posting \cap Posted = {}
    /\ graphics \in {"run", "write"} <=> batch # <<>>
    /\ graphics \in {"idle", "sources"} => results = <<>>

\* Who is not looked at now has been or will be.
NobodyForgotten ==
    worker = "waiting" =>
        /\ ~rebalance
        /\ notified \/ \A s \in Sources : Removed(s) \/ entries[s].pending \/ entries[s].scheduled

\* Where the editors stand, and who holds an entry's lock.
EditorsInOrder ==
    /\ \A e \in Editors :
        /\ editor[e].pc = "none" <=> editor[e] = NoEdit
        /\ editor[e].pc # "none" => editor[e].source \in Sources
        /\ editor[e].pc \in {"lock", "begin"} => ~editor[e].active
        /\ editor[e].pc \in {"clear", "finish"} => editor[e].active
        /\ editor[e].pc \in {"write", "update"} => editor[e].active \/ Removed(editor[e].source)
        /\ editor[e].pc \in {"begin", "clear"} => mutex[editor[e].source] = e
    /\ graphics = "write" => mutex[Head(batch).source] = "graphics"

\* A source that is to be registered is untouched.
Untouched(s) ==
    entries[s].life = "new" =>
        /\ entries[s] = FreshEntry /\ setting[s] = player[s] /\ ~deferred[s] /\ mutex[s] = NoOne
        /\ \A e \in Editors : editor[e].pc # "none" => editor[e].source # s
        /\ s \notin OnTheWay
        /\ setting[s].caching \in SavedCaching

\* The player is behind the settings only as long as an update is on its way.
Unedited(s) == \A e \in Editors : editor[e].source = s => ~editor[e].active
UpdateArrives(s) ==
    setting[s] # player[s] => deferred[s]
        \/ \E e \in Editors : At(e, s, "update") \/ (At(e, s, "write") /\ editor[e].active)

\* What the worker tells the sources that it knows by, and the editors that the
\* entry counts.
PendingIsOnTheWay(s) ==
    /\ entries[s].pending <=> s \in OnTheWay
    /\ entries[s].pending => (entries[s].scheduled <=> entries[s].fresh)
    /\ entries[s].waiting => ~entries[s].pending
Editing(s) == {e \in Editors : editor[e].source = s /\ editor[e].active}
EditorsCounted(s) ==
    /\ entries[s].updates = Cardinality(Editing(s))
    /\ setting[s].caching =>
          \A e \in Editors : editor[e].source = s /\ editor[e].pc \in {"write", "update", "finish"} => ~editor[e].active

\* For as long as an update is on its way to the player no query is made.
InTime(s) == Unedited(s) /\ setting[s] = player[s] /\ ~deferred[s]
QueriesAreInTime(s) ==
    /\ deferred[s] => ~Unedited(s) \/ entries[s].settle = 2 \/ graphics # "idle"
    /\ \A job \in Elements(batch) :
          job.source = s /\ job.type = "query" /\ entries[s].fresh => InTime(s)

\* Jobs that have not run.
SetsAreDue(s) ==
    \A job \in Elements(jobs) \cup Elements(batch) : job.source = s /\ job.type = "set" =>
        /\ entries[s].fresh => Unedited(s) /\ setting[s].file = job.file /\ (setting[s].caching # job.enable)
        /\ job.enable =>
            /\ entries[s].initialized /\ entries[s].file = job.file /\ job.file \in Files
            /\ entries[s].reserved = Size(job.file)
            /\ ~setting[s].caching /\ ~player[s].caching

SameView(s, eligible) == AuxViews \/ signalled[s] \/ (Eligible(s) <=> eligible)
WriteIsValid ==
    graphics = "write" =>
        LET job == Head(batch) s == job.source IN
        /\ job.type = "set"
        /\ ~Removed(s) =>
            /\ Unedited(s) /\ setting[s].caching # job.enable
            /\ job.enable => setting[s].file = job.file /\ (entries[s].fresh => SameView(s, TRUE))

\* Jobs that have run.
QueryIsTrue(s, result) ==
    result.job.type = "query" /\ entries[s].fresh =>
        /\ result.valid /\ InTime(s)
        /\ result.file = setting[s].file /\ result.caching = setting[s].caching
        /\ result.bytes \in {0, Size(setting[s].file)}
        /\ SameView(s, result.eligible)

SetIsTrue(s, result, here) ==
    result.job.type = "set" =>
        /\ result.bytes = 0
        /\ result.job.enable /\ result.applied =>
            /\ entries[s].initialized /\ entries[s].file = result.job.file /\ result.job.file \in Files
            /\ entries[s].reserved = Size(result.job.file)
            /\ entries[s].fresh => Unedited(s) /\ setting[s].caching /\ setting[s].file = result.job.file /\ SameView(s, TRUE)
        /\ result.job.enable /\ ~result.applied => ~setting[s].caching /\ ~player[s].caching
        /\ ~result.job.enable /\ result.applied =>
            ~setting[s].caching /\ (~player[s].caching \/ (deferred[s] /\ here))
ResultsAreTrue(s) ==
    /\ \A result \in Elements(results) : result.job.source = s => QueryIsTrue(s, result) /\ SetIsTrue(s, result, TRUE)
    /\ \A result \in Elements(completions) :
          result.job.source = s => QueryIsTrue(s, result) /\ SetIsTrue(s, result, graphics = "sources")

\* What is cached is reserved, but for the moment between a cache that was
\* disabled and its player.
CacheIsReserved(s) ==
    /\ entries[s].initialized =>
        /\ player[s].caching =>
            \/ entries[s].reserved = Size(player[s].file)
            \/ graphics = "sources" /\ deferred[s] /\ ~setting[s].caching
        /\ setting[s].caching => entries[s].reserved = Size(setting[s].file) /\ entries[s].file = setting[s].file
    /\ ~entries[s].initialized =>
        /\ entries[s].reserved = 0
        /\ TRUE \notin SavedCaching => ~setting[s].caching /\ ~player[s].caching

\* What was evaluated and not touched since is settled.
EvaluatedIsSettled(s) ==
    entries[s].scheduled /\ ~entries[s].pending =>
        /\ Unedited(s)
        /\ setting[s].caching <=> entries[s].reserved # 0
        /\ entries[s].reserved # 0 => entries[s].reserved = Size(setting[s].file) /\ SameView(s, TRUE)
        /\ entries[s].waiting => rebalance \/ Size(setting[s].file) > Budget - reserved

Known(s) ==
    /\ PendingIsOnTheWay(s) /\ EditorsCounted(s) /\ QueriesAreInTime(s) /\ SetsAreDue(s)
    /\ ResultsAreTrue(s) /\ CacheIsReserved(s) /\ EvaluatedIsSettled(s)
SourceInv(s) == Untouched(s) /\ UpdateArrives(s) /\ (Removed(s) \/ Known(s))

ReservationsAdd == reserved = Bytes(Reservations, {s \in Sources : entries[s].life # "gone"}) /\ reserved <= Budget
CachesFit == TRUE \notin SavedCaching /\ Accepting => Bytes(CachedSizes, {s \in Sources : Tracked(s)}) <= Budget

MediaInv ==
    /\ MediaTypes /\ OneJobEach /\ NobodyForgotten /\ EditorsInOrder /\ WriteIsValid
    /\ \A s \in Sources : SourceInv(s)
    /\ ReservationsAdd /\ CachesFit

-----------------------------------------------------------------------------
(* Sequences of jobs *)

\* f says from which place each of the picked elements comes.
Picking(f, q, places) ==
    /\ f \in [1..Cardinality(places) -> places]
    /\ \A n \in 1..Cardinality(places) : Picked(q, places)[n] = q[f[n]]
    /\ \A m, n \in 1..Cardinality(places) : f[m] = f[n] => m = n
    /\ \A i \in places : \E n \in 1..Cardinality(places) : f[n] = i

LEMMA PickedIs ==
    ASSUME NEW S, NEW q \in Seq(S), NEW places \in SUBSET DOMAIN q
    PROVE  /\ Picked(q, places) \in Seq(S)
           /\ Len(Picked(q, places)) = Cardinality(places)
           /\ \E f : Picking(f, q, places)
<1> DEFINE N == Cardinality(places)
           Below(i) == {j \in places : j < i}
           rank == [i \in places |-> Cardinality(Below(i)) + 1]
           nth == [n \in 1..N |-> CHOOSE i \in places : Cardinality({j \in places : j < i}) = n - 1]
<1>1. DOMAIN q = 1..Len(q) /\ Len(q) \in Nat
  OBVIOUS
<1>2. IsFiniteSet(places) /\ N \in Nat
  <2>1. IsFiniteSet(1..Len(q)) /\ places \in SUBSET (1..Len(q))
    BY <1>1, FS_Interval
  <2>2. IsFiniteSet(places)
    BY <2>1, FS_Subset
  <2> QED BY <2>2, FS_CardinalityType
<1>3. ASSUME NEW i \in places
      PROVE  /\ IsFiniteSet(Below(i)) /\ Cardinality(Below(i)) \in Nat
             /\ Cardinality(Below(i)) < N
  <2>1. Below(i) \in SUBSET (places \ {i})
    BY <1>1
  <2>2. IsFiniteSet(places \ {i}) /\ Cardinality(places \ {i}) = N - 1
    BY <1>2, FS_RemoveElement
  <2> HIDE DEF Below
  <2>3. IsFiniteSet(Below(i)) /\ Cardinality(Below(i)) <= Cardinality(places \ {i})
    BY <2>1, <2>2, FS_Subset
  <2> HIDE DEF N
  <2> QED BY <1>2, <2>2, <2>3, FS_CardinalityType
<1>4. ASSUME NEW i \in places, NEW k \in places, i < k
      PROVE  rank[i] # rank[k]
  <2>1. i \in Below(k) /\ i \notin Below(i) /\ Below(i) \in SUBSET Below(k)
    BY <1>1, <1>4
  <2>2. Cardinality(Below(k)) # Cardinality(Below(i))
    <3> HIDE DEF Below
    <3> QED BY <1>3, <2>1, FS_Subset
  <2>3. rank[i] = Cardinality(Below(i)) + 1 /\ rank[k] = Cardinality(Below(k)) + 1
    OBVIOUS
  <2> HIDE DEF Below, rank
  <2> QED BY <1>3, <2>2, <2>3
<1>5. rank \in [places -> 1..N]
  BY <1>2, <1>3
<1>6. \A i, k \in places : rank[i] = rank[k] => i = k
  <2> HIDE DEF rank
  <2> QED BY <1>1, <1>4
<1>7. rank \in Injection(places, 1..N)
  <2> HIDE DEF rank
  <2> QED BY <1>5, <1>6 DEF Injection, IsInjective
<1>8. Cardinality(1..N) = N /\ IsFiniteSet(1..N)
  BY <1>2, FS_Interval
<1>9. rank \in Surjection(places, 1..N)
  <2> HIDE DEF rank
  <2> QED BY <1>7, <1>8, FS_Injection
<1>10. \A n \in 1..N : \E i \in places : rank[i] = n
  <2> HIDE DEF rank
  <2> QED BY <1>9 DEF Surjection
<1>11. ASSUME NEW n \in 1..N
       PROVE  nth[n] \in places /\ rank[nth[n]] = n
  <2>1. PICK i \in places : rank[i] = n
    BY <1>10
  <2>2. Cardinality({j \in places : j < i}) = n - 1
    <3>1. rank[i] = Cardinality(Below(i)) + 1 /\ Cardinality(Below(i)) \in Nat
      BY <1>3
    <3>2. Cardinality(Below(i)) = n - 1
      <4> HIDE DEF Below, rank
      <4> QED BY <2>1, <3>1
    <3> QED BY <3>2
  <2>3. nth[n] \in places /\ Cardinality({j \in places : j < nth[n]}) = n - 1
    BY <2>2
  <2>4. rank[nth[n]] = Cardinality(Below(nth[n])) + 1
    BY <2>3
  <2>5. Cardinality(Below(nth[n])) = n - 1
    BY <2>3
  <2> HIDE DEF Below, rank, nth
  <2> QED BY <2>3, <2>4, <2>5, <1>2
<1>12. Picked(q, places) = [n \in 1..N |-> q[nth[n]]]
  BY DEF Picked
<1> HIDE DEF rank, nth, N
<1>13. nth \in [1..N -> places]
  BY <1>11 DEF nth
<1>14. \A n \in 1..N : q[nth[n]] \in S
  BY <1>1, <1>13
<1>15. Picked(q, places) \in Seq(S) /\ Len(Picked(q, places)) = N
  BY <1>2, <1>12, <1>14
<1>16. \A m, n \in 1..N : nth[m] = nth[n] => m = n
  BY <1>11
<1>17. \A i \in places : \E n \in 1..N : nth[n] = i
  BY <1>5, <1>6, <1>11
<1>18. \A n \in 1..N : Picked(q, places)[n] = q[nth[n]]
  BY <1>12
<1>19. Picking(nth, q, places)
  BY <1>13, <1>16, <1>17, <1>18 DEF Picking, N
<1> QED BY <1>15, <1>19 DEF N

\* What the sequences of jobs and of results hold, and that each holds it once,
\* after the steps that the actions are made of.
LEMMA ElementsIn ==
    ASSUME NEW S, NEW q \in Seq(S)
    PROVE  Elements(q) \subseteq S /\ (q = <<>> <=> Elements(q) = {})
<1>1. DOMAIN q = 1..Len(q) /\ Len(q) \in Nat /\ \A i \in DOMAIN q : q[i] \in S
  OBVIOUS
<1>2. ASSUME q # <<>>
      PROVE  q[1] \in Elements(q)
  <2>1. 1 \in DOMAIN q
    BY <1>2
  <2> QED BY <2>1 DEF Elements
<1>3. q = <<>> => Elements(q) = {}
  BY DEF Elements
<1> QED BY <1>1, <1>2, <1>3 DEF Elements

LEMMA Appended ==
    ASSUME NEW S, NEW q \in Seq(S), NEW x \in S, x \notin Elements(q), Distinct(q)
    PROVE  /\ Append(q, x) \in Seq(S) /\ Append(q, x) # <<>>
           /\ Elements(Append(q, x)) = Elements(q) \cup {x}
           /\ Distinct(Append(q, x))
<1> DEFINE a == Append(q, x)
<1>1. a \in Seq(S) /\ Len(a) = Len(q) + 1 /\ Len(q) \in Nat /\ a[Len(q) + 1] = x
  OBVIOUS
<1>2. DOMAIN a = 1..(Len(q) + 1) /\ DOMAIN q = 1..Len(q)
  BY <1>1
<1>3. \A i \in DOMAIN q : a[i] = q[i]
  OBVIOUS
<1> HIDE DEF a
<1>4. Elements(a) \subseteq Elements(q) \cup {x}
  BY <1>1, <1>2, <1>3 DEF Elements
<1>5. \A i \in DOMAIN q : q[i] \in Elements(a)
  BY <1>1, <1>2, <1>3 DEF Elements
<1>6. x \in Elements(a)
  <2>1. Len(q) + 1 \in DOMAIN a
    BY <1>1, <1>2
  <2> QED BY <1>1, <2>1 DEF Elements
<1>7. \A i \in DOMAIN q : q[i] \in Elements(q)
  BY DEF Elements
<1>8. ASSUME NEW i \in DOMAIN a, NEW j \in DOMAIN a, a[i] = a[j]
      PROVE  i = j
  <2>1. CASE i = Len(q) + 1
    BY <1>1, <1>2, <1>3, <1>7, <1>8, <2>1
  <2>2. CASE j = Len(q) + 1
    BY <1>1, <1>2, <1>3, <1>7, <1>8, <2>2
  <2>3. CASE i \in DOMAIN q /\ j \in DOMAIN q
    BY <1>3, <1>8, <2>3 DEF Distinct
  <2> QED BY <1>1, <1>2, <2>1, <2>2, <2>3
<1>9. Distinct(a)
  BY <1>8 DEF Distinct
<1>10. Elements(q) \subseteq Elements(a)
  BY <1>5 DEF Elements
<1>11. a # <<>>
  BY <1>1
<1> QED BY <1>1, <1>4, <1>6, <1>9, <1>10, <1>11 DEF a

LEMMA Shortened ==
    ASSUME NEW S, NEW q \in Seq(S), q # <<>>, Distinct(q)
    PROVE  /\ Tail(q) \in Seq(S) /\ Head(q) \in S /\ Head(q) \in Elements(q)
           /\ Elements(Tail(q)) = Elements(q) \ {Head(q)}
           /\ Distinct(Tail(q))
<1> DEFINE t == Tail(q)
<1>1. t \in Seq(S) /\ Len(t) = Len(q) - 1 /\ Len(q) \in Nat \ {0} /\ Head(q) = q[1] /\ Head(q) \in S
  OBVIOUS
<1>2. DOMAIN t = 1..(Len(q) - 1) /\ DOMAIN q = 1..Len(q)
  BY <1>1
<1>3. \A i \in DOMAIN t : t[i] = q[i + 1] /\ i + 1 \in DOMAIN q
  BY <1>1, <1>2
<1> HIDE DEF t
<1>4. Head(q) \in Elements(q)
  <2>1. 1 \in DOMAIN q
    BY <1>1, <1>2
  <2> QED BY <1>1, <2>1 DEF Elements
<1>5. Elements(t) \subseteq Elements(q) \ {Head(q)}
  <2> SUFFICES ASSUME NEW i \in DOMAIN t
               PROVE  t[i] \in Elements(q) /\ t[i] # Head(q)
    BY DEF Elements
  <2>1. t[i] = q[i + 1] /\ i + 1 \in DOMAIN q /\ 1 \in DOMAIN q /\ i + 1 # 1
    BY <1>1, <1>2, <1>3
  <2>2. t[i] \in Elements(q)
    BY <2>1 DEF Elements
  <2>3. q[i + 1] # q[1]
    BY <2>1 DEF Distinct
  <2> QED BY <1>1, <2>1, <2>2, <2>3
<1>6. Elements(q) \ {Head(q)} \subseteq Elements(t)
  <2> SUFFICES ASSUME NEW i \in DOMAIN q, q[i] # Head(q)
               PROVE  q[i] \in Elements(t)
    BY DEF Elements
  <2>1. i - 1 \in DOMAIN t /\ (i - 1) + 1 = i
    BY <1>1, <1>2
  <2>2. t[i - 1] = q[i]
    BY <1>3, <2>1
  <2> QED BY <2>1, <2>2 DEF Elements
<1>7. ASSUME NEW i \in DOMAIN t, NEW j \in DOMAIN t, t[i] = t[j]
      PROVE  i = j
  <2>1. q[i + 1] = q[j + 1] /\ i + 1 \in DOMAIN q /\ j + 1 \in DOMAIN q
    BY <1>3, <1>7
  <2>2. i + 1 = j + 1
    BY <2>1 DEF Distinct
  <2> QED BY <1>2, <2>2, <1>1
<1>8. Distinct(t)
  BY <1>7 DEF Distinct
<1> QED BY <1>1, <1>4, <1>5, <1>6, <1>8 DEF t

LEMMA Joined ==
    ASSUME NEW S, NEW q \in Seq(S), NEW r \in Seq(S), Distinct(q), Distinct(r),
           Elements(q) \cap Elements(r) = {}
    PROVE  /\ q \o r \in Seq(S)
           /\ Elements(q \o r) = Elements(q) \cup Elements(r)
           /\ Distinct(q \o r)
<1> DEFINE c == q \o r
<1>1. c \in Seq(S) /\ Len(c) = Len(q) + Len(r) /\ Len(q) \in Nat /\ Len(r) \in Nat
  OBVIOUS
<1>2. DOMAIN c = 1..(Len(q) + Len(r)) /\ DOMAIN q = 1..Len(q) /\ DOMAIN r = 1..Len(r)
  BY <1>1
<1>3. \A i \in 1..(Len(q) + Len(r)) : c[i] = IF i <= Len(q) THEN q[i] ELSE r[i - Len(q)]
  OBVIOUS
<1> HIDE DEF c
<1>4. \A i \in DOMAIN c : (i \in DOMAIN q /\ c[i] = q[i]) \/ (i - Len(q) \in DOMAIN r /\ c[i] = r[i - Len(q)])
  BY <1>1, <1>2, <1>3
<1>5. \A i \in DOMAIN q : i \in DOMAIN c /\ c[i] = q[i]
  BY <1>1, <1>2, <1>3
<1>6. \A i \in DOMAIN r : i + Len(q) \in DOMAIN c /\ c[i + Len(q)] = r[i]
  BY <1>1, <1>2, <1>3
<1>7. Elements(c) \subseteq Elements(q) \cup Elements(r)
  BY <1>4 DEF Elements
<1>8. Elements(q) \cup Elements(r) \subseteq Elements(c)
  <2>1. \A i \in DOMAIN q : q[i] \in Elements(c)
    BY <1>5 DEF Elements
  <2>2. \A i \in DOMAIN r : r[i] \in Elements(c)
    BY <1>6 DEF Elements
  <2> QED BY <2>1, <2>2 DEF Elements
<1>9. ASSUME NEW i \in DOMAIN c, NEW j \in DOMAIN c, c[i] = c[j]
      PROVE  i = j
  <2>1. CASE i \in DOMAIN q /\ j \in DOMAIN q
    BY <1>5, <1>9, <2>1 DEF Distinct
  <2>2. CASE i \notin DOMAIN q /\ j \notin DOMAIN q
    <3>1. i - Len(q) \in DOMAIN r /\ j - Len(q) \in DOMAIN r /\ r[i - Len(q)] = r[j - Len(q)]
      BY <1>4, <1>9, <2>2
    <3>2. i - Len(q) = j - Len(q)
      BY <3>1 DEF Distinct
    <3> QED BY <1>1, <1>2, <3>2
  <2>3. CASE i \in DOMAIN q /\ j \notin DOMAIN q
    <3>1. c[i] \in Elements(q) /\ c[j] \in Elements(r)
      BY <1>4, <1>5, <2>3 DEF Elements
    <3> QED BY <1>9, <3>1
  <2>4. CASE i \notin DOMAIN q /\ j \in DOMAIN q
    <3>1. c[j] \in Elements(q) /\ c[i] \in Elements(r)
      BY <1>4, <1>5, <2>4 DEF Elements
    <3> QED BY <1>9, <3>1
  <2> QED BY <2>1, <2>2, <2>3, <2>4
<1>10. Distinct(c)
  BY <1>9 DEF Distinct
<1> QED BY <1>1, <1>7, <1>8, <1>10 DEF c

LEMMA PickedHolds ==
    ASSUME NEW S, NEW q \in Seq(S), NEW places \in SUBSET DOMAIN q, Distinct(q)
    PROVE  /\ Picked(q, places) \in Seq(S)
           /\ Elements(Picked(q, places)) = {q[i] : i \in places}
           /\ Distinct(Picked(q, places))
<1> DEFINE p == Picked(q, places)
           N == Cardinality(places)
<1>1. p \in Seq(S) /\ Len(p) = N
  BY PickedIs
<1>2. PICK f : Picking(f, q, places)
  BY PickedIs
<1>3. /\ f \in [1..N -> places]
      /\ \A n \in 1..N : p[n] = q[f[n]]
      /\ \A m, n \in 1..N : f[m] = f[n] => m = n
      /\ \A i \in places : \E n \in 1..N : f[n] = i
  BY <1>2 DEF Picking
<1> HIDE DEF p, N
<1>4. DOMAIN p = 1..N
  BY <1>1
<1>5. Elements(p) \subseteq {q[i] : i \in places}
  BY <1>3, <1>4 DEF Elements
<1>6. ASSUME NEW i \in places
      PROVE  q[i] \in Elements(p)
  <2>1. PICK n \in 1..N : f[n] = i
    BY <1>3
  <2> QED BY <1>3, <1>4, <2>1 DEF Elements
<1>7. Distinct(p)
  <2> SUFFICES ASSUME NEW m \in 1..N, NEW n \in 1..N, p[m] = p[n]
               PROVE  m = n
    BY <1>4 DEF Distinct
  <2>1. f[m] \in DOMAIN q /\ f[n] \in DOMAIN q /\ q[f[m]] = q[f[n]]
    BY <1>3
  <2>2. f[m] = f[n]
    BY <2>1 DEF Distinct
  <2> QED BY <1>3, <2>2
<1> QED BY <1>1, <1>5, <1>6, <1>7 DEF p

\* A tick takes a prefix of the queue, but for what is put off to the end.
LEMMA Parted ==
    ASSUME NEW S, NEW q \in Seq(S), NEW n \in 0..Len(q), NEW later \in SUBSET (1..n), Distinct(q)
    PROVE  /\ SubSeq(q, n + 1, Len(q)) \o Picked(q, later) \in Seq(S)
           /\ Picked(q, (1..n) \ later) \in Seq(S)
           /\ Elements(SubSeq(q, n + 1, Len(q)) \o Picked(q, later))
                = Elements(q) \ {q[i] : i \in (1..n) \ later}
           /\ Elements(Picked(q, (1..n) \ later)) = {q[i] : i \in (1..n) \ later}
           /\ {q[i] : i \in (1..n) \ later} \subseteq Elements(q)
           /\ Distinct(SubSeq(q, n + 1, Len(q)) \o Picked(q, later))
           /\ Distinct(Picked(q, (1..n) \ later))
<1> DEFINE b == SubSeq(q, n + 1, Len(q))
           now == (1..n) \ later
<1>1. DOMAIN q = 1..Len(q) /\ Len(q) \in Nat /\ n \in Nat /\ n <= Len(q)
  OBVIOUS
<1>2. later \in SUBSET DOMAIN q /\ now \in SUBSET DOMAIN q
  BY <1>1
<1>3. b \in Seq(S) /\ Len(b) = Len(q) - n
  <2>1. n + 1 \in Int /\ Len(q) \in Int /\ \A i \in (n + 1)..Len(q) : q[i] \in S
    BY <1>1
  <2>2. b \in Seq(S) /\ Len(b) = IF n + 1 <= Len(q) THEN Len(q) - (n + 1) + 1 ELSE 0
    BY <2>1, SubSeqProperties
  <2>3. (IF n + 1 <= Len(q) THEN Len(q) - (n + 1) + 1 ELSE 0) = Len(q) - n
    <3>1. \A k, l \in Nat : k <= l => (IF k + 1 <= l THEN l - (k + 1) + 1 ELSE 0) = l - k
      OBVIOUS
    <3> QED BY <1>1, <3>1
  <2> QED BY <2>2, <2>3
<1>4. DOMAIN b = 1..(Len(q) - n)
  <2> HIDE DEF b
  <2> QED BY <1>3, <1>1
<1>5. \A i \in DOMAIN b : b[i] = q[i + n] /\ i + n \in DOMAIN q
  BY <1>1, <1>4
<1> HIDE DEF b
<1>6. Elements(b) = {q[i] : i \in (n + 1)..Len(q)}
  <2>1. Elements(b) \subseteq {q[i] : i \in (n + 1)..Len(q)}
    <3> SUFFICES ASSUME NEW i \in DOMAIN b
                 PROVE  b[i] \in {q[k] : k \in (n + 1)..Len(q)}
      BY DEF Elements
    <3>1. i + n \in (n + 1)..Len(q) /\ b[i] = q[i + n]
      BY <1>1, <1>4, <1>5
    <3> QED BY <3>1
  <2>2. ASSUME NEW i \in (n + 1)..Len(q)
        PROVE  q[i] \in Elements(b)
    <3>1. i - n \in DOMAIN b /\ (i - n) + n = i
      BY <1>1, <1>4
    <3>2. b[i - n] = q[i]
      BY <1>5, <3>1
    <3> QED BY <3>1, <3>2 DEF Elements
  <2> QED BY <2>1, <2>2
<1>7. Distinct(b)
  <2> SUFFICES ASSUME NEW i \in DOMAIN b, NEW j \in DOMAIN b, b[i] = b[j]
               PROVE  i = j
    BY DEF Distinct
  <2>1. q[i + n] = q[j + n] /\ i + n \in DOMAIN q /\ j + n \in DOMAIN q
    BY <1>5
  <2>2. i + n = j + n
    BY <2>1 DEF Distinct
  <2> QED BY <1>1, <1>4, <2>2
<1>8. /\ Picked(q, later) \in Seq(S) /\ Distinct(Picked(q, later))
      /\ Elements(Picked(q, later)) = {q[i] : i \in later}
  BY <1>2, PickedHolds
<1>9. /\ Picked(q, now) \in Seq(S) /\ Distinct(Picked(q, now))
      /\ Elements(Picked(q, now)) = {q[i] : i \in now}
  BY <1>2, PickedHolds
<1>10. \A i, j \in DOMAIN q : i # j => q[i] # q[j]
  BY DEF Distinct
<1>11. Elements(b) \cap Elements(Picked(q, later)) = {}
  <2> SUFFICES ASSUME NEW i \in (n + 1)..Len(q), NEW j \in later
               PROVE  q[i] # q[j]
    BY <1>6, <1>8
  <2>1. i \in DOMAIN q /\ j \in DOMAIN q /\ i # j
    BY <1>1
  <2> QED BY <1>10, <2>1
<1>12. /\ b \o Picked(q, later) \in Seq(S) /\ Distinct(b \o Picked(q, later))
       /\ Elements(b \o Picked(q, later)) = Elements(b) \cup Elements(Picked(q, later))
  BY <1>3, <1>7, <1>8, <1>11, Joined
<1>13. \A i \in DOMAIN q : i \in (n + 1)..Len(q) \/ i \in later \/ i \in now
  BY <1>1
<1>14. Elements(b) \cup Elements(Picked(q, later)) = Elements(q) \ {q[i] : i \in now}
  <2> SUFFICES ASSUME NEW x
               PROVE  x \in Elements(b) \cup Elements(Picked(q, later))
                        <=> x \in Elements(q) \ {q[i] : i \in now}
    OBVIOUS
  <2>1. ASSUME NEW i \in ((n + 1)..Len(q)) \cup later
        PROVE  q[i] \in Elements(q) /\ q[i] \notin {q[k] : k \in now}
    <3>1. i \in DOMAIN q /\ \A k \in now : i # k /\ k \in DOMAIN q
      BY <1>1
    <3> HIDE DEF now
    <3> QED BY <1>10, <3>1 DEF Elements
  <2> HIDE DEF now
  <2>2. ASSUME NEW i \in DOMAIN q, q[i] \notin {q[k] : k \in now}
        PROVE  q[i] \in Elements(b) \cup Elements(Picked(q, later))
    BY <1>6, <1>8, <1>13, <2>2
  <2> QED BY <1>6, <1>8, <2>1, <2>2 DEF Elements
<1>15. {q[i] : i \in now} \subseteq Elements(q)
  BY <1>2 DEF Elements
<1> QED BY <1>9, <1>12, <1>14, <1>15 DEF b

-----------------------------------------------------------------------------
(* Bytes of several sources together *)

Bytewise(of, some) == UNION {{s} \X (1..of[s]) : s \in some}

\* Each source has its own bytes, and they are as many as its number says.
LEMMA BytesType ==
    ASSUME NEW some, IsFiniteSet(some), NEW of, \A s \in some : of[s] \in Nat
    PROVE  /\ IsFiniteSet(Bytewise(of, some))
           /\ Bytes(of, some) = Cardinality(Bytewise(of, some)) /\ Bytes(of, some) \in Nat
<1>1. \A s \in some : IsFiniteSet({s} \X (1..of[s]))
  <2> SUFFICES ASSUME NEW s \in some PROVE IsFiniteSet({s} \X (1..of[s]))
    OBVIOUS
  <2>1. IsFiniteSet({s})
    BY FS_Singleton
  <2>2. of[s] \in Int /\ 1 \in Int
    OBVIOUS
  <2>3. IsFiniteSet(1..of[s])
    BY <2>2, FS_Interval
  <2> QED BY <2>1, <2>3, FS_Product
<1>2. IsFiniteSet({{s} \X (1..of[s]) : s \in some})
  <2> DEFINE row == [s \in some |-> {s} \X (1..of[s])]
  <2>1. IsFiniteSet({row[s] : s \in some})
    <3> DEFINE rows == {row[s] : s \in some}
    <3>1. row \in Surjection(some, rows)
      BY DEF Surjection
    <3> HIDE DEF row, rows
    <3>2. IsFiniteSet(rows)
      BY <3>1, FS_Surjection
    <3> QED BY <3>2 DEF rows
  <2> QED BY <2>1
<1>3. IsFiniteSet(Bytewise(of, some))
  BY <1>1, <1>2, FS_UNION DEF Bytewise
<1> QED BY <1>3, FS_CardinalityType DEF Bytes, Bytewise

LEMMA BytesOfNobody ==
    ASSUME NEW of
    PROVE  Bytes(of, {}) = 0
BY FS_EmptySet DEF Bytes

LEMMA BytesOfOne ==
    ASSUME NEW s, NEW of, of[s] \in Nat
    PROVE  Bytes(of, {s}) = of[s]
<1>1. Bytewise(of, {s}) = {s} \X (1..of[s])
  BY DEF Bytewise
<1>2. IsFiniteSet({s}) /\ Cardinality({s}) = 1 /\ IsFiniteSet(1..of[s])
  <2>1. of[s] \in Int /\ 1 \in Int
    OBVIOUS
  <2> QED BY <2>1, FS_Singleton, FS_Interval
<1>3. Cardinality(1..of[s]) = of[s]
  <2>1. Cardinality(1..of[s]) = IF 1 <= of[s] THEN of[s] - 1 + 1 ELSE 0
    BY FS_Interval
  <2> QED BY <2>1
<1>4. Cardinality({s} \X (1..of[s])) = 1 * of[s]
  <2>1. Cardinality({s} \X (1..of[s])) = Cardinality({s}) * Cardinality(1..of[s])
    BY <1>2, FS_Product
  <2> QED BY <1>2, <1>3, <2>1
<1> QED BY <1>1, <1>4 DEF Bytes, Bytewise

LEMMA BytesOfMost ==
    ASSUME NEW some, IsFiniteSet(some), NEW more, IsFiniteSet(more), some \subseteq more,
           NEW of, NEW most, \A s \in some : of[s] \in Nat, \A s \in more : most[s] \in Nat,
           \A s \in some : of[s] <= most[s]
    PROVE  Bytes(of, some) <= Bytes(most, more)
<1>1. Bytewise(of, some) \subseteq Bytewise(most, more)
  <2> SUFFICES ASSUME NEW s \in some, NEW k \in 1..of[s]
               PROVE  <<s, k>> \in {s} \X (1..most[s]) /\ s \in more
    BY DEF Bytewise
  <2>1. s \in more /\ most[s] \in Nat /\ of[s] \in Nat /\ of[s] <= most[s]
    OBVIOUS
  <2> QED BY <2>1
<1>2. IsFiniteSet(Bytewise(most, more))
  BY BytesType
<1>3. Cardinality(Bytewise(of, some)) <= Cardinality(Bytewise(most, more))
  BY <1>1, <1>2, FS_Subset
<1> QED BY <1>3 DEF Bytes, Bytewise

LEMMA BytesOfBoth ==
    ASSUME NEW some, IsFiniteSet(some), NEW others, IsFiniteSet(others), some \cap others = {},
           NEW of, \A s \in some \cup others : of[s] \in Nat
    PROVE  Bytes(of, some \cup others) = Bytes(of, some) + Bytes(of, others)
<1>1. Bytewise(of, some \cup others) = Bytewise(of, some) \cup Bytewise(of, others)
  BY DEF Bytewise
<1>2. Bytewise(of, some) \cap Bytewise(of, others) = {}
  BY DEF Bytewise
<1>3. /\ IsFiniteSet(Bytewise(of, some)) /\ IsFiniteSet(Bytewise(of, others))
      /\ Cardinality(Bytewise(of, some)) \in Nat /\ Cardinality(Bytewise(of, others)) \in Nat
  BY BytesType
<1>4. Cardinality(Bytewise(of, some \cup others))
        = Cardinality(Bytewise(of, some)) + Cardinality(Bytewise(of, others)) - 0
  <2> DEFINE A == Bytewise(of, some)
             B == Bytewise(of, others)
  <2>1. IsFiniteSet(A) /\ IsFiniteSet(B) /\ A \cap B = {}
    BY <1>2, <1>3
  <2> HIDE DEF A, B
  <2>2. Cardinality(A \cup B) = Cardinality(A) + Cardinality(B) - Cardinality(A \cap B)
    BY <2>1, FS_Union
  <2>3. Cardinality(A \cup B) = Cardinality(A) + Cardinality(B) - 0
    BY <2>1, <2>2, FS_EmptySet
  <2> QED BY <1>1, <2>3 DEF A, B
<1>5. /\ Bytes(of, some \cup others) = Cardinality(Bytewise(of, some \cup others))
      /\ Bytes(of, some) = Cardinality(Bytewise(of, some))
      /\ Bytes(of, others) = Cardinality(Bytewise(of, others))
  BY DEF Bytes, Bytewise
<1> QED BY <1>3, <1>4, <1>5

\* Who has what it had adds up to what it did.
LEMMA BytesOfSame ==
    ASSUME NEW some, NEW of, NEW now, \A s \in some : now[s] = of[s]
    PROVE  Bytes(now, some) = Bytes(of, some)
<1>1. {{s} \X (1..of[s]) : s \in some} = {{s} \X (1..now[s]) : s \in some}
  OBVIOUS
<1> QED BY <1>1 DEF Bytes

\* One source has another number.
LEMMA BytesChange ==
    ASSUME NEW some, IsFiniteSet(some), NEW one \in some, NEW of, NEW now,
           \A s \in some : of[s] \in Nat, now[one] \in Nat,
           \A s \in some : s # one => now[s] = of[s]
    PROVE  /\ Bytes(now, some) = Bytes(of, some) - of[one] + now[one]
           /\ Bytes(of, some) \in Nat /\ of[one] <= Bytes(of, some)
<1> DEFINE rest == some \ {one}
<1>1. IsFiniteSet(rest) /\ IsFiniteSet({one}) /\ rest \cap {one} = {} /\ some = rest \cup {one}
  <2>1. IsFiniteSet(rest)
    BY FS_RemoveElement
  <2>2. IsFiniteSet({one})
    BY FS_Singleton
  <2> QED BY <2>1, <2>2
<1>2. \A s \in rest : now[s] = of[s] /\ of[s] \in Nat
  OBVIOUS
<1>3. \A s \in rest \cup {one} : of[s] \in Nat /\ now[s] \in Nat
  BY <1>2
<1> HIDE DEF rest
<1>4. /\ Bytes(of, some) = Bytes(of, rest) + Bytes(of, {one})
      /\ Bytes(now, some) = Bytes(now, rest) + Bytes(now, {one})
  BY <1>1, <1>3, BytesOfBoth
<1>5. Bytes(now, rest) = Bytes(of, rest)
  BY <1>2, BytesOfSame
<1>6. Bytes(of, {one}) = of[one] /\ Bytes(now, {one}) = now[one]
  BY <1>1, <1>3, BytesOfOne
<1>7. Bytes(of, rest) \in Nat
  BY <1>1, <1>2, BytesType
<1> QED BY <1>3, <1>4, <1>5, <1>6, <1>7

LEMMA BytesOfNothing ==
    ASSUME NEW some, NEW of, \A s \in some : of[s] = 0
    PROVE  Bytes(of, some) = 0
<1>1. \A s \in some : 1..of[s] = {}
  <2> SUFFICES ASSUME NEW s \in some PROVE 1..of[s] = {}
    OBVIOUS
  <2>1. of[s] = 0
    OBVIOUS
  <2> QED BY <2>1
<1>2. UNION {{s} \X (1..of[s]) : s \in some} = {}
  BY <1>1
<1> QED BY <1>2, FS_EmptySet DEF Bytes

-----------------------------------------------------------------------------
(* Jobs on their way: what each kind of step does to the four sequences *)

LEMMA RunsOne ==
    ASSUME MediaTypes, OneJobEach, batch # <<>>,
           NEW result \in ResultRecords, result.job = Head(batch), Finish(result)
    PROVE  /\ Head(batch) \in JobRecords /\ Head(batch) \in Elements(batch)
           /\ batch' \in Seq(JobRecords) /\ results' \in Seq(ResultRecords)
           /\ Elements(batch') = Elements(batch) \ {Head(batch)}
           /\ Elements(results') = Elements(results) \cup {result}
           /\ Distinct(batch') /\ Distinct(results')
           /\ OneOfEach(Elements(batch')) /\ OneResultOfEach(Elements(results'))
           /\ Taken' = Taken \ {Head(batch).source}
           /\ Posting' = Posting \cup {Head(batch).source}
           /\ Head(batch).source \in Taken
           /\ graphics' \in {"run", "post"} /\ (graphics' = "run" <=> batch' # <<>>)
<1>1. /\ Tail(batch) \in Seq(JobRecords) /\ Head(batch) \in JobRecords /\ Head(batch) \in Elements(batch)
      /\ Elements(Tail(batch)) = Elements(batch) \ {Head(batch)} /\ Distinct(Tail(batch))
  BY Shortened DEF MediaTypes, OneJobEach
<1>2. Head(batch).source \in Taken
  BY <1>1 DEF Taken
<1>3. result \notin Elements(results)
  BY <1>2 DEF OneJobEach, Posting
<1>4. /\ Append(results, result) \in Seq(ResultRecords) /\ Distinct(Append(results, result))
      /\ Elements(Append(results, result)) = Elements(results) \cup {result}
  BY <1>3, Appended DEF MediaTypes, OneJobEach
<1>5. batch' = Tail(batch) /\ results' = Append(results, result)
      /\ graphics' \in {"run", "post"} /\ (graphics' = "run" <=> batch' # <<>>)
  BY DEF Finish
<1>6. OneOfEach(Elements(batch'))
  BY <1>1, <1>5 DEF OneJobEach, OneOfEach
<1>7. OneResultOfEach(Elements(results'))
  <2>1. \A r \in Elements(results) : r.job.source # Head(batch).source
    BY <1>2 DEF OneJobEach, Posting
  <2> QED BY <1>4, <1>5, <2>1 DEF OneJobEach, OneResultOfEach
<1>8. Taken' = Taken \ {Head(batch).source}
  BY <1>1, <1>5 DEF OneJobEach, OneOfEach, Taken
<1>9. Posting' = Posting \cup {Head(batch).source}
  BY <1>4, <1>5 DEF Posting
<1> QED BY <1>1, <1>2, <1>4, <1>5, <1>6, <1>7, <1>8, <1>9

\* The first job of a tick callback is run, and the rest stay where they are.
LEMMA RunKeepsWays ==
    ASSUME MediaTypes, OneJobEach, batch # <<>>, UNCHANGED <<jobs, completions>>,
           NEW result \in ResultRecords, result.job = Head(batch), Finish(result)
    PROVE  OneJobEach' /\ OnTheWay' = OnTheWay
<1>1. Queued' = Queued /\ Posted' = Posted
  BY DEF Queued, Posted
<1>2. /\ Taken' = Taken \ {Head(batch).source} /\ Posting' = Posting \cup {Head(batch).source}
      /\ Head(batch).source \in Taken
      /\ Distinct(batch') /\ Distinct(results')
      /\ OneOfEach(Elements(batch')) /\ OneResultOfEach(Elements(results'))
      /\ graphics' \in {"run", "post"} /\ (graphics' = "run" <=> batch' # <<>>)
  BY RunsOne
<1>3. OneJobEach'
  BY <1>1, <1>2 DEF OneJobEach
<1> QED BY <1>1, <1>2, <1>3 DEF OnTheWay

LEMMA TakesSome ==
    ASSUME MediaTypes, OneJobEach, TickTakes
    PROVE  /\ jobs' \in Seq(JobRecords) /\ batch' \in Seq(JobRecords)
           /\ Elements(jobs') = Elements(jobs) \ Elements(batch')
           /\ Elements(batch') \subseteq Elements(jobs)
           /\ \A job \in Elements(batch') :
                ~Delayed([s \in Sources |-> [entries[s] EXCEPT !.settle = IF @ = 0 THEN 0 ELSE @ - 1]], job)
           /\ OneJobEach' /\ OnTheWay' = OnTheWay
<1> DEFINE es == [s \in Sources |-> [entries[s] EXCEPT !.settle = IF @ = 0 THEN 0 ELSE @ - 1]]
           n == IF Len(jobs) < JobsPerTick THEN Len(jobs) ELSE JobsPerTick
           later == {i \in 1..n : Delayed(es, jobs[i])}
           now == {jobs[i] : i \in (1..n) \ later}
<1>1. jobs \in Seq(JobRecords) /\ Len(jobs) \in Nat /\ JobsPerTick \in Nat
  BY MediaCacheAssumption DEF MediaTypes
<1>2. n \in 0..Len(jobs)
  BY <1>1
<1>3. later \in SUBSET (1..n)
  OBVIOUS
<1>4. /\ jobs' = SubSeq(jobs, n + 1, Len(jobs)) \o Picked(jobs, later)
      /\ batch' = Picked(jobs, (1..n) \ later)
      /\ graphics' = IF batch' = <<>> THEN "sources" ELSE "run"
      /\ UNCHANGED <<completions, results>> /\ graphics = "idle"
  BY DEF TickTakes
<1>5. \A job \in now : ~Delayed(es, job)
  OBVIOUS
<1> HIDE DEF es, n, later
<1>6. /\ jobs' \in Seq(JobRecords) /\ batch' \in Seq(JobRecords)
      /\ Elements(jobs') = Elements(jobs) \ now /\ Elements(batch') = now
      /\ now \subseteq Elements(jobs)
      /\ Distinct(jobs') /\ Distinct(batch')
  <2>1. Distinct(jobs)
    BY DEF OneJobEach
  <2>2. /\ SubSeq(jobs, n + 1, Len(jobs)) \o Picked(jobs, later) \in Seq(JobRecords)
        /\ Picked(jobs, (1..n) \ later) \in Seq(JobRecords)
        /\ Elements(SubSeq(jobs, n + 1, Len(jobs)) \o Picked(jobs, later))
             = Elements(jobs) \ {jobs[i] : i \in (1..n) \ later}
        /\ Elements(Picked(jobs, (1..n) \ later)) = {jobs[i] : i \in (1..n) \ later}
        /\ {jobs[i] : i \in (1..n) \ later} \subseteq Elements(jobs)
        /\ Distinct(SubSeq(jobs, n + 1, Len(jobs)) \o Picked(jobs, later))
        /\ Distinct(Picked(jobs, (1..n) \ later))
    BY <1>1, <1>2, <1>3, <2>1, Parted
  <2> QED BY <1>4, <2>2
<1> HIDE DEF now
<1>7. batch = <<>> /\ Elements(batch) = {} /\ results = <<>>
  BY <1>1, <1>4, ElementsIn DEF OneJobEach, MediaTypes
<1>8. OneOfEach(Elements(jobs')) /\ OneOfEach(Elements(batch'))
  BY <1>6 DEF OneOfEach, OneJobEach
<1>9. Queued' = {job.source : job \in Elements(jobs) \ now} /\ Taken' = {job.source : job \in now}
  BY <1>6 DEF Queued, Taken
<1>10. Queued' \cap Taken' = {} /\ Queued' \cup Taken' = Queued
  BY <1>6, <1>9 DEF OneOfEach, OneJobEach, Queued
<1>11. Posting' = Posting /\ Posted' = Posted /\ Taken = {}
  BY <1>4, <1>7 DEF Posting, Posted, Taken
<1>12. OneJobEach'
  <2>1. graphics' \in {"run", "write"} <=> batch' # <<>>
    BY <1>4
  <2>2. graphics' \in {"idle", "sources"} => results' = <<>>
    BY <1>4, <1>7
  <2>3. Queued \cap (Posting \cup Posted) = {} /\ Posting \cap Posted = {}
    BY DEF OneJobEach
  <2>4. Distinct(results') /\ Distinct(completions') /\ OneResultOfEach(Elements(results')) /\ OneResultOfEach(Elements(completions'))
    BY <1>4 DEF OneJobEach
  <2> QED BY <1>6, <1>8, <1>10, <1>11, <2>1, <2>2, <2>3, <2>4 DEF OneJobEach
<1>13. OnTheWay' = OnTheWay
  BY <1>10, <1>11 DEF OnTheWay
<1> QED BY <1>5, <1>6, <1>12, <1>13 DEF es

LEMMA PostsAll ==
    ASSUME MediaTypes, OneJobEach, TickPosts
    PROVE  /\ completions' \in Seq(ResultRecords) /\ results' = <<>>
           /\ Elements(completions') = Elements(completions) \cup Elements(results)
           /\ Elements(results') = {}
           /\ OneJobEach' /\ OnTheWay' = OnTheWay
<1>1. /\ completions' = completions \o results /\ results' = <<>> /\ graphics' = "sources"
      /\ UNCHANGED <<jobs, batch>> /\ graphics = "post"
  BY DEF TickPosts
<1>2. Posting \cap Posted = {}
  BY DEF OneJobEach
<1>3. Elements(completions) \cap Elements(results) = {}
  BY <1>2 DEF Posting, Posted
<1>4. /\ completions' \in Seq(ResultRecords) /\ Distinct(completions')
      /\ Elements(completions') = Elements(completions) \cup Elements(results)
  BY <1>1, <1>3, Joined DEF OneJobEach, MediaTypes
<1>5. Elements(results') = {} /\ Distinct(results')
  BY <1>1 DEF Elements, Distinct
<1>6. OneResultOfEach(Elements(completions')) /\ OneResultOfEach(Elements(results'))
  BY <1>2, <1>4, <1>5 DEF OneJobEach, OneResultOfEach, Posting, Posted
<1>7. Posted' = Posted \cup Posting /\ Posting' = {} /\ Queued' = Queued /\ Taken' = Taken
  BY <1>1, <1>4, <1>5 DEF Posted, Posting, Queued, Taken
<1>8. Distinct(jobs') /\ Distinct(batch') /\ OneOfEach(Elements(jobs')) /\ OneOfEach(Elements(batch'))
  BY <1>1 DEF OneJobEach
<1>9. batch' = <<>>
  BY <1>1 DEF OneJobEach
<1>10. OneJobEach'
  BY <1>1, <1>4, <1>5, <1>6, <1>7, <1>8, <1>9 DEF OneJobEach
<1> QED BY <1>1, <1>4, <1>5, <1>7, <1>10 DEF OnTheWay

\* The worker cancels the queued jobs of sources that are not known any more.
LEMMA CancelsSome ==
    ASSUME MediaTypes, OneJobEach, WorkerWakes
    PROVE  /\ jobs' \in Seq(JobRecords)
           /\ Elements(jobs') = {job \in Elements(jobs) : ~Removed(job.source)}
           /\ OneJobEach' /\ OnTheWay' \subseteq OnTheWay
           /\ \A s \in Sources : ~Removed(s) => (s \in OnTheWay' <=> s \in OnTheWay)
<1> DEFINE places == {i \in DOMAIN jobs : ~Removed(jobs[i].source)}
<1>1. jobs' = Picked(jobs, places) /\ UNCHANGED <<completions, batch, results, graphics>>
  BY DEF WorkerWakes, graphicsVars
<1>2. places \in SUBSET DOMAIN jobs
  OBVIOUS
<1>3. {jobs[i] : i \in places} = {job \in Elements(jobs) : ~Removed(job.source)}
  BY DEF Elements
<1> HIDE DEF places
<1>4. jobs' \in Seq(JobRecords) /\ Distinct(jobs')
      /\ Elements(jobs') = {job \in Elements(jobs) : ~Removed(job.source)}
  BY <1>1, <1>2, <1>3, PickedHolds DEF OneJobEach, MediaTypes
<1>5. Taken' = Taken /\ Posting' = Posting /\ Posted' = Posted
  BY <1>1 DEF Taken, Posting, Posted
<1>6. Queued' = {job.source : job \in {j \in Elements(jobs) : ~Removed(j.source)}}
  BY <1>4 DEF Queued
<1>7. Queued' \subseteq Queued /\ \A s \in Sources : ~Removed(s) => (s \in Queued' <=> s \in Queued)
  BY <1>6 DEF Queued
<1>8. OneOfEach(Elements(jobs'))
  BY <1>4 DEF OneJobEach, OneOfEach
<1>9. /\ Distinct(batch') /\ OneOfEach(Elements(batch')) /\ Distinct(results') /\ Distinct(completions')
      /\ OneResultOfEach(Elements(results')) /\ OneResultOfEach(Elements(completions'))
      /\ graphics' \in {"run", "write"} <=> batch' # <<>>
      /\ graphics' \in {"idle", "sources"} => results' = <<>>
  BY <1>1 DEF OneJobEach
<1>10. OneJobEach'
  BY <1>4, <1>5, <1>7, <1>8, <1>9 DEF OneJobEach
<1> QED BY <1>4, <1>5, <1>7, <1>10 DEF OnTheWay

\* The worker takes the first completion, and may queue a job for its source.
LEMMA CompletesOne ==
    ASSUME MediaTypes, OneJobEach, completions # <<>>, completions' = Tail(completions),
           UNCHANGED <<batch, results, graphics>>
    PROVE  /\ completions' \in Seq(ResultRecords) /\ Head(completions) \in ResultRecords
           /\ Head(completions) \in Elements(completions)
           /\ Elements(completions') = Elements(completions) \ {Head(completions)}
           /\ Head(completions).job.source \in Posted
           /\ Posted' = Posted \ {Head(completions).job.source}
           /\ jobs' = jobs => OneJobEach' /\ OnTheWay' = OnTheWay \ {Head(completions).job.source}
           /\ \A job \in JobRecords :
                job.source = Head(completions).job.source /\ jobs' = Append(jobs, job) =>
                    /\ jobs' \in Seq(JobRecords) /\ Elements(jobs') = Elements(jobs) \cup {job}
                    /\ OneJobEach' /\ OnTheWay' = OnTheWay
<1> DEFINE r == Head(completions)
           s == r.job.source
<1>1. /\ completions' \in Seq(ResultRecords) /\ r \in ResultRecords /\ r \in Elements(completions)
      /\ Elements(completions') = Elements(completions) \ {r} /\ Distinct(completions')
  BY Shortened DEF OneJobEach, MediaTypes
<1> HIDE DEF r
<1>2. s \in Posted
  BY <1>1 DEF Posted
<1>3. Posted' = Posted \ {s}
  BY <1>1 DEF Posted, OneJobEach, OneResultOfEach
<1>4. OneResultOfEach(Elements(completions'))
  BY <1>1 DEF OneJobEach, OneResultOfEach
<1>5. Taken' = Taken /\ Posting' = Posting
  BY DEF Taken, Posting
<1>6. s \notin Queued /\ s \notin Taken /\ s \notin Posting
  BY <1>2 DEF OneJobEach
<1>7. /\ Distinct(batch') /\ OneOfEach(Elements(batch')) /\ Distinct(results')
      /\ OneResultOfEach(Elements(results'))
      /\ graphics' \in {"run", "write"} <=> batch' # <<>>
      /\ graphics' \in {"idle", "sources"} => results' = <<>>
  BY DEF OneJobEach
<1>8. ASSUME jobs' = jobs
      PROVE  OneJobEach' /\ OnTheWay' = OnTheWay \ {s}
  <2>1. Queued' = Queued /\ Distinct(jobs') /\ OneOfEach(Elements(jobs'))
    BY <1>8 DEF Queued, OneJobEach
  <2>2. OneJobEach'
    BY <1>1, <1>3, <1>4, <1>5, <1>7, <2>1 DEF OneJobEach
  <2> QED BY <1>3, <1>5, <1>6, <2>1, <2>2 DEF OnTheWay
<1>9. ASSUME NEW job \in JobRecords, job.source = s, jobs' = Append(jobs, job)
      PROVE  /\ jobs' \in Seq(JobRecords) /\ Elements(jobs') = Elements(jobs) \cup {job}
             /\ OneJobEach' /\ OnTheWay' = OnTheWay
  <2>1. job \notin Elements(jobs)
    BY <1>6, <1>9 DEF Queued
  <2>2. jobs' \in Seq(JobRecords) /\ Elements(jobs') = Elements(jobs) \cup {job} /\ Distinct(jobs')
    BY <1>9, <2>1, Appended DEF OneJobEach, MediaTypes
  <2>3. Queued' = Queued \cup {s}
    BY <1>9, <2>2 DEF Queued
  <2>4. OneOfEach(Elements(jobs'))
    BY <1>6, <1>9, <2>2 DEF OneJobEach, OneOfEach, Queued
  <2>5. OneJobEach'
    BY <1>1, <1>3, <1>4, <1>5, <1>6, <1>7, <2>2, <2>3, <2>4 DEF OneJobEach
  <2> QED BY <1>2, <1>3, <1>5, <2>2, <2>3, <2>5 DEF OnTheWay
<1> QED BY <1>1, <1>2, <1>3, <1>8, <1>9 DEF r

LEMMA AsksAgain ==
    ASSUME MediaTypes, OneJobEach, Schedule,
           \A s \in Sources : Wanted(s) => s \notin OnTheWay
    PROVE  /\ jobs' \in Seq(JobRecords)
           /\ Elements(jobs') = Elements(jobs) \cup {QueryJob(s) : s \in {t \in Sources : Wanted(t)}}
           /\ OneJobEach' /\ OnTheWay' = OnTheWay \cup {s \in Sources : Wanted(s)}
<1> DEFINE wanted == {s \in Sources : Wanted(s)}
<1>1. PICK asking \in [1..Cardinality(wanted) -> wanted] :
        /\ \A s \in wanted : \E i \in DOMAIN asking : asking[i] = s
        /\ jobs' = jobs \o [i \in DOMAIN asking |-> QueryJob(asking[i])]
  BY DEF Schedule
<1> DEFINE n == Cardinality(wanted)
           asked == [i \in DOMAIN asking |-> QueryJob(asking[i])]
<1>2. UNCHANGED <<batch, results, graphics, completions>>
  BY DEF Schedule, graphicsVars
<1>3. IsFiniteSet(wanted) /\ n \in Nat
  <2>1. wanted \in SUBSET Sources /\ IsFiniteSet(Sources)
    BY MediaCacheAssumption
  <2> HIDE DEF wanted
  <2>2. IsFiniteSet(wanted)
    BY <2>1, FS_Subset
  <2> QED BY <2>2, FS_CardinalityType
<1>4. wanted \subseteq Sources /\ \A s \in wanted : s \notin OnTheWay
  OBVIOUS
<1> HIDE DEF wanted
<1>5. \A i, j \in 1..n : asking[i] = asking[j] => i = j
  <2>1. asking \in Surjection(1..n, wanted)
    BY <1>1 DEF Surjection
  <2>2. IsFiniteSet(1..n) /\ Cardinality(1..n) = n
    <3>1. n \in Int /\ 1 \in Int /\ n >= 0
      BY <1>3
    <3>2. IsFiniteSet(1..n) /\ Cardinality(1..n) = IF 1 > n THEN 0 ELSE n - 1 + 1
      <4> HIDE DEF n
      <4> QED BY <3>1, FS_Interval
    <3> HIDE DEF n
    <3> QED BY <3>1, <3>2
  <2> HIDE DEF n
  <2>3. asking \in Injection(1..n, wanted)
    BY <2>1, <2>2, FS_Surjection DEF n
  <2> QED BY <2>3 DEF Injection, IsInjective
<1>6. \A s \in Sources : QueryJob(s) \in JobRecords /\ QueryJob(s).source = s
  BY DEF QueryJob, JobRecords
<1>7. asked \in Seq(JobRecords) /\ Len(asked) = n /\ DOMAIN asked = 1..n
  <2>1. \A i \in 1..n : QueryJob(asking[i]) \in JobRecords
    BY <1>1, <1>4, <1>6
  <2>2. DOMAIN asking = 1..n
    BY <1>1
  <2> HIDE DEF n
  <2> QED BY <1>3, <2>1, <2>2
<1>8. \A i \in 1..n : asked[i] = QueryJob(asking[i]) /\ asking[i] \in wanted
  BY <1>1
<1> HIDE DEF asked, n
<1>9. Elements(asked) = {QueryJob(s) : s \in wanted}
  <2>1. \A i \in 1..n : asked[i] \in {QueryJob(s) : s \in wanted}
    BY <1>8
  <2>2. ASSUME NEW s \in wanted
        PROVE  QueryJob(s) \in Elements(asked)
    <3>1. PICK i \in 1..n : asking[i] = s
      BY <1>1 DEF n
    <3> QED BY <1>7, <1>8, <3>1 DEF Elements
  <2> QED BY <1>7, <2>1, <2>2 DEF Elements
<1>10. Distinct(asked)
  <2> SUFFICES ASSUME NEW i \in 1..n, NEW j \in 1..n, asked[i] = asked[j]
               PROVE  i = j
    BY <1>7 DEF Distinct
  <2>1. asking[i] = asking[j]
    BY <1>4, <1>6, <1>8
  <2> QED BY <1>5, <2>1
<1>11. Elements(jobs) \cap Elements(asked) = {}
  BY <1>4, <1>6, <1>9 DEF OnTheWay, Queued
<1>12. /\ jobs' \in Seq(JobRecords) /\ Distinct(jobs')
       /\ Elements(jobs') = Elements(jobs) \cup Elements(asked)
  <2>1. jobs' = jobs \o asked
    BY <1>1 DEF asked
  <2>2. jobs \in Seq(JobRecords) /\ Distinct(jobs)
    BY DEF OneJobEach, MediaTypes
  <2> QED BY <1>7, <1>10, <1>11, <2>1, <2>2, Joined
<1>13. Queued' = Queued \cup wanted
  BY <1>4, <1>6, <1>9, <1>12 DEF Queued
<1>14. OneOfEach(Elements(jobs'))
  <2>1. OneOfEach(Elements(asked))
    BY <1>4, <1>6, <1>9 DEF OneOfEach
  <2>2. \A a \in Elements(jobs), b \in Elements(asked) : a.source # b.source
    BY <1>4, <1>6, <1>9 DEF OnTheWay, Queued
  <2> QED BY <1>12, <2>1, <2>2 DEF OneOfEach, OneJobEach
<1>15. Taken' = Taken /\ Posting' = Posting /\ Posted' = Posted
  BY <1>2 DEF Taken, Posting, Posted
<1>16. /\ Distinct(batch') /\ OneOfEach(Elements(batch')) /\ Distinct(results') /\ Distinct(completions')
       /\ OneResultOfEach(Elements(results')) /\ OneResultOfEach(Elements(completions'))
       /\ graphics' \in {"run", "write"} <=> batch' # <<>>
       /\ graphics' \in {"idle", "sources"} => results' = <<>>
  BY <1>2 DEF OneJobEach
<1>17. OneJobEach'
  BY <1>4, <1>12, <1>13, <1>14, <1>15, <1>16 DEF OneJobEach, OnTheWay
<1> QED BY <1>9, <1>12, <1>13, <1>15, <1>17 DEF OnTheWay, wanted

-----------------------------------------------------------------------------
(* Types *)

LEMMA MediaTypesInit ==
    ASSUME Init PROVE MediaTypes
<1>1. FreshEntry \in EntryRecords
  BY DEF FreshEntry, EntryRecords
<1>2. NoEdit \in EditRecords
  BY DEF NoEdit, EditRecords
<1>3. setting \in [Sources -> PlayerRecords]
  BY MediaCacheAssumption DEF Init, PlayerRecords
<1>4. FALSE \in BOOLEAN /\ {"main"} \in SUBSET {"main", "display"} /\ <<>> \in Seq(JobRecords) /\ <<>> \in Seq(ResultRecords)
  OBVIOUS
<1>5. /\ entries \in [Sources -> EntryRecords] /\ editor \in [Editors -> EditRecords]
      /\ mutex \in [Sources -> Editors \cup {"graphics", NoOne}]
      /\ deferred \in [Sources -> BOOLEAN] /\ signalled \in [Sources -> BOOLEAN]
      /\ shown \in [Sources -> SUBSET {"main", "display"}]
  BY <1>1, <1>2, <1>4 DEF Init
<1>6. /\ jobs \in Seq(JobRecords) /\ batch \in Seq(JobRecords)
      /\ completions \in Seq(ResultRecords) /\ results \in Seq(ResultRecords)
  BY <1>4 DEF Init
<1>7. player \in [Sources -> PlayerRecords]
  BY <1>3 DEF Init
<1>8. phase = "running" /\ reserved = 0 /\ worker = "waiting" /\ notified = FALSE /\ rebalance = FALSE
      /\ graphics = "idle" /\ preference = TRUE /\ events = 0
  BY DEF Init
<1>9. notified \in BOOLEAN /\ rebalance \in BOOLEAN /\ preference \in BOOLEAN
  BY <1>8
<1>10. reserved \in Int /\ events \in Nat
  BY <1>8
<1>11. /\ phase \in {"stopped", "running", "closing", "stopping"} /\ worker \in {"waiting", "locked"}
       /\ graphics \in {"idle", "run", "write", "post", "sources"}
  BY <1>8
<1> QED BY <1>3, <1>5, <1>6, <1>7, <1>9, <1>10, <1>11 DEF MediaTypes

LEMMA EventTypes ==
    ASSUME MediaTypes, Event PROVE events' \in Nat
BY DEF MediaTypes, Event

LEMMA BumpedType ==
    ASSUME NEW e \in EntryRecords PROVE Bumped(e) \in EntryRecords
BY DEF Bumped, EntryRecords

LEMMA ExternalTypes ==
    ASSUME MediaTypes, External PROVE MediaTypes'
<1>1. ASSUME NEW s \in Sources, Register(s) PROVE MediaTypes'
  <2>1. [entries[s] EXCEPT !.life = "tracked"] \in EntryRecords
    <3>1. entries[s] \in EntryRecords
      BY DEF MediaTypes
    <3> QED BY <3>1 DEF EntryRecords
  <2> QED BY <1>1, <2>1 DEF Register, MediaTypes, graphicsVars, obsVars
<1>2. ASSUME NEW s \in Sources, Unregister(s) PROVE MediaTypes'
  <2>1. Bumped(entries[s]) \in EntryRecords
    BY BumpedType DEF MediaTypes
  <2>2. [Bumped(entries[s]) EXCEPT !.life = "retired"] \in EntryRecords
    BY <2>1 DEF EntryRecords
  <2> QED BY <1>2, <2>2, EventTypes DEF Unregister, MediaTypes, graphicsVars, obsVars
<1>3. ASSUME NEW s \in Sources, ShowInMainView(s) PROVE MediaTypes'
  <2>1. Toggled(shown[s], "main") \in SUBSET {"main", "display"}
    BY DEF MediaTypes, Toggled
  <2> QED BY <1>3, <2>1, EventTypes DEF ShowInMainView, MediaTypes, managerVars, graphicsVars
<1>4. ASSUME NEW s \in Sources, ShowInDisplay(s) PROVE MediaTypes'
  <2>1. Toggled(shown[s], "display") \in SUBSET {"main", "display"}
    BY DEF MediaTypes, Toggled
  <2> QED BY <1>4, <2>1, EventTypes DEF ShowInDisplay, MediaTypes, managerVars, graphicsVars
<1>5. ASSUME ChangePreference PROVE MediaTypes'
  <2>1. \A s \in Sources : entries[s] \in EntryRecords /\ Bumped(entries[s]) \in EntryRecords
    BY BumpedType DEF MediaTypes
  <2> QED BY <1>5, <2>1, EventTypes DEF ChangePreference, MediaTypes, graphicsVars, Accepting
<1>6. ASSUME ShutdownCloses PROVE MediaTypes'
  BY <1>6, EventTypes DEF ShutdownCloses, MediaTypes, graphicsVars, obsVars
<1> QED BY <1>1, <1>2, <1>3, <1>4, <1>5, <1>6 DEF External

LEMMA EditTypes ==
    ASSUME MediaTypes, NEW e \in Editors, NEW s \in Sources, Edit(e, s) PROVE MediaTypes'
<1>1. editor[e] \in EditRecords /\ NoEdit \in EditRecords
  BY DEF MediaTypes, NoEdit, EditRecords
<1>2. \A pc \in {"lock", "begin", "clear", "write", "update", "finish"} :
        [editor[e] EXCEPT !.pc = pc] \in EditRecords
  BY <1>1 DEF EditRecords
<1>3. Bumped(entries[s]) \in EntryRecords
  BY BumpedType DEF MediaTypes
<1>4. e \in Editors \cup {"graphics", NoOne} /\ NoOne \in Editors \cup {"graphics", NoOne}
  OBVIOUS
<1>5. ASSUME Track(e, s) PROVE MediaTypes'
  <2>1. \A pc \in {"lock", "write"} : [pc |-> pc, source |-> s, active |-> FALSE] \in EditRecords
    BY DEF EditRecords
  <2> QED BY <1>5, <2>1, EventTypes DEF Track, MediaTypes, managerVars, graphicsVars, obsVars
<1>6. ASSUME TrackLocks(e, s) PROVE MediaTypes'
  BY <1>2, <1>4, <1>6 DEF TrackLocks, Goto, MediaTypes, managerVars, graphicsVars, obsVars
<1>7. ASSUME TrackInactive(e, s) PROVE MediaTypes'
  BY <1>2, <1>4, <1>7 DEF TrackInactive, Goto, MediaTypes, managerVars, graphicsVars, obsVars
<1>8. ASSUME TrackBegins(e, s) PROVE MediaTypes'
  <2>1. [Bumped(entries[s]) EXCEPT !.updates = @ + 1] \in EntryRecords
    BY <1>3 DEF EntryRecords
  <2>2. [[editor[e] EXCEPT !.pc = "clear"] EXCEPT !.active = TRUE] \in EditRecords
    BY <1>1 DEF EditRecords
  <2>3. editor' = [editor EXCEPT ![e] = [[editor[e] EXCEPT !.pc = "clear"] EXCEPT !.active = TRUE]]
    BY <1>8 DEF TrackBegins, MediaTypes
  <2>4. editor' \in [Editors -> EditRecords]
    <3> DEFINE edit == [[editor[e] EXCEPT !.pc = "clear"] EXCEPT !.active = TRUE]
    <3>1. edit \in EditRecords /\ editor' = [editor EXCEPT ![e] = edit] /\ editor \in [Editors -> EditRecords]
      BY <2>2, <2>3 DEF MediaTypes
    <3> HIDE DEF edit
    <3> QED BY <3>1
  <2>5. entries' \in [Sources -> EntryRecords]
    <3> DEFINE begun == [Bumped(entries[s]) EXCEPT !.updates = @ + 1]
    <3>1. entries' = [entries EXCEPT ![s] = begun]
      BY <1>8 DEF TrackBegins
    <3>2. begun \in EntryRecords /\ entries \in [Sources -> EntryRecords]
      BY <2>1 DEF MediaTypes
    <3> HIDE DEF begun
    <3> QED BY <3>1, <3>2
  <2> QED BY <1>8, <2>4, <2>5 DEF TrackBegins, MediaTypes, graphicsVars, obsVars
<1>9. ASSUME ClearCaching(e, s) PROVE MediaTypes'
  <2>1. [setting[s] EXCEPT !.caching = FALSE] \in PlayerRecords
    <3>1. setting[s] \in PlayerRecords
      BY DEF MediaTypes
    <3> QED BY <3>1 DEF PlayerRecords
  <2> QED BY <1>2, <1>4, <1>9, <2>1 DEF ClearCaching, Goto, MediaTypes, managerVars, graphicsVars
<1>10. ASSUME EditSettings(e, s) PROVE MediaTypes'
  <2>1. \A f \in Files : [setting[s] EXCEPT !.file = f] \in PlayerRecords
    BY DEF MediaTypes, PlayerRecords
  <2> QED BY <1>2, <1>10, <2>1 DEF EditSettings, Goto, MediaTypes, managerVars, graphicsVars
<1>11. ASSUME UpdateSource(e, s) PROVE MediaTypes'
  BY <1>1, <1>2, <1>11 DEF UpdateSource, MediaTypes, managerVars, graphicsVars
<1>12. ASSUME FinishUpdate(e, s) PROVE MediaTypes'
  <2> DEFINE r == Bumped(entries[s])
             e1 == [r EXCEPT !.updates = @ - 1, !.settle = SettleTicks]
  <2>1. e1 \in EntryRecords
    <3>1. r \in EntryRecords
      BY <1>3
    <3> HIDE DEF r
    <3>2. SettleTicks \in 0..2 /\ r.updates - 1 \in Int
      BY <3>1 DEF SettleTicks, EntryRecords
    <3> QED BY <3>1, <3>2 DEF EntryRecords
  <2>2. entries' = entries \/ entries' = [entries EXCEPT ![s] = e1]
    BY <1>12 DEF FinishUpdate
  <2> HIDE DEF e1
  <2> QED BY <1>1, <1>12, <2>1, <2>2 DEF FinishUpdate, MediaTypes, graphicsVars, obsVars
<1> QED BY <1>5, <1>6, <1>7, <1>8, <1>9, <1>10, <1>11, <1>12 DEF Edit

LEMMA SnapshotTypes ==
    ASSUME MediaTypes, NEW job \in JobRecords
    PROVE  /\ Unrun(job) \in ResultRecords /\ Unrun(job).job = job
           /\ job.source \in Sources
           /\ Snapshot(job.source, Unrun(job)) \in ResultRecords
           /\ Snapshot(job.source, Unrun(job)).job = job
<1>1. Unrun(job) \in ResultRecords /\ Unrun(job).job = job /\ job.source \in Sources
  BY DEF Unrun, ResultRecords, JobRecords
<1>2. setting[job.source].file \in Files /\ setting[job.source].caching \in BOOLEAN
  BY <1>1 DEF MediaTypes, PlayerRecords
<1>3. Eligible(job.source) \in BOOLEAN
  BY DEF MediaTypes, Eligible
<1> QED BY <1>1, <1>2, <1>3 DEF Snapshot, ResultRecords

LEMMA GraphicsTypes ==
    ASSUME MediaTypes, OneJobEach, Graphics PROVE MediaTypes'
<1>1. graphics \in {"run", "write"} => batch # <<>> /\ Job \in JobRecords
  BY RunsOne, Shortened DEF OneJobEach, MediaTypes, Job
<1>2. ASSUME graphics \in {"run", "write"}, NEW result \in ResultRecords, result.job = Job, Finish(result)
      PROVE  batch' \in Seq(JobRecords) /\ results' \in Seq(ResultRecords) /\ graphics' \in {"run", "post"}
  BY <1>1, <1>2, RunsOne DEF Job
<1>3. ASSUME TickTakes PROVE MediaTypes'
  <2>1. jobs' \in Seq(JobRecords) /\ batch' \in Seq(JobRecords)
    BY <1>3, TakesSome
  <2>2. \A s \in Sources : [entries[s] EXCEPT !.settle = IF @ = 0 THEN 0 ELSE @ - 1] \in EntryRecords
    <3> SUFFICES ASSUME NEW s \in Sources
                 PROVE  [entries[s] EXCEPT !.settle = IF @ = 0 THEN 0 ELSE @ - 1] \in EntryRecords
      OBVIOUS
    <3>1. entries[s] \in EntryRecords
      BY DEF MediaTypes
    <3>2. entries[s].settle \in 0..2
      BY <3>1 DEF EntryRecords
    <3>3. (IF entries[s].settle = 0 THEN 0 ELSE entries[s].settle - 1) \in 0..2
      BY <3>2
    <3> QED BY <3>1, <3>3 DEF EntryRecords
  <2>3. entries' \in [Sources -> EntryRecords] /\ graphics' \in {"sources", "run"}
    BY <1>3, <2>2 DEF TickTakes
  <2>4. UNCHANGED <<phase, reserved, completions, rebalance, worker, notified, results, mutex, editor, obsVars, events>>
    BY <1>3 DEF TickTakes
  <2> QED BY <2>1, <2>3, <2>4 DEF MediaTypes, obsVars
<1>4. ASSUME TickIgnored PROVE MediaTypes'
  BY <1>4 DEF TickIgnored, MediaTypes, managerVars, obsVars
<1>5. ASSUME QueryStale PROVE MediaTypes'
  <2>1. Unrun(Job) \in ResultRecords /\ Unrun(Job).job = Job /\ Finish(Unrun(Job)) /\ graphics = "run"
    BY <1>1, <1>5, SnapshotTypes DEF QueryStale
  <2> QED BY <1>2, <1>5, <2>1 DEF QueryStale, MediaTypes, managerVars, obsVars
<1>6. ASSUME QueryMedia PROVE MediaTypes'
  <2>1. PICK bytes \in {0, Size(player[Job.source].file)} : Finish([Snapshot(Job.source, Unrun(Job)) EXCEPT !.bytes = bytes])
    BY <1>6 DEF QueryMedia
  <2>2. bytes \in Nat
    BY <1>1, <1>6, MediaCacheAssumption DEF QueryMedia, MediaTypes, JobRecords, PlayerRecords
  <2>3. Snapshot(Job.source, Unrun(Job)) \in ResultRecords /\ Snapshot(Job.source, Unrun(Job)).job = Job /\ graphics = "run"
    BY <1>1, <1>6, SnapshotTypes DEF QueryMedia
  <2> DEFINE snapshot == Snapshot(Job.source, Unrun(Job))
  <2> HIDE DEF snapshot
  <2>4. [snapshot EXCEPT !.bytes = bytes] \in ResultRecords /\ [snapshot EXCEPT !.bytes = bytes].job = Job
    <3>1. snapshot \in ResultRecords /\ snapshot.job = Job
      BY <2>3 DEF snapshot
    <3> QED BY <2>2, <3>1 DEF ResultRecords
  <2>5. batch' \in Seq(JobRecords) /\ results' \in Seq(ResultRecords) /\ graphics' \in {"run", "post"}
    <3>1. Finish([snapshot EXCEPT !.bytes = bytes])
      BY <2>1 DEF snapshot
    <3> QED BY <1>2, <2>3, <2>4, <3>1
  <2>6. UNCHANGED <<managerVars, worker, notified, mutex, editor, obsVars, events>>
    BY <1>6 DEF QueryMedia
  <2> QED BY <2>5, <2>6 DEF MediaTypes, managerVars, obsVars
<1>7. ASSUME SetStale PROVE MediaTypes'
  <2>1. Unrun(Job) \in ResultRecords /\ Unrun(Job).job = Job /\ Finish(Unrun(Job)) /\ graphics = "run"
    BY <1>1, <1>7, SnapshotTypes DEF SetStale
  <2> QED BY <1>2, <1>7, <2>1 DEF SetStale, MediaTypes, managerVars, obsVars
<1>8. ASSUME SetValidated PROVE MediaTypes'
  <2> DEFINE snapshot == Snapshot(Job.source, Unrun(Job))
             applies == MayApply(Job, snapshot)
  <2>1. snapshot \in ResultRecords /\ snapshot.job = Job /\ graphics = "run" /\ Job \in JobRecords
    BY <1>1, <1>8, SnapshotTypes DEF SetValidated
  <2>2. UNCHANGED <<managerVars, worker, notified, editor, obsVars, events>>
    BY <1>8 DEF SetValidated
  <2>3. applies \in BOOLEAN
    BY DEF MayApply
  <2>4. \/ mutex' = [mutex EXCEPT ![Job.source] = "graphics"] /\ graphics' = "write" /\ UNCHANGED <<batch, results>>
        \/ Finish([snapshot EXCEPT !.applied = applies]) /\ mutex' = mutex
    BY <1>8 DEF SetValidated
  <2> HIDE DEF snapshot, applies
  <2>5. [snapshot EXCEPT !.applied = applies] \in ResultRecords /\ [snapshot EXCEPT !.applied = applies].job = Job
    BY <2>1, <2>3 DEF ResultRecords
  <2>6. CASE mutex' = [mutex EXCEPT ![Job.source] = "graphics"] /\ graphics' = "write" /\ UNCHANGED <<batch, results>>
    BY <2>2, <2>6 DEF MediaTypes, managerVars, obsVars
  <2>7. CASE Finish([snapshot EXCEPT !.applied = applies]) /\ mutex' = mutex
    <3>1. batch' \in Seq(JobRecords) /\ results' \in Seq(ResultRecords) /\ graphics' \in {"run", "post"}
      BY <1>2, <2>1, <2>5, <2>7
    <3> QED BY <2>2, <2>7, <3>1 DEF MediaTypes, managerVars, obsVars
  <2> QED BY <2>4, <2>6, <2>7
<1>9. ASSUME WriteCaching PROVE MediaTypes'
  <2>1. Job \in JobRecords /\ graphics = "write"
    BY <1>1, <1>9 DEF WriteCaching
  <2>2. [Unrun(Job) EXCEPT !.valid = TRUE, !.applied = TRUE] \in ResultRecords
        /\ [Unrun(Job) EXCEPT !.valid = TRUE, !.applied = TRUE].job = Job
    BY <2>1 DEF Unrun, ResultRecords
  <2>3. batch' \in Seq(JobRecords) /\ results' \in Seq(ResultRecords) /\ graphics' \in {"run", "post"}
    BY <1>2, <1>9, <2>1, <2>2 DEF WriteCaching
  <2>4. setting' \in [Sources -> PlayerRecords] /\ deferred' \in [Sources -> BOOLEAN]
        /\ mutex' \in [Sources -> Editors \cup {"graphics", NoOne}]
    BY <1>9, <2>1 DEF WriteCaching, MediaTypes, PlayerRecords, JobRecords
  <2>5. UNCHANGED <<managerVars, worker, notified, editor, player, shown, signalled, preference, events>>
    BY <1>9 DEF WriteCaching
  <2> QED BY <2>3, <2>4, <2>5 DEF MediaTypes, managerVars
<1>10. ASSUME TickPosts PROVE MediaTypes'
  <2>1. completions' \in Seq(ResultRecords) /\ results' = <<>>
    BY <1>10, PostsAll
  <2> QED BY <1>10, <2>1 DEF TickPosts, MediaTypes, obsVars
<1>11. ASSUME SourcesTick PROVE MediaTypes'
  <2>1. \A s \in Sources : entries[s] \in EntryRecords /\ Bumped(entries[s]) \in EntryRecords
    BY BumpedType DEF MediaTypes
  <2>2. entries' \in [Sources -> EntryRecords] /\ player' \in [Sources -> PlayerRecords]
        /\ deferred' \in [Sources -> BOOLEAN] /\ signalled' \in [Sources -> BOOLEAN]
    BY <1>11, <2>1 DEF SourcesTick, MediaTypes
  <2>3. notified' \in BOOLEAN /\ graphics' = "idle"
    BY <1>11 DEF SourcesTick, MediaTypes
  <2>4. UNCHANGED <<phase, reserved, jobs, completions, rebalance, worker, batch, results, mutex, editor, setting, shown, preference, events>>
    BY <1>11 DEF SourcesTick
  <2> QED BY <2>2, <2>3, <2>4 DEF MediaTypes
<1> QED BY <1>3, <1>4, <1>5, <1>6, <1>7, <1>8, <1>9, <1>10, <1>11 DEF Graphics

LEMMA GoneType ==
    GoneEntry \in EntryRecords
<1>1. FreshEntry \in EntryRecords
  BY DEF FreshEntry, EntryRecords
<1> QED BY <1>1 DEF GoneEntry, EntryRecords

\* What the worker makes of one entry and of its queue, whichever way it
\* completes a job.
LEMMA CompletedTypes ==
    ASSUME MediaTypes, OneJobEach, Complete
    PROVE  MediaTypes' /\ OneJobEach'
<1> DEFINE result == Head(completions)
           s == result.job.source
<1>1. /\ completions # <<>> /\ completions' = Tail(completions)
      /\ UNCHANGED <<phase, worker, notified, graphicsVars, mutex, editor, obsVars, events>>
      /\ \/ CompleteRemoved(s, result) \/ CompleteSet(s, result) \/ CompleteOutdated(s, result)
         \/ CompleteDisables(s, result) \/ CompleteKeeps(s, result) \/ CompleteUncached(s, result)
  BY DEF Complete
<1>2. /\ completions' \in Seq(ResultRecords) /\ result \in ResultRecords
      /\ jobs' = jobs => OneJobEach'
      /\ \A job \in JobRecords : job.source = s /\ jobs' = Append(jobs, job) =>
           jobs' \in Seq(JobRecords) /\ OneJobEach'
  BY <1>1, CompletesOne DEF graphicsVars
<1> HIDE DEF result
<1>3. /\ result.job \in JobRecords /\ result.file \in Files \cup {NoFile} /\ result.bytes \in Nat
      /\ result.caching \in BOOLEAN /\ result.eligible \in BOOLEAN /\ result.applied \in BOOLEAN
      /\ result.job.enable \in BOOLEAN
  BY <1>2 DEF ResultRecords, JobRecords
<1>4. s \in Sources
  BY <1>3 DEF JobRecords
<1> HIDE DEF s
<1>5. entries[s] \in EntryRecords /\ entries \in [Sources -> EntryRecords] /\ reserved \in Int /\ rebalance \in BOOLEAN
      /\ jobs \in Seq(JobRecords)
  BY <1>4 DEF MediaTypes
<1> DEFINE Good == /\ entries' \in [Sources -> EntryRecords] /\ reserved' \in Int /\ rebalance' \in BOOLEAN
                   /\ jobs' \in Seq(JobRecords) /\ OneJobEach'
<1>6. \A e \in EntryRecords : [entries EXCEPT ![s] = e] \in [Sources -> EntryRecords]
  BY <1>4, <1>5
<1>7. entries[s].reserved \in Nat
  BY <1>5 DEF EntryRecords
<1>8. ReleaseBudget(s) => reserved' \in Int /\ rebalance' \in BOOLEAN
  BY <1>5, <1>7 DEF ReleaseBudget
<1>9. \A enable \in BOOLEAN : SetJob(s, enable, result.file) \in JobRecords /\ SetJob(s, enable, result.file).source = s
  BY <1>3, <1>4 DEF SetJob, JobRecords
<1>10. \A enable \in BOOLEAN : jobs' = Append(jobs, SetJob(s, enable, result.file)) => jobs' \in Seq(JobRecords) /\ OneJobEach'
  BY <1>2, <1>9 DEF s
<1>11. ASSUME CompleteRemoved(s, result) PROVE Good
  <2>1. [entries[s] EXCEPT !.pending = FALSE] \in EntryRecords
    BY <1>5 DEF EntryRecords
  <2> QED BY <1>2, <1>5, <1>6, <1>11, <2>1 DEF CompleteRemoved
<1>12. ASSUME CompleteSet(s, result) PROVE Good
  <2> DEFINE releases == result.job.enable # result.applied
             Settled(e) == [e EXCEPT !.pending = FALSE,
                                     !.scheduled = @ /\ result.applied /\ result.job.enable,
                                     !.initialized = @ \/ result.applied]
             settled == Settled(entries[s])
             kept == [settled EXCEPT !.reserved = IF releases THEN 0 ELSE @]
  <2>1. settled \in EntryRecords
    BY <1>3, <1>5 DEF EntryRecords
  <2>2. kept \in EntryRecords
    <3> HIDE DEF settled, releases
    <3>1. settled.reserved \in Nat
      BY <2>1 DEF EntryRecords
    <3> QED BY <2>1, <3>1 DEF EntryRecords
  <2>3. entries' = [entries EXCEPT ![s] = kept] /\ UNCHANGED jobs
    BY <1>12 DEF CompleteSet
  <2>4. ReleaseBudget(s) \/ UNCHANGED <<reserved, rebalance>>
    BY <1>12 DEF CompleteSet
  <2> HIDE DEF kept
  <2> QED BY <1>2, <1>5, <1>6, <1>8, <2>2, <2>3, <2>4
<1>13. ASSUME CompleteOutdated(s, result) PROVE Good
  <2>1. [entries[s] EXCEPT !.pending = FALSE, !.scheduled = FALSE] \in EntryRecords
    BY <1>5 DEF EntryRecords
  <2>2. entries' \in [Sources -> EntryRecords]
    BY <1>5, <1>13 DEF CompleteOutdated, EntryRecords
  <2> QED BY <1>2, <1>5, <1>13, <2>2 DEF CompleteOutdated
<1>14. ASSUME CompleteDisables(s, result) PROVE Good
  <2>1. [entries[s] EXCEPT !.file = result.file] \in EntryRecords
    BY <1>3, <1>5 DEF EntryRecords
  <2> QED BY <1>5, <1>6, <1>10, <1>14, <2>1 DEF CompleteDisables
<1>15. ASSUME CompleteKeeps(s, result) PROVE Good
  <2>2. entries' \in [Sources -> EntryRecords]
    BY <1>5, <1>15 DEF CompleteKeeps, EntryRecords
  <2> QED BY <1>2, <1>5, <1>15, <2>2 DEF CompleteKeeps
<1>16. ASSUME CompleteUncached(s, result) PROVE Good
  <2> DEFINE others == reserved - entries[s].reserved
             released == Evaluated(s, result)
             Retries(e) == [e EXCEPT !.retries = @ + 1,
                                     !.retry = IF e.retries + 1 < MaxPolls THEN "armed" ELSE @]
             retried == Retries(released)
             reserving == [released EXCEPT !.pending = TRUE, !.reserved = result.bytes]
  <2>1. released \in EntryRecords
    BY <1>3, <1>5 DEF Evaluated, EntryRecords
  <2> HIDE DEF released
  <2>2. [released EXCEPT !.waiting = TRUE] \in EntryRecords
    BY <2>1 DEF EntryRecords
  <2>3. retried \in EntryRecords
    <3>1. released.retries + 1 \in Nat /\ released.retry \in {"none", "armed", "due"}
      BY <2>1 DEF EntryRecords
    <3>2. (IF released.retries + 1 < MaxPolls THEN "armed" ELSE released.retry) \in {"none", "armed", "due"}
      BY <3>1
    <3> QED BY <2>1, <3>1, <3>2 DEF EntryRecords
  <2>4. reserving \in EntryRecords
    BY <1>3, <2>1 DEF EntryRecords
  <2>5. others + result.bytes \in Int /\ (rebalance \/ entries[s].reserved # 0) \in BOOLEAN
    BY <1>3, <1>5, <1>7
  <2>6. \/ ReleaseBudget(s) /\ UNCHANGED jobs /\ entries' = [entries EXCEPT ![s] = released]
        \/ ReleaseBudget(s) /\ UNCHANGED jobs /\ entries' = [entries EXCEPT ![s] = retried]
        \/ ReleaseBudget(s) /\ UNCHANGED jobs /\ entries' = [entries EXCEPT ![s] = [released EXCEPT !.waiting = TRUE]]
        \/ /\ reserved' = others + result.bytes /\ rebalance' = (rebalance \/ entries[s].reserved # 0)
           /\ entries' = [entries EXCEPT ![s] = reserving] /\ jobs' = Append(jobs, SetJob(s, TRUE, result.file))
    BY <1>16 DEF CompleteUncached, released
  <2> HIDE DEF retried, reserving, others
  <2>7. entries' \in [Sources -> EntryRecords]
    BY <1>6, <2>1, <2>2, <2>3, <2>4, <2>6
  <2>8. reserved' \in Int /\ rebalance' \in BOOLEAN
    BY <1>8, <2>5, <2>6
  <2>9. jobs' \in Seq(JobRecords) /\ OneJobEach'
    BY <1>2, <1>5, <1>10, <2>6
  <2> QED BY <2>7, <2>8, <2>9
<1>17. Good
  BY <1>1, <1>11, <1>12, <1>13, <1>14, <1>15, <1>16 DEF s
<1> QED BY <1>1, <1>2, <1>17 DEF MediaTypes, graphicsVars, obsVars

LEMMA WorkerTypes ==
    ASSUME MediaTypes, OneJobEach, WorkerWakes PROVE MediaTypes'
<1>1. jobs' \in Seq(JobRecords)
  BY CancelsSome
<1>2. \A s \in Sources : entries[s] \in EntryRecords /\ GoneEntry \in EntryRecords
  BY GoneType DEF MediaTypes
<1>3. entries' \in [Sources -> EntryRecords]
  BY <1>2 DEF WorkerWakes
<1>4. reserved' \in Int
  <2>1. \A s \in Sources : Reservations[s] \in Nat
    BY <1>2 DEF Reservations, EntryRecords
  <2>2. Retired \in SUBSET Sources /\ IsFiniteSet(Sources)
    BY MediaCacheAssumption DEF Retired
  <2>3. IsFiniteSet(Retired)
    BY <2>2, FS_Subset
  <2>4. Bytes(Reservations, Retired) \in Nat
    BY <2>1, <2>2, <2>3, BytesType
  <2>5. reserved' = reserved - Bytes(Reservations, Retired)
    BY DEF WorkerWakes
  <2> QED BY <2>4, <2>5 DEF MediaTypes
<1>5. worker' = "locked" /\ notified' = FALSE /\ rebalance' \in BOOLEAN
  BY DEF WorkerWakes, MediaTypes
<1>6. UNCHANGED <<phase, completions, graphicsVars, mutex, editor, obsVars, events>>
  BY DEF WorkerWakes
<1> QED BY <1>1, <1>3, <1>4, <1>5, <1>6 DEF MediaTypes, graphicsVars, obsVars

LEMMA ScheduleTypes ==
    ASSUME MediaTypes, OneJobEach, Schedule, \A s \in Sources : Wanted(s) => s \notin OnTheWay
    PROVE  MediaTypes'
<1>1. jobs' \in Seq(JobRecords)
  BY AsksAgain
<1>2. \A s \in Sources : entries[s] \in EntryRecords /\ Scheduled(entries[s]) \in EntryRecords
  <2> SUFFICES ASSUME NEW s \in Sources PROVE entries[s] \in EntryRecords /\ Scheduled(entries[s]) \in EntryRecords
    OBVIOUS
  <2>1. entries[s] \in EntryRecords
    BY DEF MediaTypes
  <2>2. (IF entries[s].scheduled THEN entries[s].retries ELSE 0) \in Nat
    BY <2>1 DEF EntryRecords
  <2> QED BY <2>1, <2>2 DEF Scheduled, EntryRecords
<1>3. entries' = [s \in Sources |-> IF s \in {t \in Sources : Wanted(t)} THEN Scheduled(entries[s]) ELSE entries[s]]
  BY DEF Schedule
<1>4. entries' \in [Sources -> EntryRecords]
  BY <1>2, <1>3
<1>5. worker' = "waiting" /\ rebalance' = FALSE
  BY DEF Schedule
<1>6. UNCHANGED <<phase, reserved, completions, notified, graphicsVars, mutex, editor, obsVars, events>>
  BY DEF Schedule
<1> QED BY <1>1, <1>4, <1>5, <1>6 DEF MediaTypes, graphicsVars, obsVars

LEMMA OtherTypes ==
    ASSUME MediaTypes, \/ \E s \in Sources : RetryDue(s)
                       \/ ShutdownUnhooks
                       \/ WorkerExits
    PROVE  MediaTypes'
<1>1. ASSUME NEW s \in Sources, RetryDue(s) PROVE MediaTypes'
  <2>1. entries[s] \in EntryRecords
    BY DEF MediaTypes
  <2>2. [entries[s] EXCEPT !.retry = "due"] \in EntryRecords
    BY <2>1 DEF EntryRecords
  <2> QED BY <1>1, <2>2 DEF RetryDue, MediaTypes, graphicsVars, obsVars
<1>2. ASSUME ShutdownUnhooks PROVE MediaTypes'
  BY <1>2 DEF ShutdownUnhooks, MediaTypes, graphicsVars, obsVars
<1>3. ASSUME WorkerExits PROVE MediaTypes'
  <2>1. GoneEntry \in EntryRecords
    BY GoneType
  <2>2. jobs' = <<>> /\ completions' = <<>> /\ phase' = "stopped" /\ reserved' = 0
        /\ entries' = [s \in Sources |-> GoneEntry]
        /\ UNCHANGED <<rebalance, worker, notified, graphicsVars, mutex, editor, obsVars, events>>
    BY <1>3 DEF WorkerExits
  <2>3. jobs' \in Seq(JobRecords) /\ completions' \in Seq(ResultRecords) /\ entries' \in [Sources -> EntryRecords]
    BY <2>1, <2>2
  <2> QED BY <2>2, <2>3 DEF MediaTypes, graphicsVars, obsVars
<1> QED BY <1>1, <1>2, <1>3

-----------------------------------------------------------------------------
(* Steps that leave a source aside *)

\* The same entry, at the revision it had or at a newer one.
SameEntry(e, f) ==
    /\ f.life = e.life /\ f.updates = e.updates /\ f.settle = e.settle /\ f.reserved = e.reserved
    /\ f.file = e.file /\ f.initialized = e.initialized /\ f.pending = e.pending /\ f.waiting = e.waiting
    /\ (f.fresh = e.fresh /\ f.scheduled = e.scheduled) \/ (~f.fresh /\ ~f.scheduled)

Concerns(edit, s) == edit.source = s /\ (edit.active \/ edit.pc = "update")

Aside(s) ==
    /\ entries'[s].life = "new" => entries'[s] = entries[s] /\ mutex'[s] = mutex[s]
    /\ Removed(s)' \/ (~Removed(s) /\ SameEntry(entries[s], entries'[s]))
    /\ setting'[s] = setting[s] /\ player'[s] = player[s] /\ deferred'[s] = deferred[s]
    /\ \A e \in Editors :
         \/ editor'[e] = editor[e]
         \/ /\ ~Concerns(editor[e], s) /\ ~Concerns(editor'[e], s)
            /\ entries'[s].life = "new" => editor'[e].source # s \/ editor'[e].pc = "none"
    /\ s \in OnTheWay' => s \in OnTheWay
    /\ Removed(s)' \/ (s \in OnTheWay => s \in OnTheWay')
    /\ \A job \in Elements(jobs') : job.source = s => job \in Elements(jobs)
    /\ \A job \in Elements(batch') : job.source = s => job \in Elements(batch)
    /\ \A result \in Elements(results') : result.job.source = s => result \in Elements(results)
    /\ \A result \in Elements(completions') : result.job.source = s =>
         result \in Elements(completions) \/ (result \in Elements(results) /\ graphics' = "sources")
    /\ graphics' = "idle" => graphics = "idle"
    /\ graphics = "sources" => graphics' = "sources"
    /\ \/ Removed(s)' \/ (~entries'[s].fresh /\ ~entries'[s].scheduled)
       \/ AuxViews \/ signalled'[s]
       \/ shown'[s] = shown[s] /\ preference' = preference /\ (signalled[s] => signalled'[s])
    /\ \/ Removed(s)' \/ ~entries'[s].waiting \/ entries'[s].pending
       \/ (rebalance => rebalance') /\ (rebalance' \/ reserved' >= reserved)

LEMMA AsideKeeps ==
    ASSUME MediaTypes, MediaTypes', NEW s \in Sources, SourceInv(s), Aside(s)
    PROVE  SourceInv(s)'
<1>1. entries[s] \in EntryRecords /\ entries'[s] \in EntryRecords
      /\ setting[s] \in PlayerRecords /\ \A e \in Editors : editor[e] \in EditRecords /\ editor'[e] \in EditRecords
  BY DEF MediaTypes
<1>2. Untouched(s)'
  BY DEF Untouched, Aside, SourceInv
<1>3. UpdateArrives(s)'
  BY DEF UpdateArrives, Aside, SourceInv, Concerns, At
<1>4. ASSUME ~Removed(s)'
      PROVE  Known(s)'
  <2>1. Known(s) /\ SameEntry(entries[s], entries'[s])
    BY <1>4 DEF Aside, SourceInv
  <2>2. Editing(s)' = Editing(s) /\ (Unedited(s)' <=> Unedited(s))
    BY DEF Aside, Editing, Unedited, Concerns
  <2>3. \A v \in BOOLEAN : SameView(s, v) =>
          SameView(s, v)' \/ (~entries'[s].fresh /\ ~entries'[s].scheduled)
    BY <1>4 DEF SameView, Aside, Eligible
  <2>4. InTime(s)' <=> InTime(s)
    BY <2>2 DEF InTime, Aside
  <2>5. PendingIsOnTheWay(s)'
    BY <1>1, <1>4, <2>1 DEF Known, PendingIsOnTheWay, SameEntry, Aside
  <2>6. EditorsCounted(s)'
    <3>1. entries'[s].updates = Cardinality(Editing(s)')
      BY <2>1, <2>2 DEF Known, EditorsCounted, SameEntry
    <3>2. setting'[s].caching =>
            \A e \in Editors : editor'[e].source = s /\ editor'[e].pc \in {"write", "update", "finish"} => ~editor'[e].active
      BY <2>1 DEF Known, EditorsCounted, Aside, Concerns
    <3> QED BY <3>1, <3>2 DEF EditorsCounted
  <2>7. QueriesAreInTime(s)'
    BY <1>1, <2>1, <2>2, <2>4 DEF Known, QueriesAreInTime, SameEntry, Aside
  <2>8. SetsAreDue(s)'
    BY <1>1, <2>1, <2>2 DEF Known, SetsAreDue, SameEntry, Aside
  <2>9. \A result : QueryIsTrue(s, result) /\ result.eligible \in BOOLEAN => QueryIsTrue(s, result)'
    BY <1>1, <2>1, <2>3, <2>4 DEF QueryIsTrue, SameEntry, Aside
  <2>10. \A result, here, there : SetIsTrue(s, result, here) /\ (here => there) => SetIsTrue(s, result, there)'
    BY <1>1, <2>1, <2>2, <2>3 DEF SetIsTrue, SameEntry, Aside
  <2>11. ResultsAreTrue(s)'
    <3>1. \A result \in Elements(results') \cup Elements(completions') : result.eligible \in BOOLEAN
      <4>1. Elements(results') \subseteq ResultRecords /\ Elements(completions') \subseteq ResultRecords
        BY ElementsIn DEF MediaTypes
      <4> QED BY <4>1 DEF ResultRecords
    <3> QED BY <2>1, <2>9, <2>10, <3>1 DEF Known, ResultsAreTrue, Aside
  <2>12. CacheIsReserved(s)'
    BY <2>1 DEF Known, CacheIsReserved, SameEntry, Aside
  <2>13. EvaluatedIsSettled(s)'
    <3>1. reserved \in Int /\ reserved' \in Int /\ Size(setting[s].file) \in Int /\ Budget \in Int
      BY <1>1, MediaCacheAssumption DEF MediaTypes, PlayerRecords
    <3>2. SameView(s, TRUE) => SameView(s, TRUE)' \/ (~entries'[s].fresh /\ ~entries'[s].scheduled)
      BY <2>3
    <3>3. SUFFICES ASSUME entries'[s].scheduled, ~entries'[s].pending
                   PROVE  /\ Unedited(s)'
                          /\ setting'[s].caching <=> entries'[s].reserved # 0
                          /\ entries'[s].reserved # 0 => entries'[s].reserved = Size(setting'[s].file) /\ SameView(s, TRUE)'
                          /\ entries'[s].waiting => rebalance' \/ Size(setting'[s].file) > Budget - reserved'
      BY DEF EvaluatedIsSettled
    <3>4. entries[s].scheduled /\ ~entries[s].pending
      BY <2>1, <3>3 DEF SameEntry
    <3>5. /\ Unedited(s)
          /\ setting[s].caching <=> entries[s].reserved # 0
          /\ entries[s].reserved # 0 => entries[s].reserved = Size(setting[s].file) /\ SameView(s, TRUE)
          /\ entries[s].waiting => rebalance \/ Size(setting[s].file) > Budget - reserved
      BY <2>1, <3>4 DEF Known, EvaluatedIsSettled
    <3>6. setting'[s] = setting[s] /\ entries'[s].reserved = entries[s].reserved /\ entries'[s].waiting = entries[s].waiting
      BY <2>1 DEF SameEntry, Aside
    <3>7. entries'[s].waiting => rebalance' \/ Size(setting'[s].file) > Budget - reserved'
      <4>1. entries'[s].waiting => (rebalance => rebalance') /\ (rebalance' \/ reserved' >= reserved)
        BY <1>4, <3>3 DEF Aside
      <4> QED BY <3>1, <3>5, <3>6, <4>1
    <3> QED BY <2>2, <3>2, <3>3, <3>5, <3>6, <3>7
  <2> QED BY <2>5, <2>6, <2>7, <2>8, <2>11, <2>12, <2>13 DEF Known
<1> QED BY <1>2, <1>3, <1>4 DEF SourceInv

LEMMA StillOnTheWay ==
    ASSUME UNCHANGED <<jobs, batch, results, completions>>
    PROVE  OnTheWay' = OnTheWay
BY DEF OnTheWay, Queued, Taken, Posting, Posted

LEMMA ExternalKeepsSources ==
    ASSUME MediaInv, MediaTypes', External, NEW s \in Sources
    PROVE  SourceInv(s)'
<1>1. /\ MediaTypes /\ SourceInv(s) /\ \A e \in Editors : editor[e].pc = "none" <=> editor[e] = NoEdit
  BY DEF MediaInv, EditorsInOrder
<1>2. UNCHANGED <<jobs, batch, results, completions, graphics, editor, mutex, setting, player, deferred, reserved, rebalance>>
  BY DEF External, Register, Unregister, ShowInMainView, ShowInDisplay, ChangePreference, ShutdownCloses,
         graphicsVars, obsVars, managerVars
<1>3. OnTheWay' = OnTheWay
  BY <1>2, StillOnTheWay
<1>4. reserved' >= reserved
  BY <1>1, <1>2 DEF MediaTypes
<1>5. entries[s] \in EntryRecords
  BY <1>1 DEF MediaTypes
<1>6. SameEntry(entries[s], entries[s]) /\ SameEntry(entries[s], Bumped(entries[s]))
  BY <1>5 DEF SameEntry, Bumped, EntryRecords
<1>7. ~Bumped(entries[s]).fresh /\ ~Bumped(entries[s]).scheduled /\ Bumped(entries[s]).life = entries[s].life
  BY <1>5 DEF Bumped, EntryRecords
<1>8. entries[s].life = "new" => ~entries[s].fresh /\ ~entries[s].scheduled
  BY <1>1 DEF SourceInv, Untouched, FreshEntry
<1>9. ASSUME NEW t \in Sources, Register(t), t # s PROVE Aside(s)
  <2>1. entries'[s] = entries[s] /\ (Removed(s)' <=> Removed(s)) /\ UNCHANGED <<shown, signalled, preference>>
    BY <1>9, <1>1 DEF Register, MediaTypes, obsVars, Removed, Tracked, Accepting
  <2> QED BY <1>2, <1>3, <1>4, <1>6, <2>1 DEF Aside
<1>10. ASSUME Register(s) PROVE SourceInv(s)'
  <2>1. /\ entries[s] = FreshEntry /\ setting[s] = player[s] /\ ~deferred[s] /\ mutex[s] = NoOne
        /\ \A e \in Editors : editor[e].pc # "none" => editor[e].source # s
        /\ s \notin OnTheWay
        /\ setting[s].caching \in SavedCaching
    BY <1>1, <1>10 DEF Register, SourceInv, Untouched
  <2>2. \A e \in Editors : editor[e].source = s => ~editor[e].active
    BY <1>1, <2>1 DEF NoEdit
  <2>3. /\ entries'[s].life = "tracked" /\ entries'[s].updates = 0 /\ ~entries'[s].fresh /\ ~entries'[s].scheduled
        /\ ~entries'[s].pending /\ ~entries'[s].waiting /\ ~entries'[s].initialized /\ entries'[s].reserved = 0
    BY <1>10, <1>1, <2>1 DEF Register, MediaTypes, FreshEntry
  <2>4. s \notin Queued /\ s \notin Taken /\ s \notin Posting /\ s \notin Posted
    BY <2>1 DEF OnTheWay
  <2>5. PendingIsOnTheWay(s)'
    BY <1>3, <2>1, <2>3 DEF PendingIsOnTheWay
  <2>6. EditorsCounted(s)'
    <3>1. Editing(s)' = {}
      BY <1>2, <2>2 DEF Editing
    <3> QED BY <1>2, <2>2, <2>3, <3>1, FS_EmptySet DEF EditorsCounted
  <2>7. QueriesAreInTime(s)'
    BY <1>2, <2>1, <2>3, <2>4 DEF QueriesAreInTime, Taken
  <2>8. SetsAreDue(s)'
    BY <1>2, <2>4 DEF SetsAreDue, Queued, Taken
  <2>9. ResultsAreTrue(s)'
    BY <1>2, <2>4 DEF ResultsAreTrue, Posting, Posted
  <2>10. CacheIsReserved(s)'
    BY <1>1, <1>2, <2>1, <2>3 DEF CacheIsReserved, MediaTypes, PlayerRecords
  <2>11. EvaluatedIsSettled(s)'
    BY <2>3 DEF EvaluatedIsSettled
  <2>12. Untouched(s)' /\ UpdateArrives(s)'
    BY <1>2, <2>1, <2>3 DEF Untouched, UpdateArrives
  <2> QED BY <2>5, <2>6, <2>7, <2>8, <2>9, <2>10, <2>11, <2>12 DEF SourceInv, Known
<1>11. ASSUME NEW t \in Sources, Unregister(t) PROVE Aside(s)
  <2>1. UNCHANGED <<shown, signalled, preference, phase>>
    BY <1>11 DEF Unregister, obsVars
  <2>2. CASE t # s
    <3>1. entries'[s] = entries[s] /\ (Removed(s)' <=> Removed(s))
      BY <1>1, <1>11, <2>1, <2>2 DEF Unregister, MediaTypes, Removed, Tracked, Accepting
    <3> QED BY <1>2, <1>3, <1>4, <1>6, <2>1, <3>1 DEF Aside
  <2>3. CASE t = s
    <3>1. entries'[s].life = "retired"
      BY <1>1, <1>5, <1>11, <2>3 DEF Unregister, MediaTypes, Bumped, EntryRecords
    <3> QED BY <1>2, <1>3, <3>1 DEF Aside, Removed, Tracked
  <2> QED BY <2>2, <2>3
<1>12. ASSUME NEW t \in Sources, ShowInMainView(t) PROVE Aside(s)
  <2>1. UNCHANGED <<entries, phase, preference>>
    BY <1>12 DEF ShowInMainView, managerVars
  <2>2. signalled'[s] \/ (shown'[s] = shown[s] /\ (signalled[s] => signalled'[s]))
    BY <1>1, <1>12 DEF ShowInMainView, MediaTypes
  <2>3. Removed(s)' <=> Removed(s)
    BY <2>1 DEF Removed, Tracked, Accepting
  <2> QED BY <1>2, <1>3, <1>4, <1>6, <2>1, <2>2, <2>3 DEF Aside
<1>13. ASSUME NEW t \in Sources, ShowInDisplay(t) PROVE Aside(s)
  <2>1. UNCHANGED <<entries, phase, preference>> /\ AuxViews
    BY <1>13 DEF ShowInDisplay, managerVars
  <2>3. Removed(s)' <=> Removed(s)
    BY <2>1 DEF Removed, Tracked, Accepting
  <2> QED BY <1>2, <1>3, <1>4, <1>6, <2>1, <2>3 DEF Aside
<1>14. ASSUME ChangePreference PROVE Aside(s)
  <2>1. UNCHANGED <<phase, shown, signalled>>
        /\ entries'[s] = IF Accepting /\ Tracked(s) THEN Bumped(entries[s]) ELSE entries[s]
    BY <1>14 DEF ChangePreference
  <2>2. Removed(s)' <=> Removed(s)
    BY <1>7, <2>1 DEF Removed, Tracked, Accepting
  <2>3. CASE Accepting /\ Tracked(s)
    <3>1. entries'[s].life # "new"
      BY <1>7, <2>1, <2>3 DEF Tracked
    <3> QED BY <1>2, <1>3, <1>4, <1>6, <1>7, <2>1, <2>2, <2>3, <3>1 DEF Aside
  <2>4. CASE ~(Accepting /\ Tracked(s))
    <3>1. Removed(s)'
      BY <2>2, <2>4 DEF Removed
    <3> QED BY <1>2, <1>3, <2>1, <2>4, <3>1 DEF Aside
  <2> QED BY <2>3, <2>4
<1>15. ASSUME ShutdownCloses PROVE Aside(s)
  <2>1. UNCHANGED <<entries, shown, signalled, preference>> /\ Removed(s)'
    BY <1>15 DEF ShutdownCloses, obsVars, Removed, Accepting
  <2> QED BY <1>2, <1>3, <2>1 DEF Aside
<1> QED BY <1>1, <1>9, <1>10, <1>11, <1>12, <1>13, <1>14, <1>15, AsideKeeps DEF External

LEMMA EditKeepsSources ==
    ASSUME MediaInv, MediaTypes', NEW e \in Editors, NEW s \in Sources, Edit(e, s), NEW t \in Sources
    PROVE  SourceInv(t)'
<1>1. /\ MediaTypes /\ SourceInv(t) /\ SourceInv(s) /\ EditorsInOrder
  BY DEF MediaInv
<1>2. UNCHANGED <<jobs, batch, results, completions, graphics, phase, player, reserved, rebalance, shown, signalled, preference>>
  BY DEF Edit, Track, TrackLocks, TrackInactive, TrackBegins, ClearCaching, EditSettings, UpdateSource, FinishUpdate,
         graphicsVars, obsVars, managerVars
<1>3. OnTheWay' = OnTheWay
  BY <1>2, StillOnTheWay
<1>4. reserved' >= reserved
  BY <1>1, <1>2 DEF MediaTypes
<1>5. entries[s] \in EntryRecords /\ entries[t] \in EntryRecords /\ editor[e] \in EditRecords
  BY <1>1 DEF MediaTypes
<1>6. SameEntry(entries[t], entries[t])
  BY DEF SameEntry
<1>7. \A d \in Editors : d # e => editor'[d] = editor[d]
  BY <1>1 DEF MediaTypes, Edit, Track, TrackLocks, TrackInactive, TrackBegins, ClearCaching, EditSettings, UpdateSource, FinishUpdate, Goto
<1>8. /\ editor[e].source = s \/ editor[e] = NoEdit
      /\ editor'[e].source = s \/ editor'[e] = NoEdit
      /\ \A u \in Sources : u # s => /\ entries'[u] = entries[u] /\ setting'[u] = setting[u]
                                     /\ deferred'[u] = deferred[u] /\ mutex'[u] = mutex[u]
  BY <1>1 DEF MediaTypes, Edit, Track, TrackLocks, TrackInactive, TrackBegins, ClearCaching, EditSettings, UpdateSource, FinishUpdate,
     Goto, At, managerVars, obsVars, EditRecords
<1>9. CASE t # s
  <2>1. entries'[t] = entries[t] /\ setting'[t] = setting[t] /\ deferred'[t] = deferred[t] /\ mutex'[t] = mutex[t]
    BY <1>8, <1>9
  <2>2. Removed(t)' <=> Removed(t)
    BY <1>2, <2>1 DEF Removed, Tracked, Accepting
  <2>3. \A d \in Editors :
         \/ editor'[d] = editor[d]
         \/ /\ ~Concerns(editor[d], t) /\ ~Concerns(editor'[d], t)
            /\ editor'[d].source # t \/ editor'[d].pc = "none"
    BY <1>7, <1>8, <1>9 DEF Concerns, NoEdit
  <2>4. Aside(t)
    BY <1>2, <1>3, <1>4, <1>6, <2>1, <2>2, <2>3 DEF Aside
  <2> QED BY <1>1, <2>4, AsideKeeps
<1> SUFFICES SourceInv(s)'
  BY <1>9
<1>10. entries[s].life # "new"
  <2>1. CASE Track(e, s)
    BY <2>1 DEF Track
  <2>2. CASE editor[e].pc # "none" /\ editor[e].source = s
    BY <1>1, <2>2 DEF SourceInv, Untouched
  <2>3. Track(e, s) \/ (editor[e].pc # "none" /\ editor[e].source = s)
    BY DEF Edit, TrackLocks, TrackInactive, TrackBegins, ClearCaching, EditSettings, UpdateSource, FinishUpdate, At
  <2> QED BY <2>1, <2>2, <2>3
<1>11. ASSUME entries' = entries, setting' = setting, deferred' = deferred,
              ~Concerns(editor[e], s), ~Concerns(editor'[e], s)
       PROVE  SourceInv(s)'
  <2>1. Removed(s)' <=> Removed(s)
    BY <1>2, <1>11 DEF Removed, Tracked, Accepting
  <2>2. SameEntry(entries[s], entries[s])
    BY DEF SameEntry
  <2>3. Aside(s)
    BY <1>2, <1>3, <1>4, <1>7, <1>10, <1>11, <2>1, <2>2 DEF Aside
  <2> QED BY <1>1, <2>3, AsideKeeps
<1>12. ASSUME Track(e, s) PROVE SourceInv(s)'
  <2>1. editor'[e].active = FALSE /\ editor'[e].pc \in {"lock", "write"} /\ editor[e] = NoEdit
        /\ entries' = entries /\ setting' = setting /\ deferred' = deferred
    BY <1>1, <1>12 DEF Track, MediaTypes, managerVars, obsVars
  <2> QED BY <1>11, <2>1 DEF Concerns, NoEdit
<1>13. ASSUME TrackLocks(e, s) PROVE SourceInv(s)'
  <2>1. ~editor[e].active /\ editor[e].pc = "lock" /\ editor'[e].active = editor[e].active /\ editor'[e].pc = "begin"
        /\ entries' = entries /\ setting' = setting /\ deferred' = deferred
    BY <1>1, <1>5, <1>13 DEF TrackLocks, MediaTypes, managerVars, obsVars, At, Goto, EditorsInOrder, EditRecords
  <2> QED BY <1>11, <2>1 DEF Concerns
<1>14. ASSUME TrackInactive(e, s) PROVE SourceInv(s)'
  <2>1. ~editor[e].active /\ editor[e].pc = "begin" /\ editor'[e].active = editor[e].active /\ editor'[e].pc = "write"
        /\ entries' = entries /\ setting' = setting /\ deferred' = deferred
    BY <1>1, <1>5, <1>14 DEF TrackInactive, MediaTypes, managerVars, obsVars, At, Goto, EditorsInOrder, EditRecords
  <2> QED BY <1>11, <2>1 DEF Concerns
<1>15. IsFiniteSet(Editing(s)) /\ Cardinality(Editing(s)) \in Nat
  <2>1. Editing(s) \in SUBSET Editors /\ IsFiniteSet(Editors)
    BY MediaCacheAssumption DEF Editing
  <2>2. IsFiniteSet(Editing(s))
    BY <2>1, FS_Subset
  <2> QED BY <2>2, FS_CardinalityType
<1>16. ASSUME TrackBegins(e, s) PROVE SourceInv(s)'
  <2>1. Known(s) /\ ~Removed(s)
    BY <1>1, <1>16 DEF TrackBegins, SourceInv
  <2>2. /\ ~entries'[s].fresh /\ ~entries'[s].scheduled /\ entries'[s].updates = entries[s].updates + 1
        /\ entries'[s].life = entries[s].life /\ entries'[s].settle = entries[s].settle
        /\ entries'[s].reserved = entries[s].reserved /\ entries'[s].file = entries[s].file
        /\ entries'[s].initialized = entries[s].initialized /\ entries'[s].pending = entries[s].pending
        /\ entries'[s].waiting = entries[s].waiting
    BY <1>1, <1>5, <1>16 DEF TrackBegins, MediaTypes, Bumped, EntryRecords
  <2>3. editor[e].pc = "begin" /\ ~editor[e].active /\ editor[e].source = s /\ UNCHANGED <<setting, deferred>>
    BY <1>1, <1>16 DEF TrackBegins, At, EditorsInOrder, obsVars
  <2>4. editor'[e].pc = "clear" /\ editor'[e].active /\ editor'[e].source = s
    BY <1>1, <1>5, <1>16, <2>3 DEF TrackBegins, MediaTypes, EditRecords
  <2>5. Editing(s)' = Editing(s) \cup {e} /\ e \notin Editing(s)
    BY <1>7, <2>3, <2>4 DEF Editing
  <2>6. Cardinality(Editing(s)') = Cardinality(Editing(s)) + 1
    BY <1>15, <2>5, FS_AddElement
  <2>7. Untouched(s)'
    BY <1>10, <2>2 DEF Untouched
  <2>8. UpdateArrives(s)'
    BY <1>1, <1>2, <1>7, <2>3 DEF SourceInv, UpdateArrives, At
  <2>9. PendingIsOnTheWay(s)'
    BY <1>3, <2>1, <2>2 DEF Known, PendingIsOnTheWay
  <2>10. EditorsCounted(s)'
    BY <1>7, <2>1, <2>2, <2>3, <2>4, <2>6 DEF Known, EditorsCounted
  <2>11. QueriesAreInTime(s)'
    BY <2>2, <2>4 DEF QueriesAreInTime, Unedited
  <2>12. SetsAreDue(s)'
    BY <1>2, <2>1, <2>2, <2>3 DEF Known, SetsAreDue
  <2>13. ResultsAreTrue(s)'
    BY <1>2, <2>1, <2>2, <2>3 DEF Known, ResultsAreTrue, QueryIsTrue, SetIsTrue
  <2>14. CacheIsReserved(s)'
    BY <1>2, <2>1, <2>2, <2>3 DEF Known, CacheIsReserved
  <2>15. EvaluatedIsSettled(s)'
    BY <2>2 DEF EvaluatedIsSettled
  <2> QED BY <2>7, <2>8, <2>9, <2>10, <2>11, <2>12, <2>13, <2>14, <2>15 DEF SourceInv, Known
\* The settings of a source change while an editor is on it.
<1>17. ASSUME entries' = entries, editor[e].source = s, editor'[e].source = s,
              editor[e].pc \in {"clear", "write", "update"}, editor'[e].pc \in {"write", "update", "finish"},
              editor[e].active \/ Removed(s), editor'[e].active = editor[e].active,
              ~setting'[s].caching \/ Removed(s), deferred[s] => deferred'[s], UpdateArrives(s)'
       PROVE  SourceInv(s)'
  <2>1. Removed(s)' <=> Removed(s)
    BY <1>2, <1>17 DEF Removed, Tracked, Accepting
  <2>2. Untouched(s)'
    BY <1>10, <1>17 DEF Untouched
  <2>3. SUFFICES ASSUME ~Removed(s) PROVE Known(s)'
    BY <1>17, <2>1, <2>2 DEF SourceInv
  <2>4. Known(s) /\ editor[e].active /\ ~setting'[s].caching
    BY <1>1, <1>17, <2>3 DEF SourceInv
  <2>5. ~Unedited(s) /\ ~Unedited(s)' /\ ~InTime(s)
    BY <1>17, <2>4 DEF Unedited, InTime
  <2>6. Editing(s)' = Editing(s)
    BY <1>7, <1>17 DEF Editing
  <2>7. PendingIsOnTheWay(s)'
    BY <1>3, <1>17, <2>4 DEF Known, PendingIsOnTheWay
  <2>8. EditorsCounted(s)'
    BY <1>17, <2>4, <2>6 DEF Known, EditorsCounted
  <2>9. QueriesAreInTime(s)'
    BY <1>2, <1>17, <2>4, <2>5 DEF Known, QueriesAreInTime
  <2>10. SetsAreDue(s)'
    BY <1>2, <1>17, <2>4, <2>5 DEF Known, SetsAreDue
  <2>11. ResultsAreTrue(s)'
    <3>1. \A result : QueryIsTrue(s, result) => QueryIsTrue(s, result)'
      BY <1>17, <2>5 DEF QueryIsTrue
    <3>2. \A result, here : SetIsTrue(s, result, here) => SetIsTrue(s, result, here)'
      BY <1>2, <1>17, <2>4, <2>5 DEF SetIsTrue
    <3> QED BY <1>2, <2>4, <3>1, <3>2 DEF Known, ResultsAreTrue
  <2>12. CacheIsReserved(s)'
    BY <1>2, <1>17, <2>4 DEF Known, CacheIsReserved
  <2>13. EvaluatedIsSettled(s)'
    BY <1>17, <2>4, <2>5 DEF Known, EvaluatedIsSettled
  <2> QED BY <2>7, <2>8, <2>9, <2>10, <2>11, <2>12, <2>13 DEF Known
<1>18. ASSUME ClearCaching(e, s) PROVE SourceInv(s)'
  <2>1. editor[e].source = s /\ editor[e].pc = "clear" /\ editor[e].active /\ entries' = entries /\ deferred' = deferred
    BY <1>1, <1>18 DEF ClearCaching, At, EditorsInOrder, managerVars
  <2>2. editor'[e].source = s /\ editor'[e].pc = "write" /\ editor'[e].active = editor[e].active
    BY <1>1, <1>5, <1>18, <2>1 DEF ClearCaching, Goto, MediaTypes, EditRecords
  <2>3. ~setting'[s].caching
    BY <1>1, <1>18 DEF ClearCaching, MediaTypes, PlayerRecords
  <2>4. UpdateArrives(s)'
    BY <2>1, <2>2 DEF UpdateArrives, At
  <2> QED BY <1>17, <2>1, <2>2, <2>3, <2>4
<1>19. ASSUME EditSettings(e, s) PROVE SourceInv(s)'
  <2>1. editor[e].source = s /\ editor[e].pc = "write" /\ (editor[e].active \/ Removed(s)) /\ entries' = entries /\ deferred' = deferred
    BY <1>1, <1>19 DEF EditSettings, At, EditorsInOrder, managerVars
  <2>2. editor'[e].source = s /\ editor'[e].pc = "update" /\ editor'[e].active = editor[e].active
    BY <1>1, <1>5, <1>19, <2>1 DEF EditSettings, Goto, MediaTypes, EditRecords
  <2>3. setting'[s].caching = setting[s].caching
    BY <1>1, <1>19 DEF EditSettings, MediaTypes, PlayerRecords
  <2>4. ~setting'[s].caching \/ Removed(s)
    BY <1>1, <2>1, <2>3 DEF SourceInv, Known, EditorsCounted
  <2>5. UpdateArrives(s)'
    BY <2>2 DEF UpdateArrives, At
  <2> QED BY <1>17, <2>1, <2>2, <2>4, <2>5
<1>20. ASSUME UpdateSource(e, s) PROVE SourceInv(s)'
  <2>1. editor[e].source = s /\ editor[e].pc = "update" /\ (editor[e].active \/ Removed(s)) /\ entries' = entries /\ setting' = setting
    BY <1>1, <1>20 DEF UpdateSource, At, EditorsInOrder, managerVars
  <2>2. deferred'[s]
    BY <1>1, <1>20 DEF UpdateSource, MediaTypes
  <2>3. UpdateArrives(s)'
    BY <2>2 DEF UpdateArrives
  <2>4. CASE editor[e].active
    <3>1. editor'[e].source = s /\ editor'[e].pc = "finish" /\ editor'[e].active = editor[e].active
      BY <1>1, <1>5, <1>20, <2>1, <2>4 DEF UpdateSource, MediaTypes, EditRecords
    <3>2. ~setting'[s].caching \/ Removed(s)
      BY <1>1, <2>1, <2>4 DEF SourceInv, Known, EditorsCounted
    <3> QED BY <1>17, <2>1, <2>2, <2>3, <3>1, <3>2
  <2>5. CASE ~editor[e].active
    <3>1. Removed(s)'
      BY <1>2, <2>1, <2>5 DEF Removed, Tracked, Accepting
    <3>2. Untouched(s)'
      BY <1>10, <2>1 DEF Untouched
    <3> QED BY <2>3, <3>1, <3>2 DEF SourceInv
  <2> QED BY <2>4, <2>5
<1>21. ASSUME FinishUpdate(e, s) PROVE SourceInv(s)'
  <2>1. editor[e].source = s /\ editor[e].pc = "finish" /\ editor[e].active /\ setting' = setting /\ deferred' = deferred
    BY <1>1, <1>21 DEF FinishUpdate, At, EditorsInOrder, obsVars
  <2>2. editor'[e] = NoEdit
    BY <1>1, <1>21 DEF FinishUpdate, MediaTypes
  <2>3. entries'[s].life = entries[s].life
    BY <1>1, <1>5, <1>21 DEF FinishUpdate, MediaTypes, Bumped, EntryRecords
  <2>4. Untouched(s)'
    BY <1>10, <2>3 DEF Untouched
  <2>5. UpdateArrives(s)'
    BY <1>1, <1>2, <1>7, <2>1 DEF SourceInv, UpdateArrives, At
  <2>6. SUFFICES ASSUME ~Removed(s) PROVE Known(s)'
    <3>1. Removed(s)' <=> Removed(s)
      BY <1>2, <2>3 DEF Removed, Tracked, Accepting
    <3> QED BY <2>4, <2>5, <3>1 DEF SourceInv
  <2>7. Known(s)
    BY <1>1, <2>6 DEF SourceInv
  <2>8. /\ ~entries'[s].fresh /\ ~entries'[s].scheduled /\ entries'[s].updates = entries[s].updates - 1
        /\ entries'[s].settle = 2
        /\ entries'[s].reserved = entries[s].reserved /\ entries'[s].file = entries[s].file
        /\ entries'[s].initialized = entries[s].initialized /\ entries'[s].pending = entries[s].pending
        /\ entries'[s].waiting = entries[s].waiting
    BY <1>1, <1>5, <1>21, <2>6 DEF FinishUpdate, MediaTypes, Bumped, EntryRecords, SettleTicks
  <2>9. Editing(s)' = Editing(s) \ {e} /\ e \in Editing(s)
    BY <1>7, <2>1, <2>2 DEF Editing, NoEdit
  <2>10. Cardinality(Editing(s)') = Cardinality(Editing(s)) - 1
    BY <1>15, <2>9, FS_RemoveElement
  <2>11. PendingIsOnTheWay(s)'
    BY <1>3, <2>7, <2>8 DEF Known, PendingIsOnTheWay
  <2>12. EditorsCounted(s)'
    BY <1>7, <2>1, <2>2, <2>7, <2>8, <2>10 DEF Known, EditorsCounted, NoEdit
  <2>13. QueriesAreInTime(s)'
    BY <2>8 DEF QueriesAreInTime
  <2>14. SetsAreDue(s)'
    BY <1>2, <2>1, <2>7, <2>8 DEF Known, SetsAreDue
  <2>15. ResultsAreTrue(s)'
    BY <1>2, <2>1, <2>7, <2>8 DEF Known, ResultsAreTrue, QueryIsTrue, SetIsTrue
  <2>16. CacheIsReserved(s)'
    BY <1>2, <2>1, <2>7, <2>8 DEF Known, CacheIsReserved
  <2>17. EvaluatedIsSettled(s)'
    BY <2>8 DEF EvaluatedIsSettled
  <2> QED BY <2>11, <2>12, <2>13, <2>14, <2>15, <2>16, <2>17 DEF Known
<1> QED BY <1>12, <1>13, <1>14, <1>16, <1>18, <1>19, <1>20, <1>21 DEF Edit

\* A job has run: its source knows of it what its result says.
LEMMA FinishKeepsSources ==
    ASSUME MediaInv, MediaTypes', graphics = "run", NEW result \in ResultRecords, result.job = Head(batch), Finish(result),
           UNCHANGED <<managerVars, editor, mutex, obsVars>>,
           ~Removed(Head(batch).source) => QueryIsTrue(Head(batch).source, result) /\ SetIsTrue(Head(batch).source, result, TRUE),
           NEW s \in Sources
    PROVE  SourceInv(s)'
<1>1. /\ MediaTypes /\ SourceInv(s) /\ OneJobEach /\ batch # <<>>
  BY DEF MediaInv, OneJobEach
<1>2. /\ Elements(batch') = Elements(batch) \ {Head(batch)}
      /\ Elements(results') = Elements(results) \cup {result}
      /\ Posting' = Posting \cup {Head(batch).source} /\ graphics' \in {"run", "post"}
      /\ Head(batch) \in Elements(batch)
  BY <1>1, RunsOne
<1>3. UNCHANGED <<entries, phase, jobs, completions, setting, player, deferred, shown, signalled, preference, reserved, rebalance>>
  BY DEF managerVars, obsVars
<1>4. OnTheWay' = OnTheWay
  BY <1>1, <1>3, RunKeepsWays
<1>5. Untouched(s)'
  BY <1>1, <1>3, <1>4 DEF SourceInv, Untouched
<1>6. UpdateArrives(s)'
  BY <1>1, <1>3 DEF SourceInv, UpdateArrives, At
<1>7. SUFFICES ASSUME ~Removed(s) PROVE Known(s)'
  <2>1. Removed(s)' <=> Removed(s)
    BY <1>3 DEF Removed, Tracked, Accepting
  <2> QED BY <1>5, <1>6, <2>1 DEF SourceInv
<1>8. Known(s)
  BY <1>1, <1>7 DEF SourceInv
<1>9. PendingIsOnTheWay(s)'
  BY <1>3, <1>4, <1>8 DEF Known, PendingIsOnTheWay
<1>10. EditorsCounted(s)'
  BY <1>3, <1>8 DEF Known, EditorsCounted, Editing
<1>11. QueriesAreInTime(s)'
  BY <1>2, <1>3, <1>8 DEF Known, QueriesAreInTime, InTime, Unedited
<1>12. SetsAreDue(s)'
  BY <1>2, <1>3, <1>8 DEF Known, SetsAreDue, Unedited
<1>13. \A r : QueryIsTrue(s, r)' <=> QueryIsTrue(s, r)
  BY <1>3 DEF QueryIsTrue, InTime, Unedited, SameView, Eligible
<1>14. \A r, here : SetIsTrue(s, r, here)' <=> SetIsTrue(s, r, here)
  BY <1>3 DEF SetIsTrue, Unedited, SameView, Eligible
<1>15. ResultsAreTrue(s)'
  BY <1>2, <1>3, <1>7, <1>8, <1>13, <1>14 DEF Known, ResultsAreTrue
<1>16. CacheIsReserved(s)'
  BY <1>3, <1>8 DEF Known, CacheIsReserved
<1>17. EvaluatedIsSettled(s)'
  BY <1>3, <1>8 DEF Known, EvaluatedIsSettled, Unedited, SameView, Eligible
<1> QED BY <1>9, <1>10, <1>11, <1>12, <1>15, <1>16, <1>17 DEF Known

LEMMA RunKeepsSources ==
    ASSUME MediaInv, MediaTypes', QueryStale \/ QueryMedia \/ SetStale \/ SetValidated, NEW s \in Sources
    PROVE  SourceInv(s)'
<1> DEFINE j == Head(batch).source
<1>1. /\ MediaTypes /\ OneJobEach /\ batch # <<>> /\ graphics = "run"
  BY DEF MediaInv, OneJobEach, QueryStale, QueryMedia, SetStale, SetValidated
<1>2. /\ Head(batch) \in JobRecords /\ Head(batch) \in Elements(batch) /\ Job = Head(batch)
      /\ j \in Sources
  <2>1. Head(batch) \in JobRecords /\ Head(batch) \in Elements(batch)
    BY <1>1, Shortened DEF MediaTypes, OneJobEach
  <2> QED BY <2>1 DEF JobRecords, Job
<1>3. SourceInv(j) /\ (~Removed(j) => Known(j))
  BY <1>2 DEF MediaInv, SourceInv
<1>4. Unrun(Job) \in ResultRecords /\ Unrun(Job).job = Head(batch)
  BY <1>1, <1>2, SnapshotTypes
<1>5. Snapshot(j, Unrun(Job)) \in ResultRecords /\ Snapshot(j, Unrun(Job)).job = Head(batch)
  BY <1>1, <1>2, SnapshotTypes
<1>6. Job.enable \in BOOLEAN /\ Job.type \in {"query", "set"} /\ setting[j].caching \in BOOLEAN /\ player[j].caching \in BOOLEAN
  BY <1>1, <1>2 DEF JobRecords, MediaTypes, PlayerRecords
<1>7. CASE QueryStale
  <2>1. Finish(Unrun(Job)) /\ UNCHANGED <<managerVars, editor, mutex, obsVars>> /\ Stale(Job) /\ Job.type = "query"
    BY <1>7 DEF QueryStale
  <2>2. ~Removed(j) => QueryIsTrue(j, Unrun(Job)) /\ SetIsTrue(j, Unrun(Job), TRUE)
    BY <1>2, <1>4, <2>1 DEF Stale, QueryIsTrue, SetIsTrue
  <2> QED BY <1>1, <1>4, <2>1, <2>2, FinishKeepsSources
<1>8. CASE QueryMedia
  <2>1. UNCHANGED <<managerVars, editor, mutex, obsVars>> /\ ~Stale(Job) /\ Job.type = "query"
    BY <1>8 DEF QueryMedia
  <2>2. PICK bytes \in {0, Size(player[j].file)} : Finish([Snapshot(j, Unrun(Job)) EXCEPT !.bytes = bytes])
    BY <1>2, <1>8 DEF QueryMedia
  <2> DEFINE result == [Snapshot(j, Unrun(Job)) EXCEPT !.bytes = bytes]
  <2>3. bytes \in Nat
    BY <1>1, <1>2, MediaCacheAssumption DEF MediaTypes, PlayerRecords
  <2>4. result \in ResultRecords /\ result.job = Head(batch) /\ result.bytes = bytes
    <3> DEFINE snapshot == Snapshot(j, Unrun(Job))
    <3>1. snapshot \in ResultRecords /\ snapshot.job = Head(batch)
      BY <1>5
    <3> HIDE DEF snapshot
    <3>2. [snapshot EXCEPT !.bytes = bytes] \in ResultRecords /\ [snapshot EXCEPT !.bytes = bytes].job = Head(batch)
          /\ [snapshot EXCEPT !.bytes = bytes].bytes = bytes
      BY <2>3, <3>1 DEF ResultRecords
    <3> QED BY <3>2 DEF snapshot
  <2>5. result.valid /\ result.file = setting[j].file /\ result.caching = setting[j].caching /\ (result.eligible <=> Eligible(j))
    BY DEF Snapshot, Unrun
  <2>6. ASSUME ~Removed(j) PROVE QueryIsTrue(j, result) /\ SetIsTrue(j, result, TRUE)
    <3>1. entries[j].fresh
      BY <1>2, <2>1, <2>6 DEF Stale
    <3>2. InTime(j)
      BY <1>2, <1>3, <2>1, <2>6, <3>1 DEF Known, QueriesAreInTime
    <3>3. result.bytes \in {0, Size(setting[j].file)}
      BY <2>4, <3>2 DEF InTime
    <3> HIDE DEF result
    <3> QED BY <1>2, <2>1, <2>4, <2>5, <3>2, <3>3 DEF QueryIsTrue, SetIsTrue, SameView
  <2> QED BY <1>1, <2>1, <2>2, <2>4, <2>6, FinishKeepsSources
<1>9. CASE SetStale
  <2>1. Finish(Unrun(Job)) /\ UNCHANGED <<managerVars, editor, mutex, obsVars>> /\ Job.type = "set"
    BY <1>9 DEF SetStale
  <2>2. Unrun(Job).applied = FALSE /\ Unrun(Job).bytes = 0
    BY DEF Unrun
  <2>3. ~Removed(j) => QueryIsTrue(j, Unrun(Job)) /\ SetIsTrue(j, Unrun(Job), TRUE)
    BY <1>2, <1>3, <1>4, <2>1, <2>2 DEF QueryIsTrue, SetIsTrue, Known, SetsAreDue
  <2> QED BY <1>1, <1>4, <2>1, <2>3, FinishKeepsSources
<1>10. CASE SetValidated
  <2> DEFINE snapshot == Snapshot(j, Unrun(Job))
             applies == MayApply(Job, snapshot)
             result == [snapshot EXCEPT !.applied = applies]
  <2>1. UNCHANGED <<managerVars, editor, obsVars>> /\ ~Stale(Job) /\ Job.type = "set"
        /\ \/ applies /\ snapshot.caching # Job.enable /\ mutex' = [mutex EXCEPT ![j] = "graphics"] /\ graphics' = "write" /\ UNCHANGED <<batch, results>>
           \/ ~(applies /\ snapshot.caching # Job.enable) /\ Finish(result) /\ UNCHANGED mutex
    BY <1>2, <1>10 DEF SetValidated
  <2>2. snapshot.caching = setting[j].caching /\ snapshot.bytes = 0 /\ snapshot \in ResultRecords /\ snapshot.job = Head(batch)
    BY <1>5 DEF Snapshot, Unrun
  <2>3. applies \in BOOLEAN
    BY DEF MayApply
  <2>4. entries[j].fresh /\ ~Removed(j)
    BY <1>2, <2>1 DEF Stale
  <2>5. setting[j].caching # Job.enable
    BY <1>2, <1>3, <2>1, <2>4 DEF Known, SetsAreDue
  <2> HIDE DEF snapshot, applies
  <2>6. CASE mutex' = [mutex EXCEPT ![j] = "graphics"] /\ graphics' = "write" /\ UNCHANGED <<batch, results>>
    <3>1. UNCHANGED <<jobs, batch, results, completions, entries, phase, editor, setting, player, deferred, shown, signalled, preference, reserved, rebalance>>
      BY <2>1, <2>6 DEF managerVars, obsVars
    <3>2. OnTheWay' = OnTheWay /\ (Removed(s)' <=> Removed(s)) /\ SameEntry(entries[s], entries[s]) /\ reserved' >= reserved
      BY <1>1, <3>1, StillOnTheWay DEF Removed, Tracked, Accepting, SameEntry, MediaTypes
    <3>3. entries[s].life = "new" => mutex'[s] = mutex[s]
      BY <1>1, <2>4, <2>6 DEF MediaTypes, Removed, Tracked
    <3>4. Aside(s)
      BY <1>1, <2>6, <3>1, <3>2, <3>3 DEF Aside
    <3> QED BY <1>1, <3>4, AsideKeeps DEF MediaInv
  <2>7. CASE ~(applies /\ snapshot.caching # Job.enable) /\ Finish(result) /\ UNCHANGED mutex
    <3>1. ~applies
      BY <2>2, <2>5, <2>7
    <3>2. result \in ResultRecords /\ result.job = Head(batch) /\ result.bytes = 0 /\ ~result.applied
      BY <2>2, <2>3, <3>1 DEF ResultRecords
    <3>3. QueryIsTrue(j, result) /\ SetIsTrue(j, result, TRUE)
      BY <1>2, <1>3, <2>1, <2>4, <3>2 DEF QueryIsTrue, SetIsTrue, Known, SetsAreDue
    <3> HIDE DEF result
    <3> QED BY <1>1, <2>1, <2>7, <3>2, <3>3, FinishKeepsSources
  <2> QED BY <2>1, <2>6, <2>7
<1> QED BY <1>7, <1>8, <1>9, <1>10

LEMMA WriteKeepsSources ==
    ASSUME MediaInv, MediaTypes', WriteCaching, NEW s \in Sources
    PROVE  SourceInv(s)'
<1> DEFINE j == Head(batch).source
<1>1. /\ MediaTypes /\ OneJobEach /\ batch # <<>> /\ graphics = "write" /\ SourceInv(s) /\ WriteIsValid
  BY DEF MediaInv, OneJobEach, WriteCaching
<1>2. Head(batch) \in JobRecords /\ Head(batch) \in Elements(batch) /\ Job = Head(batch) /\ j \in Sources /\ j \in Taken
  <2>1. Head(batch) \in JobRecords /\ Head(batch) \in Elements(batch)
    BY <1>1, Shortened DEF MediaTypes, OneJobEach
  <2> QED BY <2>1 DEF JobRecords, Job, Taken
<1>3. /\ setting' = [setting EXCEPT ![j].caching = Job.enable] /\ deferred' = [deferred EXCEPT ![j] = TRUE]
      /\ mutex' = [mutex EXCEPT ![j] = NoOne] /\ Finish([Unrun(Job) EXCEPT !.valid = TRUE, !.applied = TRUE])
      /\ UNCHANGED <<entries, phase, jobs, completions, editor, player, shown, signalled, preference, reserved, rebalance>>
  BY <1>2 DEF WriteCaching, managerVars
<1>4. PICK result \in ResultRecords :
        Finish(result) /\ result.job = Head(batch) /\ result.applied /\ result.valid /\ result.bytes = 0
  <2> DEFINE r == [Unrun(Job) EXCEPT !.valid = TRUE, !.applied = TRUE]
  <2>1. r \in ResultRecords /\ r.job = Head(batch) /\ r.applied /\ r.valid /\ r.bytes = 0
    BY <1>2 DEF Unrun, ResultRecords
  <2>2. Finish(r)
    BY <1>3
  <2> HIDE DEF r
  <2> QED BY <2>1, <2>2
<1>5. /\ Elements(batch') = Elements(batch) \ {Head(batch)}
      /\ Elements(results') = Elements(results) \cup {result}
      /\ graphics' \in {"run", "post"}
  BY <1>1, <1>3, <1>4, RunsOne
<1>6. OnTheWay' = OnTheWay
  BY <1>1, <1>3, <1>4, RunKeepsWays
<1>7. Removed(s)' <=> Removed(s)
  BY <1>3 DEF Removed, Tracked, Accepting
<1>8. CASE s # j
  <2>1. setting'[s] = setting[s] /\ deferred'[s] = deferred[s] /\ mutex'[s] = mutex[s] /\ SameEntry(entries[s], entries[s]) /\ reserved' >= reserved
    BY <1>1, <1>2, <1>3, <1>8 DEF MediaTypes, SameEntry
  <2>2. Aside(s)
    BY <1>1, <1>3, <1>4, <1>5, <1>6, <1>7, <1>8, <2>1 DEF Aside
  <2> QED BY <1>1, <2>2, AsideKeeps
<1>9. CASE s = j
  <2>1. deferred'[s] /\ setting'[s].file = setting[s].file /\ setting'[s].caching = Job.enable
    BY <1>1, <1>2, <1>3, <1>9 DEF MediaTypes, PlayerRecords
  <2>2. s \in OnTheWay
    BY <1>2, <1>9 DEF OnTheWay
  <2>3. Untouched(s)'
    BY <1>1, <1>3, <2>2 DEF SourceInv, Untouched
  <2>4. UpdateArrives(s)'
    BY <2>1 DEF UpdateArrives
  <2>5. SUFFICES ASSUME ~Removed(s) PROVE Known(s)'
    BY <1>7, <2>3, <2>4 DEF SourceInv
  <2>6. /\ Known(s) /\ Job.type = "set" /\ Job.enable \in BOOLEAN /\ setting[s].caching \in BOOLEAN
        /\ Unedited(s) /\ setting[s].caching # Job.enable
        /\ Job.enable => setting[s].file = Job.file /\ (entries[s].fresh => SameView(s, TRUE))
    BY <1>1, <1>2, <1>9, <2>5 DEF SourceInv, WriteIsValid, JobRecords, MediaTypes, PlayerRecords
  <2>7. Job.enable => /\ entries[s].initialized /\ entries[s].file = Job.file /\ Job.file \in Files
                      /\ entries[s].reserved = Size(Job.file)
    BY <1>2, <1>9, <2>6 DEF Known, SetsAreDue
  <2>8. /\ \A job \in Elements(jobs) : job.source # s
        /\ \A job \in Elements(batch') : job.source # s
        /\ \A r \in Elements(results) : r.job.source # s
        /\ \A r \in Elements(completions) : r.job.source # s
    <3>1. s \in Taken /\ s \notin Queued /\ s \notin Posting /\ s \notin Posted
      BY <1>1, <1>2, <1>9 DEF OneJobEach
    <3>2. \A job \in Elements(batch') : job.source # s
      BY <1>1, <1>2, <1>5, <1>9 DEF OneJobEach, OneOfEach
    <3> QED BY <3>1, <3>2 DEF Queued, Posting, Posted
  <2>9. PendingIsOnTheWay(s)'
    BY <1>3, <1>6, <2>6 DEF Known, PendingIsOnTheWay
  <2>10. EditorsCounted(s)'
    BY <1>3, <2>6 DEF Known, EditorsCounted, Editing, Unedited
  <2>11. QueriesAreInTime(s)'
    BY <1>5, <2>8 DEF QueriesAreInTime
  <2>12. SetsAreDue(s)'
    BY <1>3, <2>8 DEF SetsAreDue
  <2>13. QueryIsTrue(s, result)' /\ SetIsTrue(s, result, TRUE)'
    BY <1>2, <1>3, <1>4, <2>1, <2>6, <2>7 DEF QueryIsTrue, SetIsTrue, SameView, Eligible, Unedited
  <2>14. ResultsAreTrue(s)'
    BY <1>3, <1>5, <2>8, <2>13 DEF ResultsAreTrue
  <2>15. CacheIsReserved(s)'
    BY <1>1, <1>3, <2>1, <2>6, <2>7 DEF Known, CacheIsReserved
  <2>16. EvaluatedIsSettled(s)'
    BY <1>3, <2>2, <2>6 DEF Known, PendingIsOnTheWay, EvaluatedIsSettled
  <2> QED BY <2>9, <2>10, <2>11, <2>12, <2>14, <2>15, <2>16 DEF Known
<1> QED BY <1>8, <1>9

LEMMA TakeKeepsSources ==
    ASSUME MediaInv, MediaTypes', TickTakes, NEW s \in Sources
    PROVE  SourceInv(s)'
<1>1. MediaTypes /\ OneJobEach /\ SourceInv(s) /\ EditorsInOrder /\ graphics = "idle"
  BY DEF MediaInv, TickTakes
<1> DEFINE es == [t \in Sources |-> [entries[t] EXCEPT !.settle = IF @ = 0 THEN 0 ELSE @ - 1]]
<1>2. /\ Elements(jobs') = Elements(jobs) \ Elements(batch') /\ Elements(batch') \subseteq Elements(jobs)
      /\ \A job \in Elements(batch') : ~Delayed(es, job)
      /\ OnTheWay' = OnTheWay
  BY <1>1, TakesSome
<1>3. /\ UNCHANGED <<phase, reserved, completions, rebalance, results, mutex, editor, setting, player, deferred, shown, signalled, preference>>
      /\ graphics' \in {"sources", "run"} /\ entries' = es
  BY DEF TickTakes, obsVars
<1>4. entries[s] \in EntryRecords
  BY <1>1 DEF MediaTypes
<1>5. /\ es[s].life = entries[s].life /\ es[s].updates = entries[s].updates /\ es[s].reserved = entries[s].reserved
      /\ es[s].file = entries[s].file /\ es[s].initialized = entries[s].initialized /\ es[s].pending = entries[s].pending
      /\ es[s].waiting = entries[s].waiting /\ es[s].fresh = entries[s].fresh /\ es[s].scheduled = entries[s].scheduled
      /\ es[s].settle = IF entries[s].settle = 0 THEN 0 ELSE entries[s].settle - 1
  BY <1>4 DEF EntryRecords
<1>6. entries[s].life = "new" => es[s] = entries[s]
  <2>1. ASSUME entries[s].life = "new" PROVE entries[s] = FreshEntry
    BY <1>1, <2>1 DEF SourceInv, Untouched
  <2>2. [FreshEntry EXCEPT !.settle = IF @ = 0 THEN 0 ELSE @ - 1] = FreshEntry
    BY DEF FreshEntry
  <2> QED BY <2>1, <2>2
<1> HIDE DEF es
<1>7. Removed(s)' <=> Removed(s)
  BY <1>3, <1>5 DEF Removed, Tracked, Accepting
<1>8. Untouched(s)'
  BY <1>1, <1>2, <1>3, <1>5, <1>6 DEF SourceInv, Untouched
<1>9. UpdateArrives(s)'
  BY <1>1, <1>3 DEF SourceInv, UpdateArrives, At
<1>10. SUFFICES ASSUME ~Removed(s) PROVE Known(s)'
  BY <1>7, <1>8, <1>9 DEF SourceInv
<1>11. Known(s)
  BY <1>1, <1>10 DEF SourceInv
<1>12. PendingIsOnTheWay(s)'
  BY <1>2, <1>3, <1>5, <1>11 DEF Known, PendingIsOnTheWay
<1>13. EditorsCounted(s)'
  BY <1>3, <1>5, <1>11 DEF Known, EditorsCounted, Editing
<1>14. QueriesAreInTime(s)'
  <2>1. SUFFICES ASSUME NEW job \in Elements(batch'), job.source = s, job.type = "query", entries[s].fresh
                 PROVE  InTime(s)
    BY <1>3, <1>5 DEF QueriesAreInTime, InTime, Unedited
  <2>2. ~(es[s].updates > 0 \/ es[s].settle > 0)
    BY <1>2, <1>5, <1>10, <2>1 DEF Delayed
  <2>3. entries[s].updates = Cardinality(Editing(s)) /\ IsFiniteSet(Editing(s)) /\ Cardinality(Editing(s)) \in Nat
    <3>1. Editing(s) \in SUBSET Editors /\ IsFiniteSet(Editors)
      BY MediaCacheAssumption DEF Editing
    <3>2. IsFiniteSet(Editing(s))
      BY <3>1, FS_Subset
    <3> QED BY <1>11, <3>2, FS_CardinalityType DEF Known, EditorsCounted
  <2>4. Cardinality(Editing(s)) = 0
    BY <1>5, <2>2, <2>3
  <2>5. Editing(s) = {}
    BY <2>3, <2>4, FS_EmptySet
  <2>6. Unedited(s)
    BY <2>5 DEF Unedited, Editing
  <2>7. entries[s].settle # 2
    BY <1>4, <1>5, <2>2 DEF EntryRecords
  <2>8. ~deferred[s]
    BY <1>1, <1>11, <2>6, <2>7 DEF Known, QueriesAreInTime
  <2>9. \A e \in Editors : ~At(e, s, "update") /\ ~(At(e, s, "write") /\ editor[e].active)
    BY <1>1, <1>10, <2>6 DEF At, Unedited, EditorsInOrder
  <2>10. setting[s] = player[s]
    BY <1>1, <2>8, <2>9 DEF SourceInv, UpdateArrives
  <2> QED BY <2>6, <2>8, <2>10 DEF InTime
<1>15. SetsAreDue(s)'
  BY <1>2, <1>3, <1>5, <1>11 DEF Known, SetsAreDue, Unedited
<1>16. \A r : QueryIsTrue(s, r)' <=> QueryIsTrue(s, r)
  BY <1>3, <1>5 DEF QueryIsTrue, InTime, Unedited, SameView, Eligible
<1>17. \A r, here, there : SetIsTrue(s, r, here) /\ (here => there) => SetIsTrue(s, r, there)'
  BY <1>3, <1>5 DEF SetIsTrue, Unedited, SameView, Eligible
<1>18. ResultsAreTrue(s)'
  BY <1>1, <1>3, <1>11, <1>16, <1>17 DEF Known, ResultsAreTrue
<1>19. CacheIsReserved(s)'
  BY <1>1, <1>3, <1>5, <1>11 DEF Known, CacheIsReserved
<1>20. EvaluatedIsSettled(s)'
  BY <1>3, <1>5, <1>11 DEF Known, EvaluatedIsSettled, Unedited, SameView, Eligible
<1> QED BY <1>12, <1>13, <1>14, <1>15, <1>18, <1>19, <1>20 DEF Known

LEMMA SourcesTickKeepsSources ==
    ASSUME MediaInv, MediaTypes', SourcesTick, NEW s \in Sources
    PROVE  SourceInv(s)'
<1>1. MediaTypes /\ OneJobEach /\ SourceInv(s) /\ graphics = "sources"
  BY DEF MediaInv, SourcesTick
<1>2. /\ UNCHANGED <<phase, reserved, jobs, completions, rebalance, batch, results, mutex, editor, setting, shown, preference>>
      /\ graphics' = "idle" /\ ~deferred'[s] /\ ~signalled'[s]
      /\ player'[s] = IF deferred[s] THEN setting[s] ELSE player[s]
      /\ entries'[s] = IF signalled[s] /\ Accepting /\ Tracked(s) THEN Bumped(entries[s]) ELSE entries[s]
  BY DEF SourcesTick
<1>3. Elements(batch) = {} /\ Elements(results) = {} /\ OnTheWay' = OnTheWay
  <2>1. batch = <<>> /\ results = <<>>
    BY <1>1 DEF OneJobEach
  <2>2. Elements(batch) = {} /\ Elements(results) = {}
    BY <2>1 DEF Elements
  <2> QED BY <1>2, <2>2, StillOnTheWay
<1>4. entries[s] \in EntryRecords
  BY <1>1 DEF MediaTypes
<1>5. /\ entries'[s].life = entries[s].life /\ entries'[s].updates = entries[s].updates /\ entries'[s].reserved = entries[s].reserved
      /\ entries'[s].file = entries[s].file /\ entries'[s].initialized = entries[s].initialized /\ entries'[s].pending = entries[s].pending
      /\ entries'[s].waiting = entries[s].waiting
      /\ (entries'[s].fresh = entries[s].fresh /\ entries'[s].scheduled = entries[s].scheduled) \/ (~entries'[s].fresh /\ ~entries'[s].scheduled)
      /\ entries'[s].life = "new" => entries'[s] = entries[s]
  BY <1>2, <1>4 DEF Bumped, EntryRecords, Tracked
<1>6. Removed(s)' <=> Removed(s)
  BY <1>2, <1>5 DEF Removed, Tracked, Accepting
<1>7. Untouched(s)'
  BY <1>1, <1>2, <1>3, <1>5 DEF SourceInv, Untouched
<1>8. UpdateArrives(s)'
  BY <1>1, <1>2 DEF SourceInv, UpdateArrives, At
<1>9. SUFFICES ASSUME ~Removed(s) PROVE Known(s)'
  BY <1>6, <1>7, <1>8 DEF SourceInv
<1>10. Known(s) /\ Accepting /\ Tracked(s)
  BY <1>1, <1>9 DEF SourceInv, Removed
<1>11. signalled[s] => ~entries'[s].fresh /\ ~entries'[s].scheduled
  BY <1>2, <1>4, <1>10 DEF Bumped, EntryRecords
<1>12. \A v : SameView(s, v) => SameView(s, v)' \/ (~entries'[s].fresh /\ ~entries'[s].scheduled)
  BY <1>2, <1>11 DEF SameView, Eligible
<1>13. (Unedited(s)' <=> Unedited(s)) /\ (InTime(s) => InTime(s)')
  BY <1>2 DEF InTime, Unedited
<1>14. PendingIsOnTheWay(s)'
  BY <1>3, <1>5, <1>10 DEF Known, PendingIsOnTheWay
<1>15. EditorsCounted(s)'
  BY <1>2, <1>5, <1>10 DEF Known, EditorsCounted, Editing
<1>16. QueriesAreInTime(s)'
  BY <1>2, <1>3 DEF QueriesAreInTime
<1>17. SetsAreDue(s)'
  BY <1>2, <1>5, <1>10, <1>13 DEF Known, SetsAreDue
<1>18. \A r : QueryIsTrue(s, r) => QueryIsTrue(s, r)'
  BY <1>2, <1>5, <1>12, <1>13 DEF QueryIsTrue
<1>19. \A r : SetIsTrue(s, r, TRUE) => SetIsTrue(s, r, FALSE)'
  BY <1>2, <1>5, <1>12, <1>13 DEF SetIsTrue
<1>20. ResultsAreTrue(s)'
  BY <1>1, <1>2, <1>3, <1>10, <1>18, <1>19 DEF Known, ResultsAreTrue
<1>21. CacheIsReserved(s)'
  BY <1>2, <1>5, <1>10 DEF Known, CacheIsReserved
<1>22. EvaluatedIsSettled(s)'
  BY <1>2, <1>5, <1>10, <1>12, <1>13 DEF Known, EvaluatedIsSettled
<1> QED BY <1>14, <1>15, <1>16, <1>17, <1>20, <1>21, <1>22 DEF Known

LEMMA GraphicsKeepsSources ==
    ASSUME MediaInv, MediaTypes', Graphics, NEW s \in Sources
    PROVE  SourceInv(s)'
<1>1. MediaTypes /\ OneJobEach /\ SourceInv(s)
  BY DEF MediaInv
<1>2. CASE TickIgnored
  <2>1. UNCHANGED <<jobs, batch, results, completions, entries, phase, editor, mutex, setting, player, deferred, shown, signalled, preference, reserved, rebalance>>
        /\ graphics = "idle" /\ graphics' = "sources"
    BY <1>2 DEF TickIgnored, managerVars, obsVars
  <2>2. OnTheWay' = OnTheWay /\ (Removed(s)' <=> Removed(s)) /\ SameEntry(entries[s], entries[s]) /\ reserved' >= reserved
    BY <1>1, <2>1, StillOnTheWay DEF Removed, Tracked, Accepting, SameEntry, MediaTypes
  <2>3. Aside(s)
    BY <2>1, <2>2 DEF Aside
  <2> QED BY <1>1, <2>3, AsideKeeps
<1>3. CASE TickPosts
  <2>1. UNCHANGED <<jobs, batch, entries, phase, editor, mutex, setting, player, deferred, shown, signalled, preference, reserved, rebalance>>
        /\ graphics = "post" /\ graphics' = "sources"
    BY <1>3 DEF TickPosts, obsVars
  <2>2. Elements(completions') = Elements(completions) \cup Elements(results) /\ Elements(results') = {} /\ OnTheWay' = OnTheWay
    BY <1>1, <1>3, PostsAll
  <2>3. (Removed(s)' <=> Removed(s)) /\ SameEntry(entries[s], entries[s]) /\ reserved' >= reserved
    BY <1>1, <2>1 DEF Removed, Tracked, Accepting, SameEntry, MediaTypes
  <2>4. Aside(s)
    BY <2>1, <2>2, <2>3 DEF Aside
  <2> QED BY <1>1, <2>4, AsideKeeps
<1> QED BY <1>2, <1>3, RunKeepsSources, WriteKeepsSources, TakeKeepsSources, SourcesTickKeepsSources DEF Graphics

LEMMA WakeKeepsSources ==
    ASSUME MediaInv, MediaTypes', WorkerWakes, NEW s \in Sources
    PROVE  SourceInv(s)'
<1>1. MediaTypes /\ OneJobEach /\ SourceInv(s)
  BY DEF MediaInv
<1>2. /\ UNCHANGED <<phase, completions, batch, results, graphics, mutex, editor, setting, player, deferred, shown, signalled, preference>>
      /\ reserved' = reserved - Bytes(Reservations, Retired)
      /\ rebalance' = (rebalance \/ \E t \in Retired : entries[t].reserved # 0)
      /\ entries'[s] = IF s \in Retired THEN GoneEntry ELSE entries[s]
  BY DEF WorkerWakes, graphicsVars, obsVars
<1>3. /\ Elements(jobs') = {job \in Elements(jobs) : ~Removed(job.source)}
      /\ OnTheWay' \subseteq OnTheWay /\ (~Removed(s) => (s \in OnTheWay' <=> s \in OnTheWay))
  BY <1>1, CancelsSome
<1>4. rebalance' \/ reserved' >= reserved
  <2>1. CASE \A t \in Retired : entries[t].reserved = 0
    <3>1. \A t \in Retired : Reservations[t] = 0
      BY <2>1 DEF Reservations, Retired
    <3>2. Bytes(Reservations, Retired) = 0
      BY <3>1, BytesOfNothing
    <3> QED BY <1>1, <1>2, <3>2 DEF MediaTypes
  <2> QED BY <1>2, <2>1
<1>5. CASE s \in Retired
  <2>1. Removed(s)' /\ entries'[s].life # "new"
    BY <1>2, <1>5 DEF Removed, Tracked, GoneEntry, FreshEntry
  <2> QED BY <1>1, <1>2, <1>3, <2>1, AsideKeeps DEF Aside
<1>6. CASE s \notin Retired
  <2>1. (Removed(s)' <=> Removed(s)) /\ SameEntry(entries[s], entries[s]) /\ entries'[s] = entries[s]
    BY <1>2, <1>6 DEF Removed, Tracked, Accepting, SameEntry
  <2>2. Aside(s)
    BY <1>2, <1>3, <1>4, <2>1 DEF Aside
  <2> QED BY <1>1, <2>2, AsideKeeps
<1> QED BY <1>5, <1>6

LEMMA ScheduleKeepsSources ==
    ASSUME MediaInv, MediaTypes', Schedule, NEW s \in Sources
    PROVE  SourceInv(s)'
<1>1. MediaTypes /\ OneJobEach /\ SourceInv(s)
  BY DEF MediaInv
<1>2. \A t \in Sources : Wanted(t) => t \notin OnTheWay
  BY DEF MediaInv, SourceInv, Known, PendingIsOnTheWay, Wanted
<1>3. /\ Elements(jobs') = Elements(jobs) \cup {QueryJob(t) : t \in {u \in Sources : Wanted(u)}}
      /\ OnTheWay' = OnTheWay \cup {t \in Sources : Wanted(t)}
  BY <1>1, <1>2, AsksAgain
<1>4. /\ UNCHANGED <<phase, reserved, completions, batch, results, graphics, mutex, editor, setting, player, deferred, shown, signalled, preference>>
      /\ ~rebalance'
      /\ entries'[s] = IF Wanted(s) THEN Scheduled(entries[s]) ELSE entries[s]
  BY DEF Schedule, graphicsVars, obsVars
<1>5. entries[s] \in EntryRecords
  BY <1>1 DEF MediaTypes
<1>6. CASE ~Wanted(s)
  <2>1. (Removed(s)' <=> Removed(s)) /\ SameEntry(entries[s], entries[s]) /\ reserved' >= reserved
    BY <1>1, <1>4, <1>6 DEF Removed, Tracked, Accepting, SameEntry, MediaTypes
  <2>2. \A job \in Elements(jobs') : job.source = s => job \in Elements(jobs)
    BY <1>3, <1>6 DEF QueryJob
  <2>3. Removed(s)' \/ ~entries'[s].waiting \/ entries'[s].pending \/ ~rebalance
    BY <1>4, <1>6, <2>1 DEF Wanted
  <2>4. Aside(s)
    BY <1>3, <1>4, <1>6, <2>1, <2>2, <2>3 DEF Aside
  <2> QED BY <1>1, <2>4, AsideKeeps
<1>7. CASE Wanted(s)
  <2>1. ~Removed(s) /\ ~entries[s].pending /\ s \notin OnTheWay /\ Known(s)
    BY <1>1, <1>2, <1>7 DEF Wanted, SourceInv
  <2>2. /\ entries'[s].scheduled /\ entries'[s].fresh /\ entries'[s].pending /\ ~entries'[s].waiting
        /\ entries'[s].life = entries[s].life /\ entries'[s].updates = entries[s].updates /\ entries'[s].settle = entries[s].settle
        /\ entries'[s].reserved = entries[s].reserved /\ entries'[s].file = entries[s].file
        /\ entries'[s].initialized = entries[s].initialized
    BY <1>4, <1>5, <1>7 DEF Scheduled, EntryRecords
  <2>3. /\ \A job \in Elements(jobs') : job.source = s => job.type = "query"
        /\ \A job \in Elements(batch) : job.source # s
        /\ \A r \in Elements(results) : r.job.source # s
        /\ \A r \in Elements(completions) : r.job.source # s
    <3>1. \A job \in Elements(jobs) : job.source # s
      BY <2>1 DEF OnTheWay, Queued
    <3>2. \A job \in Elements(jobs') : job.source = s => job.type = "query"
      BY <1>3, <3>1 DEF QueryJob
    <3> QED BY <2>1, <3>2 DEF OnTheWay, Taken, Posting, Posted
  <2>4. Untouched(s)' /\ UpdateArrives(s)'
    BY <1>1, <1>4, <2>1, <2>2 DEF SourceInv, Untouched, UpdateArrives, At, Removed, Tracked
  <2>5. PendingIsOnTheWay(s)'
    BY <1>3, <1>7, <2>2 DEF PendingIsOnTheWay
  <2>6. EditorsCounted(s)'
    BY <1>4, <2>1, <2>2 DEF Known, EditorsCounted, Editing
  <2>7. QueriesAreInTime(s)'
    BY <1>4, <2>1, <2>2, <2>3 DEF Known, QueriesAreInTime, Unedited
  <2>8. SetsAreDue(s)'
    BY <1>4, <2>3 DEF SetsAreDue
  <2>9. ResultsAreTrue(s)'
    BY <1>4, <2>3 DEF ResultsAreTrue
  <2>10. CacheIsReserved(s)'
    BY <1>4, <2>1, <2>2 DEF Known, CacheIsReserved
  <2>11. EvaluatedIsSettled(s)'
    BY <2>2 DEF EvaluatedIsSettled
  <2> QED BY <2>4, <2>5, <2>6, <2>7, <2>8, <2>9, <2>10, <2>11 DEF SourceInv, Known
<1> QED BY <1>6, <1>7

LEMMA OtherKeepsSources ==
    ASSUME MediaInv, MediaTypes', (\E t \in Sources : RetryDue(t)) \/ ShutdownUnhooks \/ WorkerExits, NEW s \in Sources
    PROVE  SourceInv(s)'
<1>1. MediaTypes /\ OneJobEach /\ SourceInv(s)
  BY DEF MediaInv
<1>2. UNCHANGED <<batch, results, graphics, mutex, editor, setting, player, deferred, shown, signalled, preference, rebalance>>
  BY DEF RetryDue, ShutdownUnhooks, WorkerExits, graphicsVars, obsVars
<1>3. ASSUME NEW t \in Sources, RetryDue(t) PROVE SourceInv(s)'
  <2>1. UNCHANGED <<jobs, completions, reserved, phase>> /\ entries' = [entries EXCEPT ![t].retry = "due"] /\ entries[t].retry = "armed"
    BY <1>3 DEF RetryDue
  <2>2. OnTheWay' = OnTheWay /\ reserved' >= reserved
    BY <1>1, <1>2, <2>1, StillOnTheWay DEF MediaTypes
  <2>3. entries[s] \in EntryRecords /\ entries \in [Sources -> EntryRecords]
    BY <1>1 DEF MediaTypes
  <2>4. SameEntry(entries[s], entries'[s])
    BY <2>1, <2>3 DEF SameEntry, EntryRecords
  <2>5. entries'[s].life = "new" => entries'[s] = entries[s]
    <3>1. CASE s # t
      BY <2>1, <2>3, <3>1
    <3>2. CASE s = t
      BY <1>1, <2>1, <2>4, <3>2 DEF SourceInv, Untouched, FreshEntry, SameEntry
    <3> QED BY <3>1, <3>2
  <2>6. Removed(s)' <=> Removed(s)
    BY <2>1, <2>4 DEF Removed, Tracked, Accepting, SameEntry
  <2>7. ~entries[s].fresh /\ ~entries[s].scheduled => ~entries'[s].fresh /\ ~entries'[s].scheduled
    BY <2>3, <2>4 DEF SameEntry
  <2>8. Aside(s)
    BY <1>2, <2>1, <2>2, <2>4, <2>5, <2>6, <2>7 DEF Aside
  <2> QED BY <1>1, <2>8, AsideKeeps
<1>4. ASSUME ShutdownUnhooks PROVE SourceInv(s)'
  <2>1. UNCHANGED <<jobs, completions, reserved, entries>> /\ Removed(s)'
    BY <1>4 DEF ShutdownUnhooks, Removed, Accepting
  <2>2. OnTheWay' = OnTheWay
    BY <1>2, <2>1, StillOnTheWay
  <2>3. Aside(s)
    BY <1>2, <2>1, <2>2 DEF Aside
  <2> QED BY <1>1, <2>3, AsideKeeps
<1>5. ASSUME WorkerExits PROVE SourceInv(s)'
  <2>1. jobs' = <<>> /\ completions' = <<>> /\ entries'[s] = GoneEntry
    BY <1>5 DEF WorkerExits
  <2>2. Removed(s)' /\ entries'[s].life # "new"
    BY <2>1 DEF GoneEntry, FreshEntry, Removed, Tracked
  <2>3. Elements(jobs') = {} /\ Elements(completions') = {}
    BY <2>1 DEF Elements
  <2>4. OnTheWay' \subseteq OnTheWay
    BY <1>2, <2>3 DEF OnTheWay, Queued, Taken, Posting, Posted
  <2>5. Aside(s)
    BY <1>2, <2>2, <2>3, <2>4 DEF Aside
  <2> QED BY <1>1, <2>5, AsideKeeps
<1> QED BY <1>3, <1>4, <1>5

LEMMA CompleteKeepsSources ==
    ASSUME MediaInv, MediaTypes', Complete, NEW t \in Sources
    PROVE  SourceInv(t)'
<1>1. MediaTypes /\ OneJobEach /\ SourceInv(t) /\ reserved <= Budget
  BY DEF MediaInv, ReservationsAdd
<1> PICK result \in ResultRecords : result = Head(completions)
  <2>1. completions # <<>> /\ Distinct(completions) /\ completions \in Seq(ResultRecords)
    BY <1>1 DEF Complete, MediaTypes, OneJobEach
  <2> QED BY <2>1, Shortened
<1> DEFINE s == result.job.source
<1>2. /\ completions # <<>> /\ completions' = Tail(completions)
      /\ UNCHANGED <<phase, batch, results, graphics, mutex, editor, setting, player, deferred, shown, signalled, preference>>
      /\ \/ CompleteRemoved(s, result) \/ CompleteSet(s, result) \/ CompleteOutdated(s, result)
         \/ CompleteDisables(s, result) \/ CompleteKeeps(s, result) \/ CompleteUncached(s, result)
  BY DEF Complete, graphicsVars, obsVars
<1>3. /\ result \in ResultRecords /\ result \in Elements(completions) /\ s \in Posted
      /\ Elements(completions') = Elements(completions) \ {result}
      /\ jobs' = jobs => OnTheWay' = OnTheWay \ {s}
      /\ \A job \in JobRecords : job.source = s /\ jobs' = Append(jobs, job) =>
           Elements(jobs') = Elements(jobs) \cup {job} /\ OnTheWay' = OnTheWay
  BY <1>1, <1>2, CompletesOne
<1>4. /\ result.job \in JobRecords /\ result.file \in Files \cup {NoFile} /\ result.bytes \in Nat
      /\ result.caching \in BOOLEAN /\ result.eligible \in BOOLEAN /\ result.applied \in BOOLEAN
      /\ result.job.enable \in BOOLEAN
  BY <1>3 DEF ResultRecords, JobRecords
<1>5. s \in Sources /\ s \in OnTheWay
  BY <1>3, <1>4 DEF JobRecords, OnTheWay
<1> HIDE DEF s
<1>6. \A enable \in BOOLEAN : SetJob(s, enable, result.file) \in JobRecords /\ SetJob(s, enable, result.file).source = s
  BY <1>4, <1>5 DEF SetJob, JobRecords
<1>7. \A enable \in BOOLEAN : jobs' = Append(jobs, SetJob(s, enable, result.file)) =>
        Elements(jobs') = Elements(jobs) \cup {SetJob(s, enable, result.file)} /\ OnTheWay' = OnTheWay
  BY <1>3, <1>6 DEF s
<1>8. entries[s] \in EntryRecords /\ entries[t] \in EntryRecords /\ reserved \in Int /\ entries[s].reserved \in Nat
      /\ entries \in [Sources -> EntryRecords]
  <2>1. entries[s] \in EntryRecords /\ entries[t] \in EntryRecords /\ reserved \in Int /\ entries \in [Sources -> EntryRecords]
    BY <1>1, <1>5 DEF MediaTypes
  <2> QED BY <2>1 DEF EntryRecords
<1>9. /\ \A u \in Sources : u # s => entries'[u] = entries[u]
      /\ \/ jobs' = jobs
         \/ \E enable \in BOOLEAN : jobs' = Append(jobs, SetJob(s, enable, result.file))
      /\ (rebalance => rebalance') /\ (rebalance' \/ reserved' >= reserved)
  <2>1. ASSUME ReleaseBudget(s) PROVE (rebalance => rebalance') /\ (rebalance' \/ reserved' >= reserved)
    <3>1. reserved' = reserved - entries[s].reserved /\ rebalance' = (rebalance \/ entries[s].reserved # 0)
      BY <2>1 DEF ReleaseBudget
    <3>2. CASE entries[s].reserved = 0
      <4>1. reserved' >= reserved
        BY <1>8, <3>1, <3>2
      <4> QED BY <3>1, <4>1
    <3>3. CASE entries[s].reserved # 0
      BY <3>1, <3>3
    <3> QED BY <3>2, <3>3
  <2>2. UNCHANGED <<reserved, rebalance>> => (rebalance => rebalance') /\ (rebalance' \/ reserved' >= reserved)
    BY <1>8
  <2>3. CASE CompleteRemoved(s, result)
    BY <1>8, <2>2, <2>3 DEF CompleteRemoved
  <2>4. CASE CompleteSet(s, result)
    BY <1>8, <2>1, <2>2, <2>4 DEF CompleteSet
  <2>5. CASE CompleteOutdated(s, result)
    BY <1>8, <2>2, <2>5 DEF CompleteOutdated
  <2>6. CASE CompleteDisables(s, result)
    BY <1>8, <2>2, <2>6 DEF CompleteDisables
  <2>7. CASE CompleteKeeps(s, result)
    BY <1>8, <2>2, <2>7 DEF CompleteKeeps
  <2>8. CASE CompleteUncached(s, result)
    <3>1. \A u \in Sources : u # s => entries'[u] = entries[u]
      BY <1>8, <2>8 DEF CompleteUncached
    <3>2. jobs' = jobs \/ \E enable \in BOOLEAN : jobs' = Append(jobs, SetJob(s, enable, result.file))
      BY <2>8 DEF CompleteUncached
    <3>3. ReleaseBudget(s) \/ (reserved' = reserved - entries[s].reserved + result.bytes /\ rebalance' = (rebalance \/ entries[s].reserved # 0))
      BY <2>8 DEF CompleteUncached
    <3>4. ASSUME reserved' = reserved - entries[s].reserved + result.bytes, rebalance' = (rebalance \/ entries[s].reserved # 0)
          PROVE  (rebalance => rebalance') /\ (rebalance' \/ reserved' >= reserved)
      <4>1. CASE entries[s].reserved = 0
        <5>1. reserved' >= reserved
          BY <1>4, <1>8, <3>4, <4>1
        <5> QED BY <3>4, <5>1
      <4>2. CASE entries[s].reserved # 0
        BY <3>4, <4>2
      <4> QED BY <4>1, <4>2
    <3> QED BY <2>1, <3>1, <3>2, <3>3, <3>4
  <2> QED BY <1>2, <2>3, <2>4, <2>5, <2>6, <2>7, <2>8 DEF s
<1>10. CASE t # s
  <2>1. entries'[t] = entries[t] /\ SameEntry(entries[t], entries[t])
    BY <1>9, <1>10 DEF SameEntry
  <2>2. Removed(t)' <=> Removed(t)
    BY <1>2, <2>1 DEF Removed, Tracked, Accepting
  <2>3. (t \in OnTheWay' <=> t \in OnTheWay) /\ \A job \in Elements(jobs') : job.source = t => job \in Elements(jobs)
    BY <1>3, <1>6, <1>7, <1>9, <1>10 DEF s
  <2>4. Aside(t)
    BY <1>2, <1>3, <1>9, <2>1, <2>2, <2>3 DEF Aside
  <2> QED BY <1>1, <2>4, AsideKeeps
<1> SUFFICES ASSUME t = s PROVE SourceInv(s)'
  BY <1>10
<1>11. SourceInv(s)
  BY <1>1
<1>12. /\ \A job \in Elements(jobs) : job.source # s
       /\ \A job \in Elements(batch) : job.source # s
       /\ \A r \in Elements(results) : r.job.source # s
       /\ \A r \in Elements(completions') : r.job.source # s
  <2>1. s \notin Queued /\ s \notin Taken /\ s \notin Posting
    BY <1>1, <1>3 DEF OneJobEach, s
  <2>2. \A r \in Elements(completions') : r.job.source # s
    BY <1>1, <1>3 DEF OneJobEach, OneResultOfEach, s
  <2> QED BY <2>1, <2>2 DEF Queued, Taken, Posting
<1>13. entries[s].life # "new"
  BY <1>5, <1>11 DEF SourceInv, Untouched
<1>14. UpdateArrives(s)'
  BY <1>2, <1>11 DEF SourceInv, UpdateArrives, At
<1>15. ASSUME CompleteRemoved(s, result) PROVE SourceInv(s)'
  <2>1. entries'[s].life = entries[s].life /\ Removed(s)
    BY <1>5, <1>8, <1>15 DEF CompleteRemoved, EntryRecords
  <2>2. Removed(s)' /\ Untouched(s)'
    BY <1>2, <1>13, <2>1 DEF Removed, Tracked, Accepting, Untouched
  <2> QED BY <1>14, <2>2 DEF SourceInv
\* What all other ways to complete a job have in common.
<1>16. ASSUME ~Removed(s),
              entries'[s].life = entries[s].life, entries'[s].updates = entries[s].updates, entries'[s].settle = entries[s].settle,
              entries'[s].pending <=> s \in OnTheWay',
              entries'[s].pending => (entries'[s].scheduled <=> entries'[s].fresh),
              entries'[s].waiting => ~entries'[s].pending,
              SetsAreDue(s)', CacheIsReserved(s)', EvaluatedIsSettled(s)'
       PROVE  SourceInv(s)'
  <2>1. Known(s)
    BY <1>11, <1>16 DEF SourceInv
  <2>2. Untouched(s)'
    BY <1>13, <1>16 DEF Untouched
  <2>3. PendingIsOnTheWay(s)'
    BY <1>16 DEF PendingIsOnTheWay
  <2>4. EditorsCounted(s)'
    BY <1>2, <1>16, <2>1 DEF Known, EditorsCounted, Editing
  <2>5. QueriesAreInTime(s)'
    BY <1>2, <1>12, <1>16, <2>1 DEF Known, QueriesAreInTime, Unedited
  <2>6. ResultsAreTrue(s)'
    BY <1>2, <1>12 DEF ResultsAreTrue
  <2> QED BY <1>14, <1>16, <2>2, <2>3, <2>4, <2>5, <2>6 DEF SourceInv, Known
<1>17. ~Removed(s) => /\ Known(s) /\ entries[s].pending /\ (entries[s].scheduled <=> entries[s].fresh) /\ ~entries[s].waiting
                      /\ QueryIsTrue(s, result) /\ SetIsTrue(s, result, graphics = "sources")
  BY <1>3, <1>5, <1>11 DEF SourceInv, Known, PendingIsOnTheWay, ResultsAreTrue, s
<1>18. jobs' = jobs => s \notin OnTheWay' /\ SetsAreDue(s)'
  BY <1>2, <1>3, <1>12 DEF SetsAreDue, s
<1>19. setting[s] \in PlayerRecords /\ player[s] \in PlayerRecords /\ Size(setting[s].file) \in Nat \ {0}
  BY <1>1, <1>5, MediaCacheAssumption DEF MediaTypes, PlayerRecords
<1>20. (Unedited(s)' <=> Unedited(s)) /\ \A v : SameView(s, v)' <=> SameView(s, v)
  BY <1>2 DEF Unedited, SameView, Eligible
<1>21. ASSUME CompleteSet(s, result) PROVE SourceInv(s)'
  <2>1. ~Removed(s) /\ result.job.type = "set" /\ jobs' = jobs
    BY <1>21 DEF CompleteSet
  <2>2. /\ entries'[s].life = entries[s].life /\ entries'[s].updates = entries[s].updates /\ entries'[s].settle = entries[s].settle
        /\ ~entries'[s].pending /\ entries'[s].waiting = entries[s].waiting /\ entries'[s].file = entries[s].file
        /\ entries'[s].scheduled <=> entries[s].scheduled /\ result.applied /\ result.job.enable
        /\ entries'[s].initialized <=> entries[s].initialized \/ result.applied
        /\ entries'[s].reserved = IF result.job.enable # result.applied THEN 0 ELSE entries[s].reserved
    BY <1>4, <1>5, <1>8, <1>21 DEF CompleteSet, EntryRecords
  <2>3. /\ Known(s) /\ entries[s].pending /\ (entries[s].scheduled <=> entries[s].fresh) /\ ~entries[s].waiting
        /\ SetIsTrue(s, result, graphics = "sources")
    BY <1>17, <2>1
  <2>4. CacheIsReserved(s)'
    BY <1>2, <1>4, <2>1, <2>2, <2>3 DEF Known, CacheIsReserved, SetIsTrue
  <2>5. EvaluatedIsSettled(s)'
    BY <1>2, <1>4, <1>19, <1>20, <2>1, <2>2, <2>3 DEF EvaluatedIsSettled, SetIsTrue
  <2> QED BY <1>16, <1>18, <2>1, <2>2, <2>4, <2>5
<1>22. ASSUME CompleteOutdated(s, result) PROVE SourceInv(s)'
  <2>1. ~Removed(s) /\ jobs' = jobs
    BY <1>22 DEF CompleteOutdated
  <2>2. /\ entries'[s].life = entries[s].life /\ entries'[s].updates = entries[s].updates /\ entries'[s].settle = entries[s].settle
        /\ ~entries'[s].pending /\ ~entries'[s].scheduled /\ entries'[s].file = entries[s].file
        /\ entries'[s].initialized = entries[s].initialized /\ entries'[s].reserved = entries[s].reserved
    BY <1>5, <1>8, <1>22 DEF CompleteOutdated, EntryRecords
  <2>3. CacheIsReserved(s)'
    BY <1>2, <1>17, <2>1, <2>2 DEF Known, CacheIsReserved
  <2>4. EvaluatedIsSettled(s)'
    BY <2>2 DEF EvaluatedIsSettled
  <2> QED BY <1>16, <1>18, <2>1, <2>2, <2>3, <2>4
<1>23. ~Removed(s) /\ result.job.type = "query" /\ ~Outdated(s, result) =>
         /\ entries[s].fresh /\ entries[s].scheduled /\ InTime(s)
         /\ result.file = setting[s].file /\ result.caching = setting[s].caching
         /\ result.bytes \in {0, Size(setting[s].file)} /\ SameView(s, result.eligible)
  BY <1>17 DEF Outdated, QueryIsTrue
<1>24. ASSUME CompleteDisables(s, result) PROVE SourceInv(s)'
  <2>1. ~Removed(s) /\ result.job.type = "query" /\ ~Outdated(s, result) /\ result.caching
        /\ jobs' = Append(jobs, SetJob(s, FALSE, result.file)) /\ entries' = [entries EXCEPT ![s].file = result.file]
    BY <1>24 DEF CompleteDisables, MustDisable
  <2>2. /\ entries'[s].life = entries[s].life /\ entries'[s].updates = entries[s].updates /\ entries'[s].settle = entries[s].settle
        /\ entries'[s].pending = entries[s].pending /\ entries'[s].scheduled = entries[s].scheduled
        /\ entries'[s].fresh = entries[s].fresh /\ entries'[s].waiting = entries[s].waiting
        /\ entries'[s].file = result.file
        /\ entries'[s].initialized = entries[s].initialized /\ entries'[s].reserved = entries[s].reserved
    BY <1>5, <1>8, <2>1 DEF EntryRecords
  <2>3. Elements(jobs') = Elements(jobs) \cup {SetJob(s, FALSE, result.file)} /\ OnTheWay' = OnTheWay
    BY <1>7, <2>1
  <2>4. SetsAreDue(s)'
    <3>1. SetJob(s, FALSE, result.file).file = result.file /\ ~SetJob(s, FALSE, result.file).enable
      BY DEF SetJob
    <3>2. \A job \in Elements(jobs') \cup Elements(batch') : job.source = s => job = SetJob(s, FALSE, result.file)
      BY <1>2, <1>12, <2>3
    <3> QED BY <1>2, <1>20, <1>23, <2>1, <3>1, <3>2 DEF SetsAreDue, InTime
  <2>5. CacheIsReserved(s)'
    BY <1>2, <1>17, <1>23, <2>1, <2>2 DEF Known, CacheIsReserved
  <2>6. EvaluatedIsSettled(s)'
    BY <1>17, <2>1, <2>2 DEF EvaluatedIsSettled
  <2> QED BY <1>5, <1>16, <1>17, <2>1, <2>2, <2>3, <2>4, <2>5, <2>6
<1>25. ASSUME CompleteKeeps(s, result) PROVE SourceInv(s)'
  <2>1. ~Removed(s) /\ result.job.type = "query" /\ ~Outdated(s, result) /\ result.caching /\ jobs' = jobs
        /\ entries[s].initialized /\ entries[s].file = result.file /\ result.eligible /\ entries[s].reserved # 0
    BY <1>4, <1>25 DEF CompleteKeeps, MustDisable
  <2>2. /\ entries'[s].life = entries[s].life /\ entries'[s].updates = entries[s].updates /\ entries'[s].settle = entries[s].settle
        /\ ~entries'[s].pending /\ entries'[s].scheduled = entries[s].scheduled
        /\ entries'[s].waiting = entries[s].waiting /\ entries'[s].file = entries[s].file
        /\ entries'[s].initialized /\ entries'[s].reserved = entries[s].reserved
    BY <1>5, <1>8, <1>25 DEF CompleteKeeps, EntryRecords
  <2>3. CacheIsReserved(s)'
    BY <1>2, <1>17, <2>1, <2>2 DEF Known, CacheIsReserved
  <2>4. setting[s].caching /\ entries[s].reserved = Size(setting[s].file) /\ SameView(s, TRUE) /\ Unedited(s)
    <3>1. setting[s].caching /\ Unedited(s) /\ SameView(s, result.eligible)
      BY <1>23, <2>1 DEF InTime
    <3>2. result.eligible = TRUE
      BY <1>4, <2>1
    <3>3. SameView(s, TRUE)
      BY <3>1, <3>2
    <3> QED BY <1>17, <2>1, <3>1, <3>3 DEF Known, CacheIsReserved
  <2>5. EvaluatedIsSettled(s)'
    BY <1>2, <1>17, <1>20, <2>1, <2>2, <2>4 DEF EvaluatedIsSettled
  <2> QED BY <1>16, <1>18, <1>17, <2>1, <2>2, <2>3, <2>5
<1>26. ASSUME CompleteUncached(s, result) PROVE SourceInv(s)'
  <2> DEFINE others == reserved - entries[s].reserved
             released == Evaluated(s, result)
             Retries(e) == [e EXCEPT !.retries = @ + 1,
                                     !.retry = IF e.retries + 1 < MaxPolls THEN "armed" ELSE @]
             retried == Retries(released)
             waits == [released EXCEPT !.waiting = TRUE]
             reserving == [released EXCEPT !.pending = TRUE, !.reserved = result.bytes]
  <2>1. ~Removed(s) /\ result.job.type = "query" /\ ~Outdated(s, result) /\ ~result.caching
    BY <1>26 DEF CompleteUncached
  <2>2. \/ jobs' = jobs /\ entries' = [entries EXCEPT ![s] = released]
        \/ jobs' = jobs /\ entries' = [entries EXCEPT ![s] = retried]
        \/ /\ ReleaseBudget(s) /\ jobs' = jobs /\ entries' = [entries EXCEPT ![s] = waits]
           /\ result.bytes > Budget - others
        \/ /\ result.bytes \in 1..(Budget - others)
           /\ entries' = [entries EXCEPT ![s] = reserving] /\ jobs' = Append(jobs, SetJob(s, TRUE, result.file))
    BY <1>26 DEF CompleteUncached
  <2>3. /\ released.life = entries[s].life /\ released.updates = entries[s].updates /\ released.settle = entries[s].settle
        /\ ~released.pending /\ released.scheduled = entries[s].scheduled /\ released.fresh = entries[s].fresh
        /\ released.waiting = entries[s].waiting /\ released.file = result.file /\ released.initialized
        /\ released.reserved = 0 /\ released \in EntryRecords
    BY <1>4, <1>8 DEF Evaluated, EntryRecords
  <2> HIDE DEF released
  <2>4. /\ entries[s].fresh /\ entries[s].scheduled /\ ~entries[s].waiting /\ Unedited(s) /\ setting[s] = player[s]
        /\ ~setting[s].caching /\ ~player[s].caching /\ result.file = setting[s].file
        /\ result.bytes \in {0, Size(setting[s].file)}
    BY <1>17, <1>23, <2>1 DEF InTime
  <2>5. ASSUME entries' = [entries EXCEPT ![s] = released] \/ entries' = [entries EXCEPT ![s] = retried], jobs' = jobs
        PROVE  SourceInv(s)'
    <3>1. /\ entries'[s].life = entries[s].life /\ entries'[s].updates = entries[s].updates /\ entries'[s].settle = entries[s].settle
          /\ ~entries'[s].pending /\ ~entries'[s].waiting /\ entries'[s].initialized /\ entries'[s].reserved = 0
      <4>1. /\ retried.life = released.life /\ retried.updates = released.updates /\ retried.settle = released.settle
            /\ retried.pending = released.pending /\ retried.waiting = released.waiting
            /\ retried.initialized = released.initialized /\ retried.reserved = released.reserved
        BY <2>3 DEF EntryRecords
      <4> HIDE DEF retried
      <4>2. entries'[s] = released \/ entries'[s] = retried
        BY <1>5, <1>8, <2>5
      <4> QED BY <2>3, <2>4, <4>1, <4>2
    <3>2. CacheIsReserved(s)'
      BY <1>2, <2>4, <3>1 DEF CacheIsReserved
    <3>3. EvaluatedIsSettled(s)'
      BY <1>2, <1>20, <2>4, <3>1 DEF EvaluatedIsSettled
    <3> QED BY <1>16, <1>18, <2>1, <2>5, <3>1, <3>2, <3>3
  <2>6. ASSUME ReleaseBudget(s), jobs' = jobs, entries' = [entries EXCEPT ![s] = waits], result.bytes > Budget - others
        PROVE  SourceInv(s)'
    <3>1. /\ entries'[s].life = entries[s].life /\ entries'[s].updates = entries[s].updates /\ entries'[s].settle = entries[s].settle
          /\ ~entries'[s].pending /\ entries'[s].initialized /\ entries'[s].reserved = 0
      <4>1. /\ waits.life = released.life /\ waits.updates = released.updates /\ waits.settle = released.settle
            /\ waits.pending = released.pending
            /\ waits.initialized = released.initialized /\ waits.reserved = released.reserved
        BY <2>3 DEF EntryRecords
      <4> HIDE DEF waits
      <4>2. entries'[s] = waits
        BY <1>5, <1>8, <2>6
      <4> QED BY <2>3, <4>1, <4>2
    <3>2. CacheIsReserved(s)'
      BY <1>2, <2>4, <3>1 DEF CacheIsReserved
    <3>3. Size(setting[s].file) > Budget - reserved'
      <4>1. reserved' = others /\ others <= Budget /\ Budget \in Nat /\ others \in Int
        BY <1>1, <1>8, <2>6, MediaCacheAssumption DEF ReleaseBudget
      <4> HIDE DEF others
      <4>2. result.bytes # 0
        BY <2>6, <4>1
      <4> QED BY <2>4, <2>6, <4>1, <4>2
    <3>4. EvaluatedIsSettled(s)'
      BY <1>2, <1>20, <2>4, <3>1, <3>3 DEF EvaluatedIsSettled
    <3> QED BY <1>16, <1>18, <2>1, <2>6, <3>1, <3>2, <3>4
  <2>7. ASSUME result.bytes \in 1..(Budget - others),
               entries' = [entries EXCEPT ![s] = reserving], jobs' = Append(jobs, SetJob(s, TRUE, result.file))
        PROVE  SourceInv(s)'
    <3>1. result.bytes = Size(setting[s].file)
      BY <2>4, <2>7
    <3>2. /\ entries'[s].life = entries[s].life /\ entries'[s].updates = entries[s].updates /\ entries'[s].settle = entries[s].settle
          /\ entries'[s].pending /\ ~entries'[s].waiting /\ entries'[s].initialized /\ entries'[s].reserved = Size(setting[s].file)
          /\ entries'[s].file = setting[s].file /\ entries'[s].scheduled /\ entries'[s].fresh
      <4>1. /\ reserving.life = released.life /\ reserving.updates = released.updates /\ reserving.settle = released.settle
            /\ reserving.pending /\ reserving.waiting = released.waiting /\ reserving.file = released.file
            /\ reserving.initialized = released.initialized /\ reserving.reserved = result.bytes
            /\ reserving.scheduled = released.scheduled /\ reserving.fresh = released.fresh
        BY <2>3 DEF EntryRecords
      <4> HIDE DEF reserving
      <4>2. entries'[s] = reserving
        BY <1>5, <1>8, <2>7
      <4> QED BY <2>3, <2>4, <3>1, <4>1, <4>2
    <3>3. Elements(jobs') = Elements(jobs) \cup {SetJob(s, TRUE, result.file)} /\ OnTheWay' = OnTheWay
      BY <1>7, <2>7
    <3>4. SetsAreDue(s)'
      <4>1. SetJob(s, TRUE, result.file).file = setting[s].file /\ SetJob(s, TRUE, result.file).enable
        BY <2>4 DEF SetJob
      <4>2. \A job \in Elements(jobs') \cup Elements(batch') : job.source = s => job = SetJob(s, TRUE, result.file)
        BY <1>2, <1>12, <3>3
      <4>3. setting[s].file \in Files
        BY <1>19 DEF PlayerRecords
      <4> QED BY <1>2, <1>20, <2>4, <3>2, <4>1, <4>2, <4>3 DEF SetsAreDue
    <3>5. CacheIsReserved(s)'
      BY <1>2, <2>4, <3>2 DEF CacheIsReserved
    <3>6. EvaluatedIsSettled(s)'
      BY <3>2 DEF EvaluatedIsSettled
    <3> QED BY <1>5, <1>16, <2>1, <3>2, <3>3, <3>4, <3>5, <3>6
  <2> QED BY <2>2, <2>5, <2>6, <2>7
<1> QED BY <1>2, <1>15, <1>21, <1>22, <1>24, <1>25, <1>26 DEF s

-----------------------------------------------------------------------------
(* What the actions leave as it was *)

LEMMA BumpedIs ==
    ASSUME NEW e \in EntryRecords
    PROVE  /\ Bumped(e) \in EntryRecords /\ Bumped(e).fresh = FALSE /\ Bumped(e).scheduled = FALSE
           /\ Bumped(e).life = e.life /\ Bumped(e).reserved = e.reserved
<1>1. Bumped(e) \in EntryRecords
  BY BumpedType
<1>2. DOMAIN e = {"life", "updates", "settle", "fresh", "scheduled", "reserved", "file", "retries", "retry", "initialized",
                  "pending", "waiting"}
  BY DEF EntryRecords
<1>3. Bumped(e).life = e.life /\ Bumped(e).reserved = e.reserved
  BY <1>2 DEF Bumped
<1>4. Bumped(e).fresh = FALSE /\ Bumped(e).scheduled = FALSE
  BY <1>2 DEF Bumped
<1> QED BY <1>1, <1>3, <1>4

LEMMA PhaseGoesOn ==
    ASSUME Next
    PROVE  phase' = "running" => phase = "running"
<1>1. CASE External
  BY <1>1 DEF External, Register, Unregister, ShowInMainView, ShowInDisplay, ChangePreference, ShutdownCloses, managerVars
<1>2. ASSUME NEW e \in Editors, NEW s \in Sources, Edit(e, s) PROVE phase' = phase
  BY <1>2 DEF Edit, Track, TrackLocks, TrackInactive, TrackBegins, ClearCaching, EditSettings, UpdateSource, FinishUpdate, managerVars
<1>3. CASE Graphics
  BY <1>3 DEF Graphics, TickTakes, TickIgnored, QueryStale, QueryMedia, SetStale, SetValidated, WriteCaching, TickPosts, SourcesTick, managerVars
<1>4. CASE WorkerStep
  BY <1>4 DEF WorkerStep, WorkerWakes, Complete, Schedule
<1>5. CASE (\E s \in Sources : RetryDue(s)) \/ ShutdownUnhooks \/ WorkerExits
  BY <1>5 DEF RetryDue, ShutdownUnhooks, WorkerExits
<1> QED BY <1>1, <1>2, <1>3, <1>4, <1>5 DEF Next

LEMMA PlayersStay ==
    ASSUME Next, ~SourcesTick
    PROVE  player' = player
<1>1. CASE External
  BY <1>1 DEF External, Register, Unregister, ShowInMainView, ShowInDisplay, ChangePreference, ShutdownCloses, obsVars
<1>2. ASSUME NEW e \in Editors, NEW s \in Sources, Edit(e, s) PROVE player' = player
  BY <1>2 DEF Edit, Track, TrackLocks, TrackInactive, TrackBegins, ClearCaching, EditSettings, UpdateSource, FinishUpdate, obsVars
<1>3. CASE Graphics
  BY <1>3 DEF Graphics, TickTakes, TickIgnored, QueryStale, QueryMedia, SetStale, SetValidated, WriteCaching, TickPosts, obsVars
<1>4. CASE WorkerStep
  BY <1>4 DEF WorkerStep, WorkerWakes, Complete, Schedule, obsVars
<1>5. CASE (\E s \in Sources : RetryDue(s)) \/ ShutdownUnhooks \/ WorkerExits
  BY <1>5 DEF RetryDue, ShutdownUnhooks, WorkerExits, obsVars
<1> QED BY <1>1, <1>2, <1>3, <1>4, <1>5 DEF Next

LEMMA CompletesNoOther ==
    ASSUME MediaTypes, Complete, NEW s \in Sources, s # Head(completions).job.source
    PROVE  entries'[s] = entries[s]
<1> DEFINE r == Head(completions)
           t == r.job.source
<1>1. \A e : entries' = [entries EXCEPT ![t] = e] => entries'[s] = entries[s]
  BY DEF MediaTypes
<1>2. CASE CompleteRemoved(t, r)
  BY <1>2 DEF CompleteRemoved, MediaTypes
<1>3. CASE CompleteSet(t, r)
  BY <1>1, <1>3 DEF CompleteSet
<1>4. CASE CompleteOutdated(t, r)
  BY <1>4 DEF CompleteOutdated, MediaTypes
<1>5. CASE CompleteDisables(t, r)
  BY <1>5 DEF CompleteDisables, MediaTypes
<1>6. CASE CompleteKeeps(t, r)
  BY <1>6 DEF CompleteKeeps, MediaTypes
<1>7. CASE CompleteUncached(t, r)
  BY <1>1, <1>7 DEF CompleteUncached
<1> QED BY <1>2, <1>3, <1>4, <1>5, <1>6, <1>7 DEF Complete

LEMMA WaysAreKept ==
    ASSUME MediaInv, Next
    PROVE  MediaTypes' /\ OneJobEach'
<1>1. MediaTypes /\ OneJobEach
  BY DEF MediaInv
<1>2. ASSUME UNCHANGED <<jobs, batch, results, completions>>,
             graphics' \in {"run", "write"} <=> graphics \in {"run", "write"},
             graphics' \in {"idle", "sources"} => graphics \in {"idle", "sources"}
      PROVE  OneJobEach'
  BY <1>1, <1>2 DEF OneJobEach, Queued, Taken, Posting, Posted
<1>3. CASE External
  <2>1. UNCHANGED <<jobs, batch, results, completions, graphics>>
    BY <1>3 DEF External, Register, Unregister, ShowInMainView, ShowInDisplay, ChangePreference, ShutdownCloses,
                graphicsVars, managerVars
  <2> QED BY <1>1, <1>2, <1>3, <2>1, ExternalTypes
<1>4. ASSUME NEW e \in Editors, NEW s \in Sources, Edit(e, s) PROVE MediaTypes' /\ OneJobEach'
  <2>1. UNCHANGED <<jobs, batch, results, completions, graphics>>
    BY <1>4 DEF Edit, Track, TrackLocks, TrackInactive, TrackBegins, ClearCaching, EditSettings, UpdateSource, FinishUpdate,
                graphicsVars, managerVars
  <2> QED BY <1>1, <1>2, <1>4, <2>1, EditTypes
<1>5. ASSUME graphics \in {"run", "write"}
      PROVE  batch # <<>> /\ Job \in JobRecords /\ Job = Head(batch)
  BY <1>1, <1>5, Shortened DEF OneJobEach, MediaTypes, Job
<1>6. CASE Graphics
  <2>1. MediaTypes'
    BY <1>1, <1>6, GraphicsTypes
  <2>2. CASE TickTakes
    BY <1>1, <2>1, <2>2, TakesSome
  <2>3. CASE TickIgnored
    BY <1>2, <2>1, <2>3 DEF TickIgnored, managerVars
  <2>4. CASE QueryStale \/ SetStale
    <3>1. graphics = "run" /\ Finish(Unrun(Job)) /\ UNCHANGED <<jobs, completions>>
      BY <2>4 DEF QueryStale, SetStale, managerVars
    <3>2. Unrun(Job) \in ResultRecords /\ Unrun(Job).job = Head(batch)
      BY <1>1, <1>5, <3>1, SnapshotTypes
    <3> QED BY <1>1, <1>5, <2>1, <3>1, <3>2, RunKeepsWays
  <2>5. CASE QueryMedia
    <3>1. graphics = "run" /\ UNCHANGED <<jobs, completions>>
      BY <2>5 DEF QueryMedia, managerVars
    <3>2. PICK bytes \in {0, Size(player[Job.source].file)} : Finish([Snapshot(Job.source, Unrun(Job)) EXCEPT !.bytes = bytes])
      BY <2>5 DEF QueryMedia
    <3> DEFINE snapshot == Snapshot(Job.source, Unrun(Job))
    <3>3. snapshot \in ResultRecords /\ snapshot.job = Head(batch) /\ bytes \in Nat
      BY <1>1, <1>5, <3>1, SnapshotTypes, MediaCacheAssumption DEF MediaTypes, PlayerRecords, JobRecords
    <3>4. Finish([snapshot EXCEPT !.bytes = bytes])
      BY <3>2
    <3> HIDE DEF snapshot
    <3>5. [snapshot EXCEPT !.bytes = bytes] \in ResultRecords /\ [snapshot EXCEPT !.bytes = bytes].job = Head(batch)
      BY <3>3 DEF ResultRecords
    <3> QED BY <1>1, <1>5, <2>1, <3>1, <3>4, <3>5, RunKeepsWays
  <2>6. CASE SetValidated
    <3> DEFINE snapshot == Snapshot(Job.source, Unrun(Job))
               applies == MayApply(Job, snapshot)
    <3>1. graphics = "run" /\ UNCHANGED <<jobs, completions>>
          /\ \/ graphics' = "write" /\ UNCHANGED <<batch, results>>
             \/ Finish([snapshot EXCEPT !.applied = applies])
      BY <2>6 DEF SetValidated, managerVars
    <3>2. snapshot \in ResultRecords /\ snapshot.job = Head(batch) /\ applies \in BOOLEAN
      BY <1>1, <1>5, <3>1, SnapshotTypes DEF MayApply
    <3> HIDE DEF snapshot, applies
    <3>3. [snapshot EXCEPT !.applied = applies] \in ResultRecords /\ [snapshot EXCEPT !.applied = applies].job = Head(batch)
      BY <3>2 DEF ResultRecords
    <3>4. CASE graphics' = "write" /\ UNCHANGED <<batch, results>>
      BY <1>2, <2>1, <3>1, <3>4
    <3>5. CASE Finish([snapshot EXCEPT !.applied = applies])
      BY <1>1, <1>5, <2>1, <3>1, <3>3, <3>5, RunKeepsWays
    <3> QED BY <3>1, <3>4, <3>5
  <2>7. CASE WriteCaching
    <3> DEFINE r == [Unrun(Job) EXCEPT !.valid = TRUE, !.applied = TRUE]
    <3>1. graphics = "write" /\ UNCHANGED <<jobs, completions>> /\ Finish(r)
      BY <2>7 DEF WriteCaching, managerVars
    <3>2. r \in ResultRecords /\ r.job = Head(batch)
      BY <1>5, <3>1 DEF Unrun, ResultRecords
    <3> HIDE DEF r
    <3> QED BY <1>1, <1>5, <2>1, <3>1, <3>2, RunKeepsWays
  <2>8. CASE TickPosts
    BY <1>1, <2>1, <2>8, PostsAll
  <2>9. CASE SourcesTick
    BY <1>2, <2>1, <2>9 DEF SourcesTick
  <2> QED BY <1>6, <2>2, <2>3, <2>4, <2>5, <2>6, <2>7, <2>8, <2>9 DEF Graphics
<1>7. CASE (\E s \in Sources : RetryDue(s)) \/ ShutdownUnhooks
  <2>1. UNCHANGED <<jobs, batch, results, completions, graphics>>
    BY <1>7 DEF RetryDue, ShutdownUnhooks, graphicsVars
  <2> QED BY <1>1, <1>2, <1>7, <2>1, OtherTypes
<1>8. CASE WorkerExits
  <2>1. jobs' = <<>> /\ completions' = <<>> /\ UNCHANGED <<batch, results, graphics>>
    BY <1>8 DEF WorkerExits, graphicsVars
  <2>2. Elements(jobs') = {} /\ Elements(completions') = {} /\ Distinct(jobs') /\ Distinct(completions')
    BY <2>1 DEF Elements, Distinct
  <2>3. Queued' = {} /\ Posted' = {} /\ Taken' = Taken /\ Posting' = Posting
    BY <2>1, <2>2 DEF Queued, Posted, Taken, Posting
  <2>4. OneOfEach(Elements(jobs')) /\ OneResultOfEach(Elements(completions'))
    BY <2>2 DEF OneOfEach, OneResultOfEach
  <2>5. OneJobEach'
    BY <1>1, <2>1, <2>2, <2>3, <2>4 DEF OneJobEach
  <2> QED BY <1>1, <1>8, <2>5, OtherTypes
<1>9. CASE WorkerStep
  <2>1. CASE WorkerWakes
    BY <1>1, <2>1, CancelsSome, WorkerTypes
  <2>2. CASE Complete
    BY <1>1, <2>2, CompletedTypes
  <2>3. CASE Schedule
    <3>1. \A s \in Sources : Wanted(s) => s \notin OnTheWay
      BY DEF MediaInv, SourceInv, Known, PendingIsOnTheWay, Wanted
    <3> QED BY <1>1, <2>3, <3>1, AsksAgain, ScheduleTypes
  <2> QED BY <1>9, <2>1, <2>2, <2>3 DEF WorkerStep
<1> QED BY <1>3, <1>4, <1>6, <1>7, <1>8, <1>9 DEF Next

LEMMA SourcesAreKept ==
    ASSUME MediaInv, Next, NEW s \in Sources
    PROVE  SourceInv(s)'
<1>1. MediaTypes'
  BY WaysAreKept
<1> QED BY <1>1, ExternalKeepsSources, EditKeepsSources, GraphicsKeepsSources, WakeKeepsSources, CompleteKeepsSources,
           ScheduleKeepsSources, OtherKeepsSources DEF Next, WorkerStep

\* A source that is removed for the manager stays so, and Register, the only
\* way in, finds it untouched.
LEMMA RemovedStays ==
    ASSUME MediaInv, Next, NEW s \in Sources, Removed(s)
    PROVE  Removed(s)' \/ Register(s)
<1>1. MediaTypes /\ entries[s] \in EntryRecords /\ entries \in [Sources -> EntryRecords]
  BY DEF MediaInv, MediaTypes
<1>2. Bumped(entries[s]).life = entries[s].life
  BY <1>1, BumpedIs
<1>3. phase' = "running" => phase = "running"
  BY PhaseGoesOn
<1>4. SUFFICES ASSUME ~Register(s) PROVE entries'[s].life = "tracked" => entries[s].life = "tracked"
  BY <1>3 DEF Removed, Tracked, Accepting
<1>5. CASE External
  <2>1. ASSUME NEW t \in Sources, Register(t) PROVE entries'[s] = entries[s]
    BY <1>1, <1>4, <2>1 DEF Register
  <2>2. ASSUME NEW t \in Sources, Unregister(t) PROVE entries'[s] = entries[s] \/ entries'[s].life = "retired"
    <3>1. Bumped(entries[t]) \in EntryRecords
      BY <1>1, BumpedType
    <3> QED BY <1>1, <2>2, <3>1 DEF Unregister, EntryRecords
  <2>3. ASSUME ChangePreference PROVE entries'[s] = entries[s] \/ entries'[s] = Bumped(entries[s])
    BY <2>3 DEF ChangePreference
  <2>4. ASSUME (\E t \in Sources : ShowInMainView(t) \/ ShowInDisplay(t)) \/ ShutdownCloses PROVE entries' = entries
    BY <2>4 DEF ShowInMainView, ShowInDisplay, ShutdownCloses, managerVars
  <2> QED BY <1>2, <1>5, <2>1, <2>2, <2>3, <2>4 DEF External
<1>6. ASSUME NEW e \in Editors, NEW t \in Sources, Edit(e, t) PROVE entries'[s].life = entries[s].life
  <2>1. CASE TrackBegins(e, t)
    <3>1. Bumped(entries[t]).life = entries[t].life /\ Bumped(entries[t]) \in EntryRecords
      BY <1>1, BumpedIs
    <3> QED BY <1>1, <2>1, <3>1 DEF TrackBegins, EntryRecords
  <2>2. CASE FinishUpdate(e, t)
    <3>1. Bumped(entries[t]).life = entries[t].life /\ Bumped(entries[t]) \in EntryRecords
      BY <1>1, BumpedIs
    <3> QED BY <1>1, <2>2, <3>1 DEF FinishUpdate, EntryRecords
  <2>3. CASE entries' = entries
    BY <2>3
  <2> QED BY <1>6, <2>1, <2>2, <2>3 DEF Edit, Track, TrackLocks, TrackInactive, ClearCaching, EditSettings, UpdateSource, managerVars
<1>7. CASE Graphics
  <2>1. CASE TickTakes
    BY <1>1, <2>1 DEF TickTakes, EntryRecords
  <2>2. CASE SourcesTick
    BY <1>2, <2>2 DEF SourcesTick
  <2>3. CASE entries' = entries
    BY <2>3
  <2> QED BY <1>7, <2>1, <2>2, <2>3 DEF Graphics, TickIgnored, QueryStale, QueryMedia, SetStale, SetValidated, WriteCaching, TickPosts, managerVars
<1>8. CASE \E t \in Sources : RetryDue(t)
  BY <1>1, <1>8 DEF RetryDue, EntryRecords
<1>9. CASE ShutdownUnhooks
  BY <1>9 DEF ShutdownUnhooks
<1>10. CASE WorkerExits
  BY <1>10 DEF WorkerExits, GoneEntry, FreshEntry
<1>11. CASE WorkerWakes
  BY <1>11 DEF WorkerWakes, GoneEntry, FreshEntry
<1>12. CASE Schedule
  <2>1. Scheduled(entries[s]).life = entries[s].life
    BY <1>1 DEF Scheduled, EntryRecords
  <2> QED BY <1>12, <2>1 DEF Schedule
<1>13. CASE Complete
  <2>1. PICK r \in ResultRecords : r = Head(completions)
    <3>1. completions # <<>> /\ Distinct(completions) /\ completions \in Seq(ResultRecords)
      BY <1>1, <1>13 DEF Complete, MediaTypes, OneJobEach, MediaInv
    <3> QED BY <3>1, Shortened
  <2>2. r.job.source \in Sources
    BY DEF ResultRecords, JobRecords
  <2> DEFINE t == r.job.source
  <2>3. CASE t # s
    BY <1>1, <1>13, <2>1, <2>3, CompletesNoOther
  <2>4. CASE t = s
    <3>1. CASE CompleteUncached(s, r)
      <4>1. Evaluated(s, r).life = entries[s].life /\ Evaluated(s, r) \in EntryRecords
        BY <1>1 DEF Evaluated, EntryRecords, ResultRecords
      <4> DEFINE released == Evaluated(s, r)
                 Retries(e) == [e EXCEPT !.retries = @ + 1, !.retry = IF e.retries + 1 < MaxPolls THEN "armed" ELSE @]
                 retried == Retries(released)
      <4>2. \/ entries' = [entries EXCEPT ![s] = released] \/ entries' = [entries EXCEPT ![s] = retried]
            \/ entries' = [entries EXCEPT ![s] = [released EXCEPT !.waiting = TRUE]]
            \/ entries' = [entries EXCEPT ![s] = [released EXCEPT !.pending = TRUE, !.reserved = r.bytes]]
        BY <3>1 DEF CompleteUncached
      <4> HIDE DEF released
      <4>3. retried.life = released.life /\ [released EXCEPT !.waiting = TRUE].life = released.life
            /\ [released EXCEPT !.pending = TRUE, !.reserved = r.bytes].life = released.life
        BY <4>1 DEF EntryRecords, released
      <4> HIDE DEF retried
      <4> QED BY <1>1, <4>1, <4>2, <4>3 DEF released
    <3>2. CASE CompleteSet(s, r)
      BY <1>1, <3>2 DEF CompleteSet, EntryRecords
    <3>3. CASE CompleteRemoved(s, r) \/ CompleteOutdated(s, r) \/ CompleteDisables(s, r) \/ CompleteKeeps(s, r)
      BY <1>1, <3>3 DEF CompleteRemoved, CompleteOutdated, CompleteDisables, CompleteKeeps, EntryRecords
    <3> QED BY <1>13, <2>1, <2>4, <3>1, <3>2, <3>3 DEF Complete
  <2> QED BY <2>3, <2>4
<1> QED BY <1>5, <1>6, <1>7, <1>8, <1>9, <1>10, <1>11, <1>12, <1>13 DEF Next, WorkerStep

-----------------------------------------------------------------------------
(* Nobody is forgotten *)

LEMMA NobodyIsForgotten ==
    ASSUME MediaInv, Next
    PROVE  NobodyForgotten'
<1>1. MediaTypes /\ NobodyForgotten /\ entries \in [Sources -> EntryRecords]
  BY DEF MediaInv, MediaTypes
<1>2. \A s \in Sources : entries[s] \in EntryRecords
  BY <1>1
<1>3. ASSUME worker' = "waiting" => worker = "waiting" /\ rebalance' = rebalance,
             \/ notified'
             \/ /\ notified => notified'
                /\ \A s \in Sources : \/ Removed(s)'
                                      \/ /\ ~Removed(s)
                                         /\ entries'[s].pending = entries[s].pending
                                         /\ entries'[s].scheduled = entries[s].scheduled
      PROVE  NobodyForgotten'
  BY <1>1, <1>3 DEF NobodyForgotten
<1>4. CASE External
  <2>1. worker' = worker /\ rebalance' = rebalance
    BY <1>4 DEF External, Register, Unregister, ShowInMainView, ShowInDisplay, ChangePreference, ShutdownCloses, managerVars
  <2>2. CASE \E s \in Sources : Register(s) \/ Unregister(s)
    <3>1. notified'
      BY <2>2 DEF Register, Unregister
    <3> QED BY <1>3, <2>1, <3>1
  <2>3. CASE (\E s \in Sources : ShowInMainView(s) \/ ShowInDisplay(s)) \/ ShutdownCloses
    <3>1. entries' = entries /\ notified' = notified /\ (phase' = phase \/ phase' = "closing")
      BY <2>3 DEF ShowInMainView, ShowInDisplay, ShutdownCloses, managerVars
    <3>2. \A s \in Sources : Removed(s)' \/ ~Removed(s) \/ Removed(s)
      OBVIOUS
    <3>3. NobodyForgotten'
      BY <1>1, <2>1, <3>1 DEF NobodyForgotten, Removed, Tracked, Accepting
    <3> QED BY <3>3
  <2>4. CASE ChangePreference
    <3>1. CASE Accepting
      <4>1. notified'
        BY <2>4, <3>1 DEF ChangePreference
      <4> QED BY <1>3, <2>1, <4>1
    <3>2. CASE ~Accepting
      <4>1. phase' = phase /\ notified' = notified
        BY <1>1, <2>4, <3>2 DEF ChangePreference, MediaTypes
      <4>2. \A s \in Sources : Removed(s)'
        BY <3>2, <4>1 DEF Removed, Accepting
      <4> QED BY <1>3, <2>1, <4>1, <4>2
    <3> QED BY <3>1, <3>2
  <2> QED BY <1>4, <2>2, <2>3, <2>4 DEF External
<1>5. ASSUME NEW e \in Editors, NEW s \in Sources, Edit(e, s) PROVE NobodyForgotten'
  <2>1. worker' = worker /\ rebalance' = rebalance /\ phase' = phase
    BY <1>5 DEF Edit, Track, TrackLocks, TrackInactive, TrackBegins, ClearCaching, EditSettings, UpdateSource, FinishUpdate,
                managerVars
  <2>2. notified' \/ (entries' = entries /\ notified' = notified)
    BY <1>1, <1>5 DEF Edit, Track, TrackLocks, TrackInactive, TrackBegins, ClearCaching, EditSettings, UpdateSource, FinishUpdate,
                managerVars, MediaTypes
  <2> QED BY <1>1, <2>1, <2>2 DEF NobodyForgotten, Removed, Tracked, Accepting
<1>6. CASE Graphics
  <2>1. worker' = worker /\ rebalance' = rebalance /\ phase' = phase
    BY <1>6 DEF Graphics, TickTakes, TickIgnored, QueryStale, QueryMedia, SetStale, SetValidated, WriteCaching, TickPosts, SourcesTick,
                managerVars
  <2>2. CASE TickTakes
    <3>1. \A s \in Sources : entries'[s].life = entries[s].life /\ entries'[s].pending = entries[s].pending
                             /\ entries'[s].scheduled = entries[s].scheduled
      BY <1>2, <2>2 DEF TickTakes, EntryRecords
    <3>2. notified' = notified
      BY <2>2 DEF TickTakes
    <3> QED BY <1>1, <2>1, <3>1, <3>2 DEF NobodyForgotten, Removed, Tracked, Accepting
  <2>3. CASE SourcesTick
    <3>1. notified' \/ (notified' = notified /\ \A s \in Sources : entries'[s] = entries[s])
      BY <1>1, <2>3 DEF SourcesTick, MediaTypes
    <3> QED BY <1>1, <2>1, <3>1 DEF NobodyForgotten, Removed, Tracked, Accepting
  <2>4. CASE TickPosts
    BY <1>3, <2>1, <2>4 DEF TickPosts
  <2>5. CASE entries' = entries /\ notified' = notified
    BY <1>1, <2>1, <2>5 DEF NobodyForgotten, Removed, Tracked, Accepting
  <2> QED BY <1>6, <2>2, <2>3, <2>4, <2>5
          DEF Graphics, TickIgnored, QueryStale, QueryMedia, SetStale, SetValidated, WriteCaching, managerVars
<1>7. ASSUME NEW t \in Sources, RetryDue(t) PROVE NobodyForgotten'
  <2>1. \A s \in Sources : entries'[s].life = entries[s].life /\ entries'[s].pending = entries[s].pending
                           /\ entries'[s].scheduled = entries[s].scheduled
    BY <1>1, <1>2, <1>7 DEF RetryDue, EntryRecords
  <2>2. UNCHANGED <<worker, rebalance, phase, notified>>
    BY <1>7 DEF RetryDue
  <2> QED BY <1>1, <2>1, <2>2 DEF NobodyForgotten, Removed, Tracked, Accepting
<1>8. CASE WorkerStep
  <2>1. CASE Schedule
    <3>1. \A s \in Sources : entries'[s] = IF Wanted(s) THEN Scheduled(entries[s]) ELSE entries[s]
      BY <2>1 DEF Schedule
    <3>2. \A s \in Sources : Scheduled(entries[s]).pending
      BY <1>2 DEF Scheduled, EntryRecords
    <3>3. \A s \in Sources : Wanted(s) \/ Removed(s) \/ entries[s].pending \/ entries[s].scheduled
      BY DEF Wanted
    <3>4. ~rebalance' /\ phase' = phase
      BY <2>1 DEF Schedule
    <3> QED BY <3>1, <3>2, <3>3, <3>4 DEF NobodyForgotten, Removed, Tracked, Accepting
  <2>2. CASE WorkerWakes \/ Complete
    BY <2>2 DEF WorkerWakes, Complete, NobodyForgotten
  <2> QED BY <1>8, <2>1, <2>2 DEF WorkerStep
<1>9. CASE ShutdownUnhooks \/ WorkerExits
  <2>1. phase' # "running" /\ worker' = worker /\ rebalance' = rebalance
    BY <1>9 DEF ShutdownUnhooks, WorkerExits
  <2> QED BY <1>1, <2>1 DEF NobodyForgotten, Removed, Accepting
<1> QED BY <1>4, <1>5, <1>6, <1>7, <1>8, <1>9 DEF Next

-----------------------------------------------------------------------------
(* The editors and the locks *)

LEMMA EditorsKeepOrder ==
    ASSUME MediaInv, Next
    PROVE  EditorsInOrder'
<1> DEFINE Out(x) == entries'[x].life # "tracked" \/ phase' # "running"
<1>1. MediaTypes /\ MediaTypes' /\ EditorsInOrder /\ OneJobEach
  BY WaysAreKept DEF MediaInv
<1>2. /\ editor \in [Editors -> EditRecords] /\ mutex \in [Sources -> Editors \cup {"graphics", NoOne}]
      /\ "graphics" \notin Editors /\ NoOne \notin Editors /\ NoOne # "graphics"
  BY <1>1, MediaCacheAssumption DEF MediaTypes, NoOne
<1>3. \A f \in Editors : editor[f] \in EditRecords
  BY <1>2
<1>4. ASSUME NEW x \in Sources, Removed(x), entries[x].life # "new" PROVE Out(x)
  BY <1>4, RemovedStays DEF Register, Removed, Tracked, Accepting
<1>5. ASSUME NEW f \in Editors, editor[f].pc # "none"
      PROVE  editor[f].source \in Sources /\ entries[editor[f].source].life # "new"
  <2>1. editor[f].source \in Sources
    BY <1>1, <1>5 DEF EditorsInOrder
  <2>2. Untouched(editor[f].source)
    BY <2>1 DEF MediaInv, SourceInv
  <2> QED BY <1>5, <2>1, <2>2 DEF Untouched
<1>6. \A f \in Editors : editor[f].pc \in {"write", "update"} => editor[f].active \/ Out(editor[f].source)
  <2>1. SUFFICES ASSUME NEW f \in Editors, editor[f].pc \in {"write", "update"}
                 PROVE  editor[f].active \/ Out(editor[f].source)
    OBVIOUS
  <2>2. editor[f].source \in Sources /\ entries[editor[f].source].life # "new"
    BY <1>5, <2>1
  <2> QED BY <1>1, <1>4, <2>1, <2>2 DEF EditorsInOrder
<1>7. ASSUME UNCHANGED <<editor, mutex>>, graphics' = "write" => graphics = "write" /\ batch' = batch
      PROVE  EditorsInOrder'
  BY <1>1, <1>6, <1>7 DEF EditorsInOrder, Removed, Tracked, Accepting
<1>8. CASE External \/ (\E s \in Sources : RetryDue(s)) \/ WorkerStep \/ ShutdownUnhooks \/ WorkerExits
  <2>1. UNCHANGED <<editor, mutex, graphics, batch>>
    BY <1>8 DEF External, Register, Unregister, ShowInMainView, ShowInDisplay, ChangePreference, ShutdownCloses, graphicsVars,
                RetryDue, WorkerStep, WorkerWakes, Complete, Schedule, ShutdownUnhooks, WorkerExits
  <2> QED BY <1>7, <2>1
<1>9. ASSUME NEW e \in Editors, NEW s \in Sources, Edit(e, s) PROVE EditorsInOrder'
  <2>1. UNCHANGED <<graphics, batch>>
    BY <1>9 DEF Edit, Track, TrackLocks, TrackInactive, TrackBegins, ClearCaching, EditSettings, UpdateSource, FinishUpdate,
                graphicsVars
  <2>2. ASSUME \A f \in Editors : f # e => editor'[f] = editor[f],
               /\ editor'[e].pc = "none" <=> editor'[e] = NoEdit
               /\ editor'[e].pc # "none" => editor'[e].source \in Sources
               /\ editor'[e].pc \in {"lock", "begin"} => ~editor'[e].active
               /\ editor'[e].pc \in {"clear", "finish"} => editor'[e].active
               /\ editor'[e].pc \in {"write", "update"} => editor'[e].active \/ Out(editor'[e].source)
               /\ editor'[e].pc \in {"begin", "clear"} => mutex'[editor'[e].source] = e,
               \/ mutex' = mutex
               \/ mutex[s] \in {e, NoOne} /\ \A x \in Sources : x # s => mutex'[x] = mutex[x]
        PROVE  EditorsInOrder'
    <3>1. ASSUME NEW f \in Editors, f # e, editor[f].pc \in {"begin", "clear"} PROVE mutex'[editor[f].source] = f
      <4>1. mutex[editor[f].source] = f /\ editor[f].source \in Sources /\ f # NoOne
        BY <1>1, <1>2, <3>1 DEF EditorsInOrder
      <4> QED BY <2>2, <3>1, <4>1
    <3>2. graphics' = "write" => mutex'[Head(batch').source] = "graphics"
      <4>1. ASSUME graphics = "write" PROVE Head(batch).source \in Sources /\ mutex[Head(batch).source] = "graphics"
        <5>1. Head(batch) \in JobRecords
          BY <1>1, <4>1, Shortened DEF OneJobEach, MediaTypes
        <5> QED BY <1>1, <4>1, <5>1 DEF EditorsInOrder, JobRecords
      <4> QED BY <1>2, <2>1, <2>2, <4>1
    <3>3. \A f \in Editors : f # e =>
            /\ editor[f].pc = "none" <=> editor[f] = NoEdit
            /\ editor[f].pc # "none" => editor[f].source \in Sources
            /\ editor[f].pc \in {"lock", "begin"} => ~editor[f].active
            /\ editor[f].pc \in {"clear", "finish"} => editor[f].active
            /\ editor[f].pc \in {"write", "update"} => editor[f].active \/ Out(editor[f].source)
            /\ editor[f].pc \in {"begin", "clear"} => mutex'[editor[f].source] = f
      BY <1>1, <1>6, <3>1 DEF EditorsInOrder
    <3>4. \A f \in Editors :
            /\ editor'[f].pc = "none" <=> editor'[f] = NoEdit
            /\ editor'[f].pc # "none" => editor'[f].source \in Sources
            /\ editor'[f].pc \in {"lock", "begin"} => ~editor'[f].active
            /\ editor'[f].pc \in {"clear", "finish"} => editor'[f].active
            /\ editor'[f].pc \in {"write", "update"} => editor'[f].active \/ Out(editor'[f].source)
            /\ editor'[f].pc \in {"begin", "clear"} => mutex'[editor'[f].source] = f
      BY <2>2, <3>3
    <3> QED BY <3>2, <3>4 DEF EditorsInOrder, Removed, Tracked, Accepting
  <2>3. editor[e].pc = "none" <=> editor[e] = NoEdit
    BY <1>1 DEF EditorsInOrder
  <2>4. NoEdit.pc = "none"
    BY DEF NoEdit
  <2>5. CASE Track(e, s)
    <3>1. /\ editor' = [editor EXCEPT ![e] = [pc |-> IF Accepting /\ Tracked(s) THEN "lock" ELSE "write",
                                             source |-> s, active |-> FALSE]]
          /\ mutex' = mutex /\ entries[s].life # "new"
      BY <2>5 DEF Track
    <3>2. /\ editor'[e].source = s /\ editor'[e].active = FALSE
          /\ editor'[e].pc = IF Accepting /\ Tracked(s) THEN "lock" ELSE "write"
      BY <1>2, <3>1
    <3>3. editor'[e].pc = "write" => Out(s)
      BY <1>4, <3>1, <3>2 DEF Removed
    <3>4. \A f \in Editors : f # e => editor'[f] = editor[f]
      BY <1>2, <3>1
    <3> QED BY <2>2, <2>4, <3>1, <3>2, <3>3, <3>4
  <2>6. CASE ~Track(e, s)
    <3>1. editor[e].source = s /\ editor[e].pc # "none"
      BY <1>9, <2>6 DEF Edit, TrackLocks, TrackInactive, TrackBegins, ClearCaching, EditSettings, UpdateSource, FinishUpdate, At
    <3>2. Removed(s) => Out(s)
      BY <1>4, <1>5, <3>1
    <3>3. /\ editor[e].pc \in {"lock", "begin"} => ~editor[e].active
          /\ editor[e].pc \in {"clear", "finish"} => editor[e].active
          /\ editor[e].pc \in {"write", "update"} => editor[e].active \/ Removed(s)
          /\ editor[e].pc \in {"begin", "clear"} => mutex[s] = e
      BY <1>1, <3>1 DEF EditorsInOrder
    <3>4. ASSUME NEW pc \in {"begin", "clear", "write", "update", "finish"}, NEW active \in BOOLEAN,
                 editor' = [editor EXCEPT ![e].pc = pc, ![e].active = active],
                 pc = "begin" => ~active, pc \in {"clear", "finish"} => active,
                 pc \in {"write", "update"} => active \/ Out(s),
                 pc \in {"begin", "clear"} => mutex'[s] = e,
                 \/ mutex' = mutex
                 \/ mutex[s] \in {e, NoOne} /\ \A x \in Sources : x # s => mutex'[x] = mutex[x]
          PROVE  EditorsInOrder'
      <4>1. editor'[e].pc = pc /\ editor'[e].active = active /\ editor'[e].source = s
        BY <1>2, <1>3, <3>1, <3>4 DEF EditRecords
      <4>2. \A f \in Editors : f # e => editor'[f] = editor[f]
        BY <1>2, <3>4
      <4>3. editor'[e] # NoEdit
        BY <2>4, <4>1
      <4> QED BY <2>2, <3>4, <4>1, <4>2, <4>3
    <3>5. \A pc : [editor EXCEPT ![e].pc = pc] = [editor EXCEPT ![e].pc = pc, ![e].active = editor[e].active]
      BY <1>2, <1>3 DEF EditRecords
    <3>6. editor[e].active \in BOOLEAN
      BY <1>3 DEF EditRecords
    <3>7. CASE TrackLocks(e, s)
      <4>1. editor' = [editor EXCEPT ![e].pc = "begin"] /\ mutex' = [mutex EXCEPT ![s] = e] /\ mutex[s] = NoOne /\ ~editor[e].active
        BY <3>3, <3>7 DEF TrackLocks, Goto, At
      <4>2. editor' = [editor EXCEPT ![e].pc = "begin", ![e].active = editor[e].active] /\ mutex'[s] = e
            /\ \A x \in Sources : x # s => mutex'[x] = mutex[x]
        BY <1>2, <3>5, <4>1
      <4> QED BY <3>4, <3>6, <4>1, <4>2
    <3>8. CASE TrackInactive(e, s)
      <4>1. editor' = [editor EXCEPT ![e].pc = "write"] /\ mutex' = [mutex EXCEPT ![s] = NoOne] /\ mutex[s] = e /\ Removed(s)
        BY <3>3, <3>8 DEF TrackInactive, Goto, At
      <4>2. editor' = [editor EXCEPT ![e].pc = "write", ![e].active = editor[e].active]
            /\ \A x \in Sources : x # s => mutex'[x] = mutex[x]
        BY <1>2, <3>5, <4>1
      <4> QED BY <3>2, <3>4, <3>6, <4>1, <4>2
    <3>9. CASE TrackBegins(e, s)
      <4>1. editor' = [editor EXCEPT ![e].pc = "clear", ![e].active = TRUE] /\ mutex' = mutex /\ mutex[s] = e
        BY <3>3, <3>9 DEF TrackBegins, At
      <4> QED BY <3>4, <4>1
    <3>10. CASE ClearCaching(e, s)
      <4>1. editor' = [editor EXCEPT ![e].pc = "write"] /\ mutex' = [mutex EXCEPT ![s] = NoOne] /\ mutex[s] = e /\ editor[e].active
        BY <3>3, <3>10 DEF ClearCaching, Goto, At
      <4>2. editor' = [editor EXCEPT ![e].pc = "write", ![e].active = editor[e].active]
            /\ \A x \in Sources : x # s => mutex'[x] = mutex[x]
        BY <1>2, <3>5, <4>1
      <4> QED BY <3>4, <3>6, <4>1, <4>2
    <3>11. CASE EditSettings(e, s)
      <4>1. editor' = [editor EXCEPT ![e].pc = "update"] /\ mutex' = mutex /\ (editor[e].active \/ Removed(s))
        BY <3>3, <3>11 DEF EditSettings, Goto, At
      <4>2. editor' = [editor EXCEPT ![e].pc = "update", ![e].active = editor[e].active]
        BY <3>5, <4>1
      <4> QED BY <3>2, <3>4, <3>6, <4>1, <4>2
    <3>12. ASSUME editor' = [editor EXCEPT ![e] = NoEdit], mutex' = mutex PROVE EditorsInOrder'
      <4>1. editor'[e] = NoEdit /\ \A f \in Editors : f # e => editor'[f] = editor[f]
        BY <1>2, <3>12
      <4> QED BY <2>2, <2>4, <3>12, <4>1
    <3>13. CASE UpdateSource(e, s)
      <4>1. mutex' = mutex
        BY <3>13 DEF UpdateSource
      <4>2. CASE editor[e].active
        <5>1. editor' = [editor EXCEPT ![e].pc = "finish"]
          BY <1>2, <1>3, <3>13, <4>2 DEF UpdateSource, EditRecords
        <5>2. editor' = [editor EXCEPT ![e].pc = "finish", ![e].active = editor[e].active]
          BY <3>5, <5>1
        <5> QED BY <3>4, <3>6, <4>1, <4>2, <5>2
      <4>3. CASE ~editor[e].active
        <5>1. editor' = [editor EXCEPT ![e] = NoEdit]
          BY <1>2, <3>13, <4>3 DEF UpdateSource
        <5> QED BY <3>12, <4>1, <5>1
      <4> QED BY <4>2, <4>3
    <3>14. CASE FinishUpdate(e, s)
      BY <3>12, <3>14 DEF FinishUpdate
    <3> QED BY <1>9, <2>6, <3>7, <3>8, <3>9, <3>10, <3>11, <3>13, <3>14 DEF Edit
  <2> QED BY <2>5, <2>6
<1>10. CASE Graphics
  <2>1. editor' = editor
    BY <1>10 DEF Graphics, TickTakes, TickIgnored, QueryStale, QueryMedia, SetStale, SetValidated, WriteCaching, TickPosts, SourcesTick
  <2>2. \A r : Finish(r) => graphics' # "write"
    BY DEF Finish
  <2>3. CASE SetValidated \/ WriteCaching
    <3> DEFINE j == Head(batch).source
    <3>1. Head(batch) \in JobRecords /\ j \in Sources /\ Job = Head(batch)
      <4>1. batch # <<>>
        BY <1>1, <2>3 DEF OneJobEach, SetValidated, WriteCaching
      <4>2. Head(batch) \in JobRecords
        BY <1>1, <4>1, Shortened DEF OneJobEach, MediaTypes
      <4> QED BY <4>2 DEF JobRecords, Job
    <3>2. mutex[j] \in {NoOne, "graphics"} /\ \A x \in Sources : x # j => mutex'[x] = mutex[x]
      BY <1>1, <1>2, <2>3, <3>1 DEF SetValidated, WriteCaching, EditorsInOrder
    <3>3. graphics' = "write" => mutex'[Head(batch').source] = "graphics"
      BY <1>2, <2>2, <2>3, <3>1 DEF SetValidated, WriteCaching
    <3>4. ASSUME NEW f \in Editors, editor[f].pc \in {"begin", "clear"} PROVE mutex'[editor[f].source] = f
      <4>1. mutex[editor[f].source] = f /\ editor[f].source \in Sources /\ f # NoOne /\ f # "graphics"
        BY <1>1, <1>2, <3>4 DEF EditorsInOrder
      <4> QED BY <3>2, <4>1
    <3> QED BY <1>1, <1>6, <2>1, <3>3, <3>4 DEF EditorsInOrder, Removed, Tracked, Accepting
  <2>4. CASE ~SetValidated /\ ~WriteCaching
    <3>1. mutex' = mutex
      BY <1>10, <2>4 DEF Graphics, TickTakes, TickIgnored, QueryStale, QueryMedia, SetStale, TickPosts, SourcesTick, obsVars
    <3>2. graphics' # "write"
      BY <1>10, <2>2, <2>4 DEF Graphics, TickTakes, TickIgnored, QueryStale, QueryMedia, SetStale, TickPosts, SourcesTick
    <3> QED BY <1>7, <2>1, <3>1, <3>2
  <2> QED BY <2>3, <2>4
<1> QED BY <1>8, <1>9, <1>10 DEF Next

-----------------------------------------------------------------------------
(* The write that is under way is of a job that still holds *)

LEMMA WriteStaysValid ==
    ASSUME MediaInv, Next
    PROVE  WriteIsValid'
<1>1. MediaTypes /\ MediaTypes' /\ EditorsInOrder /\ OneJobEach /\ WriteIsValid /\ entries \in [Sources -> EntryRecords]
  BY WaysAreKept DEF MediaInv, MediaTypes
<1>2. \A s \in Sources : entries[s] \in EntryRecords
  BY <1>1
<1>3. ASSUME graphics = "write" \/ graphics = "run"
      PROVE  batch # <<>> /\ Head(batch) \in JobRecords /\ Head(batch) \in Elements(batch)
  <2>1. batch # <<>>
    BY <1>1, <1>3 DEF OneJobEach
  <2> QED BY <1>1, <2>1, Shortened DEF OneJobEach, MediaTypes
<1>4. \A r : Finish(r) => graphics' # "write"
  BY DEF Finish
<1>5. CASE graphics = "write"
  <2>1. PICK j \in Sources : j = Head(batch).source
    BY <1>3, <1>5 DEF JobRecords
  <2>2. j \in Taken /\ j \in OnTheWay
    BY <1>3, <1>5, <2>1 DEF Taken, OnTheWay
  <2>3. /\ SourceInv(j) /\ Untouched(j) /\ entries[j].life # "new" /\ entries[j] \in EntryRecords
        /\ ~Removed(j) => entries[j].pending
    <3>1. SourceInv(j)
      BY DEF MediaInv
    <3> QED BY <1>2, <2>2, <3>1 DEF SourceInv, Untouched, Known, PendingIsOnTheWay
  <2>4. /\ Head(batch).type = "set"
        /\ ~Removed(j) =>
             /\ Unedited(j) /\ setting[j].caching # Head(batch).enable
             /\ Head(batch).enable => setting[j].file = Head(batch).file /\ (entries[j].fresh => SameView(j, TRUE))
    BY <1>1, <1>5, <2>1 DEF WriteIsValid
  <2>5. mutex[j] = "graphics" /\ "graphics" \notin Editors /\ NoOne # "graphics"
    BY <1>1, <1>5, <2>1, MediaCacheAssumption DEF EditorsInOrder, NoOne
  <2>6. ASSUME batch' = batch,
               Removed(j)' \/ (/\ ~Removed(j) /\ setting'[j] = setting[j] /\ (Unedited(j) => Unedited(j)')
                               /\ entries'[j].fresh =>
                                    /\ entries[j].fresh
                                    /\ \/ AuxViews \/ signalled'[j]
                                       \/ shown'[j] = shown[j] /\ preference' = preference /\ (signalled[j] => signalled'[j]))
        PROVE  WriteIsValid'
    <3>1. Removed(j)' \/ (/\ Unedited(j)' /\ setting'[j].caching # Head(batch).enable
                          /\ Head(batch).enable => setting'[j].file = Head(batch).file
                                                   /\ (entries'[j].fresh => SameView(j, TRUE)'))
      BY <2>4, <2>6 DEF SameView, Eligible
    <3> QED BY <2>1, <2>4, <2>6, <3>1 DEF WriteIsValid
  <2>7. CASE External
    <3>1. UNCHANGED <<batch, setting, editor>>
      BY <2>7 DEF External, Register, Unregister, ShowInMainView, ShowInDisplay, ChangePreference, ShutdownCloses,
                  graphicsVars, obsVars
    <3>2. Unedited(j) => Unedited(j)'
      BY <3>1 DEF Unedited
    <3>3. ASSUME NEW x \in Sources, Register(x) PROVE WriteIsValid'
      <4>1. x # j /\ UNCHANGED <<phase, shown, preference, signalled>> /\ entries'[j] = entries[j]
        BY <1>1, <2>3, <3>3 DEF Register, obsVars
      <4> QED BY <2>6, <3>1, <3>2, <4>1 DEF Removed, Tracked, Accepting
    <3>4. ASSUME NEW x \in Sources, Unregister(x) PROVE WriteIsValid'
      <4>1. Bumped(entries[x]) \in EntryRecords
        BY <1>2, BumpedType
      <4>2. UNCHANGED <<phase, shown, preference, signalled>> /\ (entries'[j] = entries[j] \/ entries'[j].life = "retired")
        BY <1>1, <3>4, <4>1 DEF Unregister, obsVars, EntryRecords
      <4> QED BY <2>6, <3>1, <3>2, <4>2 DEF Removed, Tracked, Accepting
    <3>5. ASSUME NEW x \in Sources, ShowInMainView(x) PROVE WriteIsValid'
      <4>1. UNCHANGED <<phase, entries, preference>>
        BY <3>5 DEF ShowInMainView, managerVars
      <4>2. signalled'[j] \/ (shown'[j] = shown[j] /\ signalled'[j] = signalled[j])
        BY <1>1, <3>5 DEF ShowInMainView, MediaTypes
      <4> QED BY <2>6, <3>1, <3>2, <4>1, <4>2 DEF Removed, Tracked, Accepting
    <3>6. ASSUME NEW x \in Sources, ShowInDisplay(x) PROVE WriteIsValid'
      <4>1. UNCHANGED <<phase, entries>> /\ AuxViews
        BY <3>6 DEF ShowInDisplay, managerVars
      <4> QED BY <2>6, <3>1, <3>2, <4>1 DEF Removed, Tracked, Accepting
    <3>7. CASE ChangePreference
      <4>1. phase' = phase /\ entries'[j] = IF Accepting /\ Tracked(j) THEN Bumped(entries[j]) ELSE entries[j]
        BY <3>7 DEF ChangePreference
      <4>2. Bumped(entries[j]).fresh = FALSE /\ Bumped(entries[j]).life = entries[j].life
        BY <2>3, BumpedIs
      <4> QED BY <2>6, <3>1, <3>2, <4>1, <4>2 DEF Removed, Tracked, Accepting
    <3>8. CASE ShutdownCloses
      BY <2>6, <3>1, <3>8 DEF ShutdownCloses, Removed, Accepting
    <3> QED BY <2>7, <3>3, <3>4, <3>5, <3>6, <3>7, <3>8 DEF External
  <2>8. ASSUME NEW e \in Editors, NEW x \in Sources, Edit(e, x) PROVE WriteIsValid'
    <3>1. UNCHANGED <<batch, phase, shown, preference, signalled>>
      BY <2>8 DEF Edit, Track, TrackLocks, TrackInactive, TrackBegins, ClearCaching, EditSettings, UpdateSource, FinishUpdate,
                  graphicsVars, managerVars, obsVars
    <3>2. /\ entries'[j].life = entries[j].life
          /\ entries'[j].fresh => entries[j].fresh
      <4>1. Bumped(entries[x]) \in EntryRecords /\ ~Bumped(entries[x]).fresh /\ Bumped(entries[x]).life = entries[x].life
        BY <1>2, BumpedIs
      <4>2. CASE TrackBegins(e, x)
        BY <1>1, <4>1, <4>2 DEF TrackBegins, EntryRecords
      <4>3. CASE FinishUpdate(e, x)
        BY <1>1, <4>1, <4>3 DEF FinishUpdate, EntryRecords
      <4>4. CASE entries' = entries
        BY <4>4
      <4> QED BY <2>8, <4>2, <4>3, <4>4
              DEF Edit, Track, TrackLocks, TrackInactive, ClearCaching, EditSettings, UpdateSource, managerVars
    <3>3. Removed(j)' <=> Removed(j)
      BY <3>1, <3>2 DEF Removed, Tracked, Accepting
    <3>4. SUFFICES ASSUME ~Removed(j) PROVE setting'[j] = setting[j] /\ Unedited(j)'
      BY <2>6, <3>1, <3>2, <3>3
    <3>5. Unedited(j)
      BY <2>4, <3>4
    <3>6. editor[e] \in EditRecords /\ setting \in [Sources -> PlayerRecords] /\ editor \in [Editors -> EditRecords]
      BY <1>1 DEF MediaTypes
    <3>7. setting'[j] = setting[j]
      <4>1. CASE ClearCaching(e, x)
        <5>1. x # j
          BY <1>1, <2>5, <4>1 DEF ClearCaching, At, EditorsInOrder
        <5> QED BY <3>6, <4>1, <5>1 DEF ClearCaching
      <4>2. CASE EditSettings(e, x)
        <5>1. x # j
          BY <1>1, <3>4, <3>5, <4>2 DEF EditSettings, At, EditorsInOrder, Unedited
        <5> QED BY <3>6, <4>2, <5>1 DEF EditSettings
      <4>3. CASE setting' = setting
        BY <4>3
      <4> QED BY <2>8, <4>1, <4>2, <4>3
              DEF Edit, Track, TrackLocks, TrackInactive, TrackBegins, UpdateSource, FinishUpdate, obsVars
    <3>8. \A f \in Editors : f # e => editor'[f] = editor[f]
      BY <2>8, <3>6 DEF Edit, Track, TrackLocks, TrackInactive, TrackBegins, ClearCaching, EditSettings, UpdateSource, FinishUpdate, Goto
    <3>9. editor'[e].source = j => ~editor'[e].active
      <4>1. CASE TrackBegins(e, x)
        <5>1. x # j /\ editor[e].source = x
          BY <1>1, <2>5, <4>1 DEF TrackBegins, At, EditorsInOrder
        <5>2. editor'[e].source = x
          BY <3>6, <4>1, <5>1 DEF TrackBegins, EditRecords
        <5> QED BY <5>1, <5>2
      <4>2. CASE Track(e, x) \/ FinishUpdate(e, x)
        <5>1. ~editor'[e].active
          BY <3>6, <4>2 DEF Track, FinishUpdate, NoEdit
        <5> QED BY <5>1
      <4>3. CASE UpdateSource(e, x)
        <5>1. ~editor'[e].active \/ (editor'[e].source = editor[e].source /\ editor'[e].active = editor[e].active)
          BY <3>6, <4>3 DEF UpdateSource, NoEdit, EditRecords
        <5> QED BY <3>5, <5>1 DEF Unedited
      <4>4. CASE TrackLocks(e, x) \/ TrackInactive(e, x) \/ ClearCaching(e, x) \/ EditSettings(e, x)
        <5>1. editor'[e].source = editor[e].source /\ editor'[e].active = editor[e].active
          BY <3>6, <4>4 DEF TrackLocks, TrackInactive, ClearCaching, EditSettings, Goto, EditRecords
        <5> QED BY <3>5, <5>1 DEF Unedited
      <4> QED BY <2>8, <4>1, <4>2, <4>3, <4>4 DEF Edit
    <3>10. Unedited(j)'
      BY <3>5, <3>8, <3>9 DEF Unedited
    <3> QED BY <3>7, <3>10
  <2>9. CASE Graphics
    <3>1. WriteCaching
      BY <1>5, <2>9 DEF Graphics, TickTakes, TickIgnored, QueryStale, QueryMedia, SetStale, SetValidated, TickPosts, SourcesTick
    <3>2. graphics' # "write"
      BY <1>4, <3>1 DEF WriteCaching
    <3> QED BY <3>2 DEF WriteIsValid
  <2>10. ASSUME NEW x \in Sources, RetryDue(x) PROVE WriteIsValid'
    <3>1. UNCHANGED <<batch, phase, setting, editor, shown, preference, signalled>>
      BY <2>10 DEF RetryDue, graphicsVars, obsVars
    <3>2. entries'[j].life = entries[j].life /\ entries'[j].fresh = entries[j].fresh
      BY <1>1, <2>3, <2>10 DEF RetryDue, EntryRecords
    <3> QED BY <2>6, <3>1, <3>2 DEF Removed, Tracked, Accepting, Unedited
  <2>11. CASE WorkerStep
    <3>1. UNCHANGED <<batch, phase, setting, editor, shown, preference, signalled>>
      BY <2>11 DEF WorkerStep, WorkerWakes, Complete, Schedule, graphicsVars, obsVars
    <3>2. CASE WorkerWakes
      <4>1. entries'[j] = entries[j] \/ entries'[j].life = "gone"
        BY <3>2 DEF WorkerWakes, GoneEntry, FreshEntry
      <4> QED BY <2>6, <3>1, <4>1 DEF Removed, Tracked, Accepting, Unedited
    <3>3. CASE Schedule
      <4>1. Removed(j) \/ entries'[j] = entries[j]
        BY <2>3, <3>3 DEF Schedule, Wanted
      <4>2. entries'[j].life = entries[j].life
        BY <2>3, <3>3 DEF Schedule, Scheduled, EntryRecords
      <4> QED BY <2>6, <3>1, <4>1, <4>2 DEF Removed, Tracked, Accepting, Unedited
    <3>4. CASE Complete
      <4>1. PICK r \in ResultRecords : r = Head(completions) /\ r.job.source \in Posted
        <5>1. completions # <<>> /\ Distinct(completions) /\ completions \in Seq(ResultRecords)
          BY <1>1, <3>4 DEF Complete, MediaTypes, OneJobEach
        <5> QED BY <5>1, Shortened DEF Posted
      <4>2. r.job.source # j /\ r.job.source \in Sources
        BY <1>1, <2>2, <4>1 DEF OneJobEach, ResultRecords, JobRecords
      <4>3. entries'[j] = entries[j]
        BY <1>1, <3>4, <4>1, <4>2, CompletesNoOther
      <4> QED BY <2>6, <3>1, <4>3 DEF Removed, Tracked, Accepting, Unedited
    <3> QED BY <2>11, <3>2, <3>3, <3>4 DEF WorkerStep
  <2>12. CASE ShutdownUnhooks \/ WorkerExits
    <3>1. batch' = batch /\ Removed(j)'
      BY <2>12 DEF ShutdownUnhooks, WorkerExits, graphicsVars, Removed, Accepting
    <3> QED BY <2>6, <3>1
  <2> QED BY <2>7, <2>8, <2>9, <2>10, <2>11, <2>12 DEF Next
<1>6. CASE graphics # "write"
  <2>1. SUFFICES ASSUME graphics' = "write" PROVE WriteIsValid'
    BY DEF WriteIsValid
  <2>2. Graphics
    <3>1. ~External
      BY <1>6, <2>1 DEF External, Register, Unregister, ShowInMainView, ShowInDisplay, ChangePreference, ShutdownCloses, graphicsVars
    <3>2. \A e \in Editors, s \in Sources : ~Edit(e, s)
      BY <1>6, <2>1 DEF Edit, Track, TrackLocks, TrackInactive, TrackBegins, ClearCaching, EditSettings, UpdateSource, FinishUpdate,
                        graphicsVars
    <3>3. ~WorkerStep /\ ~ShutdownUnhooks /\ ~WorkerExits /\ \A s \in Sources : ~RetryDue(s)
      BY <1>6, <2>1 DEF RetryDue, WorkerStep, WorkerWakes, Complete, Schedule, ShutdownUnhooks, WorkerExits, graphicsVars
    <3> QED BY <3>1, <3>2, <3>3 DEF Next
  <2>3. SetValidated
    BY <1>4, <2>1, <2>2 DEF Graphics, TickTakes, TickIgnored, QueryStale, QueryMedia, SetStale, WriteCaching, TickPosts, SourcesTick
  <2>4. graphics = "run" /\ Head(batch) \in Elements(batch) /\ Head(batch) \in JobRecords
    BY <1>3, <2>3 DEF SetValidated
  <2>5. PICK j \in Sources : j = Head(batch).source
    BY <2>4 DEF JobRecords
  <2>6. /\ Head(batch).type = "set" /\ ~Removed(j) /\ entries[j].fresh /\ batch' = batch
        /\ MayApply(Head(batch), Snapshot(j, Unrun(Head(batch)))) /\ Snapshot(j, Unrun(Head(batch))).caching # Head(batch).enable
    BY <1>4, <2>1, <2>3, <2>5 DEF SetValidated, Job, Stale
  <2>7. /\ Snapshot(j, Unrun(Head(batch))).caching = setting[j].caching /\ Snapshot(j, Unrun(Head(batch))).file = setting[j].file
        /\ Snapshot(j, Unrun(Head(batch))).eligible = Eligible(j)
    BY DEF Snapshot, Unrun
  <2>8. Unedited(j)
    <3>1. Known(j)
      BY <2>6 DEF MediaInv, SourceInv
    <3> QED BY <2>4, <2>5, <2>6, <3>1 DEF Known, SetsAreDue
  <2>9. UNCHANGED <<entries, phase, setting, editor, shown, preference, signalled>>
    BY <2>3 DEF SetValidated, managerVars, obsVars
  <2>10. /\ Unedited(j) /\ setting[j].caching # Head(batch).enable
         /\ Head(batch).enable => setting[j].file = Head(batch).file /\ SameView(j, TRUE)
    <3>1. Head(batch).enable => Eligible(j) /\ setting[j].file = Head(batch).file
      BY <2>6, <2>7 DEF MayApply
    <3> QED BY <2>6, <2>7, <2>8, <3>1 DEF SameView
  <2>11. /\ Unedited(j)' /\ setting'[j].caching # Head(batch).enable
         /\ Head(batch).enable => setting'[j].file = Head(batch).file /\ SameView(j, TRUE)'
    BY <2>9, <2>10 DEF Unedited, SameView, Eligible
  <2> QED BY <2>5, <2>6, <2>11 DEF WriteIsValid
<1> QED BY <1>5, <1>6

-----------------------------------------------------------------------------
(* The books of the budget *)

LEMMA EntriesReserve ==
    ASSUME MediaTypes
    PROVE  /\ IsFiniteSet({s \in Sources : entries[s].life # "gone"}) /\ IsFiniteSet({s \in Sources : Tracked(s)}) /\ IsFiniteSet(Retired)
           /\ \A s \in Sources : Reservations[s] = entries[s].reserved /\ Reservations[s] \in Nat
           /\ \A s \in Sources : /\ CachedSizes[s] = IF player[s].caching THEN Size(player[s].file) ELSE 0
                                 /\ CachedSizes[s] \in Nat
<1>1. \A s \in Sources : entries[s] \in EntryRecords /\ player[s] \in PlayerRecords
  BY DEF MediaTypes
<1>2. {s \in Sources : entries[s].life # "gone"} \in SUBSET Sources /\ {s \in Sources : Tracked(s)} \in SUBSET Sources
      /\ Retired \in SUBSET Sources /\ IsFiniteSet(Sources)
  BY MediaCacheAssumption DEF Retired
<1>3. \A s \in Sources : Reservations[s] = entries[s].reserved /\ Reservations[s] \in Nat
  BY <1>1 DEF Reservations, EntryRecords
<1>4. \A s \in Sources : CachedSizes[s] = IF player[s].caching THEN Size(player[s].file) ELSE 0
  BY DEF CachedSizes
<1>5. \A s \in Sources : CachedSizes[s] \in Nat
  BY <1>1, <1>4, MediaCacheAssumption DEF PlayerRecords
<1> QED BY <1>2, <1>3, <1>4, <1>5, FS_Subset

LEMMA SameBooks ==
    ASSUME MediaTypes, MediaTypes', ReservationsAdd, reserved' = reserved,
           \A s \in Sources : /\ entries'[s].reserved = entries[s].reserved
                              /\ entries'[s].life = "gone" <=> entries[s].life = "gone"
    PROVE  ReservationsAdd'
<1> DEFINE live == {s \in Sources : entries[s].life # "gone"}
<1>1. \A s \in Sources : Reservations'[s] = Reservations[s]
  BY DEF Reservations
<1>2. live' = live
  OBVIOUS
<1>3. Bytes(Reservations', live) = Bytes(Reservations, live)
  BY <1>1, BytesOfSame
<1> QED BY <1>2, <1>3 DEF ReservationsAdd, Bytes

LEMMA CompleteKeepsBooks ==
    ASSUME MediaInv, MediaTypes', Complete
    PROVE  ReservationsAdd'
<1> DEFINE live == {x \in Sources : entries[x].life # "gone"}
<1>1. MediaTypes /\ ReservationsAdd /\ OneJobEach /\ entries \in [Sources -> EntryRecords] /\ reserved \in Int /\ Budget \in Nat
  BY MediaCacheAssumption DEF MediaInv, MediaTypes
<1>2. PICK r \in ResultRecords : r = Head(completions)
  <2>1. completions # <<>> /\ Distinct(completions) /\ completions \in Seq(ResultRecords)
    BY <1>1 DEF Complete, MediaTypes, OneJobEach
  <2> QED BY <2>1, Shortened
<1>3. PICK s \in Sources : s = r.job.source
  BY DEF ResultRecords, JobRecords
<1>4. entries[s] \in EntryRecords /\ r.bytes \in Nat /\ r.applied \in BOOLEAN /\ r.job.enable \in BOOLEAN
      /\ r.file \in Files \cup {NoFile}
  BY <1>1, <1>2 DEF ResultRecords, JobRecords
<1>5. \/ CompleteRemoved(s, r) \/ CompleteSet(s, r) \/ CompleteOutdated(s, r) \/ CompleteDisables(s, r)
      \/ CompleteKeeps(s, r) \/ CompleteUncached(s, r)
  BY <1>2, <1>3 DEF Complete
<1>6. ASSUME NEW e, entries' = [entries EXCEPT ![s] = e], e.life = entries[s].life, e.reserved \in Nat, Tracked(s),
             reserved' = reserved - entries[s].reserved + e.reserved, reserved' <= Budget
      PROVE  ReservationsAdd'
  <2>1. entries'[s] = e /\ \A x \in Sources : x # s => entries'[x] = entries[x]
    BY <1>1, <1>6
  <2>2. live' = live /\ s \in live
    BY <1>6, <2>1 DEF Tracked
  <2>3. \A x \in live : Reservations[x] \in Nat /\ (x # s => Reservations'[x] = Reservations[x])
    BY <1>1, <2>1, EntriesReserve DEF Reservations
  <2>4. Reservations'[s] = e.reserved /\ Reservations[s] = entries[s].reserved
    BY <2>1 DEF Reservations
  <2>5. IsFiniteSet(live)
    BY <1>1, EntriesReserve
  <2>6. Bytes(Reservations', live) = Bytes(Reservations, live) - Reservations[s] + Reservations'[s]
    BY <1>6, <2>2, <2>3, <2>4, <2>5, BytesChange
  <2> QED BY <1>1, <1>6, <2>2, <2>4, <2>6 DEF ReservationsAdd, Bytes
<1>7. ASSUME NEW e, entries' = [entries EXCEPT ![s] = e], e.life = entries[s].life, e.reserved = entries[s].reserved,
             reserved' = reserved
      PROVE  ReservationsAdd'
  <2>1. entries'[s] = e /\ \A x \in Sources : x # s => entries'[x] = entries[x]
    BY <1>1, <1>7
  <2> QED BY <1>1, <1>7, <2>1, SameBooks
<1>8. ~Removed(s) => Tracked(s)
  BY DEF Removed
<1>9. Tracked(s) => reserved <= Budget /\ entries[s].reserved \in Nat /\ entries[s].reserved <= reserved
  <2>1. SUFFICES ASSUME Tracked(s) PROVE reserved <= Budget /\ entries[s].reserved \in Nat /\ entries[s].reserved <= reserved
    BY <1>1
  <2>2. s \in live /\ IsFiniteSet(live) /\ \A x \in live : Reservations[x] \in Nat
    BY <1>1, <2>1, EntriesReserve DEF Tracked
  <2>3. Reservations[s] <= Bytes(Reservations, live)
    BY <2>2, BytesChange
  <2> QED BY <1>1, <1>4, <2>3, EntriesReserve DEF ReservationsAdd, EntryRecords
<1>10. CASE CompleteRemoved(s, r)
  <2>1. entries' = [entries EXCEPT ![s] = [entries[s] EXCEPT !.pending = FALSE]] /\ reserved' = reserved
    BY <1>1, <1>10 DEF CompleteRemoved
  <2>2. [entries[s] EXCEPT !.pending = FALSE].life = entries[s].life
        /\ [entries[s] EXCEPT !.pending = FALSE].reserved = entries[s].reserved
    BY <1>4 DEF EntryRecords
  <2> QED BY <1>7, <2>1, <2>2
<1>11. CASE CompleteSet(s, r)
  <2> DEFINE releases == r.job.enable # r.applied
             Settled(e) == [e EXCEPT !.pending = FALSE,
                                     !.scheduled = @ /\ r.applied /\ r.job.enable,
                                     !.initialized = @ \/ r.applied]
             settled == Settled(entries[s])
             e == [settled EXCEPT !.reserved = IF releases THEN 0 ELSE @]
  <2>1. /\ entries' = [entries EXCEPT ![s] = e] /\ Tracked(s)
        /\ IF releases THEN ReleaseBudget(s) ELSE UNCHANGED <<reserved, rebalance>>
    BY <1>8, <1>11 DEF CompleteSet
  <2>2. settled.life = entries[s].life /\ settled.reserved = entries[s].reserved /\ settled \in EntryRecords
    <3>1. DOMAIN entries[s] = {"life", "updates", "settle", "fresh", "scheduled", "reserved", "file", "retries", "retry",
                               "initialized", "pending", "waiting"}
      BY <1>4 DEF EntryRecords
    <3>2. settled.life = entries[s].life /\ settled.reserved = entries[s].reserved
      BY <3>1
    <3>3. settled \in EntryRecords
      BY <1>4 DEF EntryRecords
    <3> QED BY <3>2, <3>3
  <2> HIDE DEF settled
  <2>3. e.life = entries[s].life /\ e.reserved = IF releases THEN 0 ELSE entries[s].reserved
    BY <2>2 DEF EntryRecords
  <2> HIDE DEF e
  <2>4. CASE releases
    <3>1. reserved' = reserved - entries[s].reserved /\ e.reserved = 0
      BY <2>1, <2>3, <2>4 DEF ReleaseBudget
    <3>2. reserved' = reserved - entries[s].reserved + e.reserved /\ reserved' <= Budget /\ e.reserved \in Nat
      BY <1>1, <1>9, <2>1, <3>1
    <3> QED BY <1>6, <2>1, <2>3, <3>2
  <2>5. CASE ~releases
    BY <1>7, <2>1, <2>3, <2>5
  <2> QED BY <2>4, <2>5
<1>12. CASE CompleteOutdated(s, r)
  <2> DEFINE e == [entries[s] EXCEPT !.pending = FALSE, !.scheduled = FALSE]
  <2>1. entries' = [entries EXCEPT ![s] = e] /\ reserved' = reserved
    BY <1>1, <1>4, <1>12 DEF CompleteOutdated, EntryRecords
  <2>2. e.life = entries[s].life /\ e.reserved = entries[s].reserved
    BY <1>4 DEF EntryRecords
  <2> QED BY <1>7, <2>1, <2>2
<1>13. CASE CompleteDisables(s, r)
  <2> DEFINE e == [entries[s] EXCEPT !.file = r.file]
  <2>1. entries' = [entries EXCEPT ![s] = e] /\ reserved' = reserved
    BY <1>1, <1>13 DEF CompleteDisables
  <2>2. e.life = entries[s].life /\ e.reserved = entries[s].reserved
    BY <1>4 DEF EntryRecords
  <2> QED BY <1>7, <2>1, <2>2
<1>14. CASE CompleteKeeps(s, r)
  <2> DEFINE e == [entries[s] EXCEPT !.pending = FALSE, !.initialized = TRUE]
  <2>1. entries' = [entries EXCEPT ![s] = e] /\ reserved' = reserved
    BY <1>1, <1>4, <1>14 DEF CompleteKeeps, EntryRecords
  <2>2. e.life = entries[s].life /\ e.reserved = entries[s].reserved
    BY <1>4 DEF EntryRecords
  <2> QED BY <1>7, <2>1, <2>2
<1>15. CASE CompleteUncached(s, r)
  <2> DEFINE released == Evaluated(s, r)
             Retries(e) == [e EXCEPT !.retries = @ + 1, !.retry = IF e.retries + 1 < MaxPolls THEN "armed" ELSE @]
             retried == Retries(released)
             waits == [released EXCEPT !.waiting = TRUE]
             reserves == [released EXCEPT !.pending = TRUE, !.reserved = r.bytes]
             others == reserved - entries[s].reserved
  <2>1. Tracked(s)
    BY <1>8, <1>15 DEF CompleteUncached
  <2>2. released.life = entries[s].life /\ released.reserved = 0 /\ released \in EntryRecords
    BY <1>4 DEF Evaluated, EntryRecords
  <2>3. \/ reserved' = others /\ \/ entries' = [entries EXCEPT ![s] = released] \/ entries' = [entries EXCEPT ![s] = retried]
                                 \/ entries' = [entries EXCEPT ![s] = waits]
        \/ r.bytes \in 1..(Budget - others) /\ reserved' = others + r.bytes /\ entries' = [entries EXCEPT ![s] = reserves]
    BY <1>15 DEF CompleteUncached, ReleaseBudget
  <2> HIDE DEF released
  <2>4. /\ retried.life = released.life /\ retried.reserved = released.reserved
        /\ waits.life = released.life /\ waits.reserved = released.reserved
        /\ reserves.life = released.life /\ reserves.reserved = r.bytes
    BY <2>2 DEF EntryRecords
  <2> HIDE DEF retried, waits, reserves
  <2>5. CASE reserved' = others
    <3>1. reserved' = reserved - entries[s].reserved + 0 /\ reserved' <= Budget
      BY <1>1, <1>9, <2>1, <2>5
    <3>2. \/ entries' = [entries EXCEPT ![s] = released] \/ entries' = [entries EXCEPT ![s] = retried]
          \/ entries' = [entries EXCEPT ![s] = waits]
          \/ r.bytes = 0
      BY <1>1, <1>4, <1>9, <2>1, <2>3, <2>5
    <3>3. r.bytes # 0 \/ ~(r.bytes \in 1..(Budget - others))
      BY <1>1, <1>4, <1>9, <2>1
    <3> QED BY <1>6, <2>1, <2>2, <2>3, <2>4, <3>1, <3>2, <3>3
  <2>6. CASE r.bytes \in 1..(Budget - others) /\ reserved' = others + r.bytes /\ entries' = [entries EXCEPT ![s] = reserves]
    <3>1. reserved' = reserved - entries[s].reserved + r.bytes /\ reserved' <= Budget /\ r.bytes \in Nat
      BY <1>1, <1>4, <1>9, <2>1, <2>6
    <3> QED BY <1>6, <2>1, <2>2, <2>4, <2>6, <3>1
  <2> QED BY <2>3, <2>5, <2>6
<1> QED BY <1>5, <1>10, <1>11, <1>12, <1>13, <1>14, <1>15

LEMMA BooksAreKept ==
    ASSUME MediaInv, Next
    PROVE  ReservationsAdd'
<1>1. MediaTypes /\ MediaTypes' /\ ReservationsAdd /\ OneJobEach /\ entries \in [Sources -> EntryRecords] /\ reserved \in Int
  BY WaysAreKept DEF MediaInv, MediaTypes
<1>2. \A s \in Sources : entries[s] \in EntryRecords
  BY <1>1
<1>3. \A s \in Sources : Bumped(entries[s]) \in EntryRecords /\ Bumped(entries[s]).life = entries[s].life
                         /\ Bumped(entries[s]).reserved = entries[s].reserved
  BY <1>2, BumpedIs
<1> DEFINE Same == \A s \in Sources : /\ entries'[s].reserved = entries[s].reserved
                                      /\ entries'[s].life = "gone" <=> entries[s].life = "gone"
<1>4. ASSUME reserved' = reserved, Same PROVE ReservationsAdd'
  BY <1>1, <1>4, SameBooks
<1>5. ASSUME External \/ (\E e \in Editors, s \in Sources : Edit(e, s)) \/ Graphics \/ (\E s \in Sources : RetryDue(s)) \/ ShutdownUnhooks
      PROVE  reserved' = reserved
  <2>1. CASE External
    BY <2>1 DEF External, Register, Unregister, ShowInMainView, ShowInDisplay, ChangePreference, ShutdownCloses, managerVars
  <2>2. ASSUME NEW e \in Editors, NEW s \in Sources, Edit(e, s) PROVE reserved' = reserved
    BY <2>2 DEF Edit, Track, TrackLocks, TrackInactive, TrackBegins, ClearCaching, EditSettings, UpdateSource, FinishUpdate, managerVars
  <2>3. CASE Graphics
    BY <2>3 DEF Graphics, TickTakes, TickIgnored, QueryStale, QueryMedia, SetStale, SetValidated, WriteCaching, TickPosts,
                SourcesTick, managerVars
  <2>4. CASE (\E s \in Sources : RetryDue(s)) \/ ShutdownUnhooks
    BY <2>4 DEF RetryDue, ShutdownUnhooks
  <2> QED BY <1>5, <2>1, <2>2, <2>3, <2>4
<1>6. CASE External
  <2>1. ASSUME NEW s \in Sources, Register(s) PROVE Same
    BY <1>1, <1>2, <2>1 DEF Register, EntryRecords
  <2>2. ASSUME NEW s \in Sources, Unregister(s) PROVE Same
    <3>1. entries' = [entries EXCEPT ![s] = [Bumped(entries[s]) EXCEPT !.life = "retired"]] /\ entries[s].life = "tracked"
      BY <2>2 DEF Unregister, Tracked
    <3>2. [Bumped(entries[s]) EXCEPT !.life = "retired"].reserved = entries[s].reserved
          /\ [Bumped(entries[s]) EXCEPT !.life = "retired"].life = "retired"
      BY <1>3 DEF EntryRecords
    <3> QED BY <1>1, <3>1, <3>2
  <2>3. ASSUME ChangePreference PROVE Same
    BY <1>3, <2>3 DEF ChangePreference
  <2>4. ASSUME (\E s \in Sources : ShowInMainView(s) \/ ShowInDisplay(s)) \/ ShutdownCloses PROVE Same
    BY <2>4 DEF ShowInMainView, ShowInDisplay, ShutdownCloses, managerVars
  <2>5. Same
    BY <1>6, <2>1, <2>2, <2>3, <2>4 DEF External
  <2> QED BY <1>4, <1>5, <1>6, <2>5
<1>7. ASSUME NEW e \in Editors, NEW s \in Sources, Edit(e, s) PROVE ReservationsAdd'
  <2>1. CASE TrackBegins(e, s)
    <3> DEFINE f == [Bumped(entries[s]) EXCEPT !.updates = @ + 1]
    <3>1. entries' = [entries EXCEPT ![s] = f] /\ f.reserved = entries[s].reserved /\ f.life = entries[s].life
      BY <1>3, <2>1 DEF TrackBegins, EntryRecords
    <3> HIDE DEF f
    <3>2. Same
      BY <1>1, <3>1
    <3> QED BY <1>4, <1>5, <1>7, <3>2
  <2>2. CASE FinishUpdate(e, s)
    <3> DEFINE f == [Bumped(entries[s]) EXCEPT !.updates = @ - 1, !.settle = SettleTicks]
    <3>1. (entries' = entries \/ entries' = [entries EXCEPT ![s] = f]) /\ f.reserved = entries[s].reserved /\ f.life = entries[s].life
      BY <1>3, <2>2 DEF FinishUpdate, EntryRecords
    <3> HIDE DEF f
    <3>2. Same
      BY <1>1, <3>1
    <3> QED BY <1>4, <1>5, <1>7, <3>2
  <2>3. CASE entries' = entries
    BY <1>4, <1>5, <1>7, <2>3
  <2> QED BY <1>7, <2>1, <2>2, <2>3 DEF Edit, Track, TrackLocks, TrackInactive, ClearCaching, EditSettings, UpdateSource, managerVars
<1>8. CASE Graphics
  <2>1. CASE TickTakes
    <3>1. Same
      BY <1>2, <2>1 DEF TickTakes, EntryRecords
    <3> QED BY <1>4, <1>5, <1>8, <3>1
  <2>2. CASE SourcesTick
    <3>1. Same
      BY <1>3, <2>2 DEF SourcesTick
    <3> QED BY <1>4, <1>5, <1>8, <3>1
  <2>3. CASE entries' = entries
    BY <1>4, <1>5, <1>8, <2>3
  <2> QED BY <1>8, <2>1, <2>2, <2>3 DEF Graphics, TickIgnored, QueryStale, QueryMedia, SetStale, SetValidated, WriteCaching, TickPosts, managerVars
<1>9. ASSUME NEW s \in Sources, RetryDue(s) PROVE ReservationsAdd'
  <2>1. Same
    BY <1>1, <1>2, <1>9 DEF RetryDue, EntryRecords
  <2> QED BY <1>4, <1>5, <1>9, <2>1
<1>10. CASE ShutdownUnhooks
  BY <1>4, <1>5, <1>10 DEF ShutdownUnhooks
<1>11. CASE WorkerExits
  <2>1. {s \in Sources : entries'[s].life # "gone"} = {}
    BY <1>11 DEF WorkerExits, GoneEntry, FreshEntry
  <2>2. Bytes(Reservations', {}) = 0 /\ reserved' = 0 /\ 0 <= Budget
    BY <1>11, BytesOfNobody, MediaCacheAssumption DEF WorkerExits
  <2> QED BY <2>1, <2>2 DEF ReservationsAdd, Bytes
<1>12. CASE Schedule
  <2>1. \A s \in Sources : Scheduled(entries[s]).life = entries[s].life /\ Scheduled(entries[s]).reserved = entries[s].reserved
    BY <1>2 DEF Scheduled, EntryRecords
  <2>2. Same /\ reserved' = reserved
    BY <1>12, <2>1 DEF Schedule
  <2> QED BY <1>4, <2>2
<1>13. CASE WorkerWakes
  <2> DEFINE live == {s \in Sources : entries[s].life # "gone"}
             left == live \ Retired
  <2>1. /\ reserved' = reserved - Bytes(Reservations, Retired)
        /\ \A s \in Sources : entries'[s] = IF s \in Retired THEN GoneEntry ELSE entries[s]
    BY <1>13 DEF WorkerWakes
  <2>2. live' = left /\ live = left \cup Retired /\ left \cap Retired = {}
    BY <2>1 DEF Retired, GoneEntry, FreshEntry
  <2>3. \A s \in left : Reservations'[s] = Reservations[s]
    BY <2>1 DEF Reservations
  <2>4. IsFiniteSet(left) /\ IsFiniteSet(Retired) /\ \A s \in left \cup Retired : Reservations[s] \in Nat
    <3>1. IsFiniteSet(live) /\ IsFiniteSet(Retired) /\ left \in SUBSET live
      BY <1>1, EntriesReserve
    <3>2. \A s \in left \cup Retired : Reservations[s] \in Nat
      BY <1>1, EntriesReserve DEF Retired
    <3> QED BY <3>1, <3>2, FS_Subset
  <2>5. Bytes(Reservations, live) = Bytes(Reservations, left) + Bytes(Reservations, Retired)
    BY <2>2, <2>4, BytesOfBoth
  <2>6. Bytes(Reservations, left) \in Nat /\ Bytes(Reservations, Retired) \in Nat
    BY <2>4, BytesType
  <2>7. Bytes(Reservations', left) = Bytes(Reservations, left)
    BY <2>3, BytesOfSame
  <2>8. reserved' = Bytes(Reservations', left) /\ reserved' <= Budget
    BY <1>1, <2>1, <2>5, <2>6, <2>7, MediaCacheAssumption DEF ReservationsAdd
  <2> QED BY <2>2, <2>8 DEF ReservationsAdd, Bytes
<1>14. CASE Complete
  BY <1>1, <1>14, CompleteKeepsBooks
<1> QED BY <1>6, <1>7, <1>8, <1>9, <1>10, <1>11, <1>12, <1>13, <1>14 DEF Next, WorkerStep

LEMMA CachesStillFit ==
    ASSUME MediaInv, Next
    PROVE  CachesFit'
<1> DEFINE tracked == {s \in Sources : Tracked(s)}
<1>1. MediaTypes /\ MediaTypes' /\ ReservationsAdd' /\ CachesFit
  BY WaysAreKept, BooksAreKept DEF MediaInv
<1>2. SUFFICES ASSUME TRUE \notin SavedCaching, phase' = "running"
               PROVE  Bytes(CachedSizes', tracked') <= Budget
  BY DEF CachesFit, Accepting, Bytes
<1>3. IsFiniteSet(tracked) /\ \A s \in Sources : CachedSizes[s] \in Nat
  BY <1>1, EntriesReserve
<1>4. IsFiniteSet(tracked') /\ \A s \in Sources : CachedSizes'[s] \in Nat /\ CachedSizes'[s] = IF player'[s].caching THEN Size(player'[s].file) ELSE 0
  <2>1. tracked' \in SUBSET Sources /\ IsFiniteSet(Sources)
    BY MediaCacheAssumption
  <2>2. \A s \in Sources : player'[s] \in PlayerRecords
    BY <1>1 DEF MediaTypes
  <2>3. \A s \in Sources : CachedSizes'[s] = IF player'[s].caching THEN Size(player'[s].file) ELSE 0
    BY DEF CachedSizes
  <2>4. \A s \in Sources : CachedSizes'[s] \in Nat
    BY <2>2, <2>3, MediaCacheAssumption DEF PlayerRecords
  <2> QED BY <2>1, <2>3, <2>4, FS_Subset
<1>5. CASE SourcesTick
  <2> DEFINE live == {s \in Sources : entries[s].life # "gone"}
  <2>1. graphics' = "idle"
    BY <1>5 DEF SourcesTick
  <2>2. \A s \in Sources : Reservations'[s] = entries'[s].reserved /\ Reservations'[s] \in Nat
    <3>1. \A s \in Sources : entries'[s] \in EntryRecords
      BY <1>1 DEF MediaTypes
    <3> QED BY <3>1 DEF Reservations, EntryRecords
  <2>3. ASSUME NEW s \in tracked' PROVE CachedSizes'[s] <= Reservations'[s]
    <3>1. SourceInv(s)' /\ ~Removed(s)'
      BY <1>2, SourcesAreKept DEF Removed, Accepting
    <3>2. CacheIsReserved(s)'
      BY <3>1 DEF SourceInv, Known
    <3>3. player'[s].caching => entries'[s].reserved = Size(player'[s].file)
      BY <1>2, <2>1, <3>2 DEF CacheIsReserved
    <3> QED BY <1>4, <2>2, <3>3
  <2>4. tracked' \subseteq live' /\ IsFiniteSet(live')
    <3>1. live' \in SUBSET Sources /\ IsFiniteSet(Sources)
      BY MediaCacheAssumption
    <3>2. tracked' \subseteq live'
      BY DEF Tracked
    <3> QED BY <3>1, <3>2, FS_Subset
  <2>5. Bytes(CachedSizes', tracked') <= Bytes(Reservations', live')
    <3>1. \A s \in tracked' : CachedSizes'[s] \in Nat /\ CachedSizes'[s] <= Reservations'[s]
      BY <1>4, <2>3
    <3>2. \A s \in live' : Reservations'[s] \in Nat
      BY <2>2
    <3> QED BY <1>4, <2>4, <3>1, <3>2, BytesOfMost
  <2>6. reserved' = Bytes(Reservations', live') /\ reserved' <= Budget
    BY <1>1 DEF ReservationsAdd, Bytes
  <2>7. Bytes(CachedSizes', tracked') \in Int
    BY <1>4, BytesType
  <2> QED BY <1>1, <2>5, <2>6, <2>7, MediaCacheAssumption DEF MediaTypes
<1>6. CASE ~SourcesTick
  <2>1. player' = player /\ phase = "running"
    BY <1>2, <1>6, PhaseGoesOn, PlayersStay
  <2>2. \A s \in Sources : CachedSizes'[s] = CachedSizes[s]
    BY <2>1 DEF CachedSizes
  <2>3. Bytes(CachedSizes, tracked) <= Budget /\ Bytes(CachedSizes, tracked) \in Int /\ Budget \in Int
    BY <1>1, <1>2, <1>3, <2>1, BytesType, MediaCacheAssumption DEF CachesFit, Accepting
  <2>4. CASE \E s \in Sources : Register(s)
    <3>1. PICK s \in Sources : Register(s)
      BY <2>4
    <3>2. entries[s].life = "new" /\ tracked' = tracked \cup {s} /\ tracked \cap {s} = {}
      BY <1>1, <3>1 DEF Register, Tracked, MediaTypes, EntryRecords
    <3>3. CachedSizes[s] = 0
      <4>1. Untouched(s) /\ player[s] \in PlayerRecords
        BY <1>1 DEF MediaInv, SourceInv, MediaTypes
      <4>2. player[s].caching \in SavedCaching /\ player[s].caching \in BOOLEAN
        BY <3>2, <4>1 DEF Untouched, PlayerRecords
      <4>3. player[s].caching = FALSE
        BY <1>2, <4>2
      <4> QED BY <4>3 DEF CachedSizes
    <3>4. Bytes(CachedSizes, tracked \cup {s}) = Bytes(CachedSizes, tracked) + Bytes(CachedSizes, {s})
      <4>1. IsFiniteSet({s}) /\ \A x \in tracked \cup {s} : CachedSizes[x] \in Nat
        BY <1>3, FS_Singleton
      <4> HIDE DEF tracked
      <4> QED BY <1>3, <3>2, <4>1, BytesOfBoth
    <3>5. Bytes(CachedSizes, {s}) = 0
      BY <1>3, <3>3, BytesOfOne
    <3>6. Bytes(CachedSizes', tracked') = Bytes(CachedSizes, tracked')
      <4>1. \A x \in tracked' : CachedSizes'[x] = CachedSizes[x]
        BY <2>2
      <4> QED BY <4>1, BytesOfSame
    <3>7. Bytes(CachedSizes, tracked') = Bytes(CachedSizes, tracked \cup {s})
      <4>1. tracked' = tracked \cup {s}
        BY <3>2
      <4> HIDE DEF tracked
      <4> QED BY <4>1
    <3>8. Bytes(CachedSizes', tracked') = Bytes(CachedSizes, tracked)
      <4> HIDE DEF tracked
      <4> QED BY <2>3, <3>4, <3>5, <3>6, <3>7
    <3> QED BY <2>3, <3>8
  <2>5. CASE \A s \in Sources : ~Register(s)
    <3>1. tracked' \subseteq tracked
      <4>1. SUFFICES ASSUME NEW s \in Sources, entries'[s].life = "tracked" PROVE Tracked(s)
        BY DEF Tracked
      <4>2. ~Removed(s)'
        BY <1>2, <4>1 DEF Removed, Tracked, Accepting
      <4> QED BY <2>5, <4>2, RemovedStays DEF Removed
    <3>2. Bytes(CachedSizes', tracked') <= Bytes(CachedSizes, tracked)
      <4>1. \A s \in tracked' : CachedSizes'[s] \in Nat /\ CachedSizes'[s] <= CachedSizes[s]
        BY <1>4, <2>2
      <4>2. \A s \in tracked : CachedSizes[s] \in Nat
        BY <1>3
      <4> QED BY <1>3, <1>4, <3>1, <4>1, <4>2, BytesOfMost
    <3>3. Bytes(CachedSizes', tracked') \in Int
      BY <1>4, BytesType
    <3> HIDE DEF tracked
    <3> QED BY <2>3, <3>2, <3>3
  <2> QED BY <2>4, <2>5
<1> QED BY <1>5, <1>6

-----------------------------------------------------------------------------
(* MediaCache: the invariant *)

LEMMA MediaInvInit ==
    ASSUME Init PROVE MediaInv
<1>1. MediaTypes
  BY MediaTypesInit
<1>2. \A s \in Sources : entries[s] = FreshEntry /\ entries[s].life = "new" /\ entries[s].reserved = 0
  BY DEF Init, FreshEntry
<1>3. \A e \in Editors : editor[e] = NoEdit /\ editor[e].pc = "none" /\ ~editor[e].active
  BY DEF Init, NoEdit
<1>4. jobs = <<>> /\ batch = <<>> /\ results = <<>> /\ completions = <<>> /\ graphics = "idle"
  BY DEF Init
<1>5. Elements(jobs) = {} /\ Elements(batch) = {} /\ Elements(results) = {} /\ Elements(completions) = {}
  BY <1>4 DEF Elements
<1>6. OneJobEach
  BY <1>4, <1>5 DEF OneJobEach, Distinct, OneOfEach, OneResultOfEach, Queued, Taken, Posting, Posted
<1>7. \A s \in Sources : Removed(s)
  BY <1>2 DEF Removed, Tracked
<1>8. NobodyForgotten
  BY <1>7 DEF NobodyForgotten, Init
<1>9. EditorsInOrder
  BY <1>3, <1>4 DEF EditorsInOrder
<1>10. WriteIsValid
  BY <1>4 DEF WriteIsValid
<1>11. ASSUME NEW s \in Sources PROVE SourceInv(s)
  <2>1. setting[s] = player[s] /\ ~deferred[s] /\ mutex[s] = NoOne /\ setting[s].caching \in SavedCaching
    BY DEF Init
  <2>2. s \notin OnTheWay
    BY <1>5 DEF OnTheWay, Queued, Taken, Posting, Posted
  <2>3. Untouched(s)
    BY <1>2, <1>3, <2>1, <2>2 DEF Untouched
  <2>4. UpdateArrives(s)
    BY <2>1 DEF UpdateArrives
  <2> QED BY <1>7, <2>3, <2>4 DEF SourceInv
<1>12. ReservationsAdd
  <2> DEFINE live == {s \in Sources : entries[s].life # "gone"}
  <2>1. \A s \in live : Reservations[s] = 0
    BY <1>2 DEF Reservations
  <2>2. Bytes(Reservations, live) = 0
    <3> HIDE DEF live
    <3> QED BY <2>1, BytesOfNothing
  <2>3. reserved = 0 /\ 0 <= Budget
    BY MediaCacheAssumption DEF Init
  <2> QED BY <2>2, <2>3 DEF ReservationsAdd
<1>13. CachesFit
  <2>1. {s \in Sources : Tracked(s)} = {}
    BY <1>2 DEF Tracked
  <2>2. Bytes(CachedSizes, {s \in Sources : Tracked(s)}) = 0 /\ 0 <= Budget
    BY <2>1, BytesOfNobody, MediaCacheAssumption
  <2> QED BY <2>2 DEF CachesFit
<1> QED BY <1>1, <1>6, <1>8, <1>9, <1>10, <1>11, <1>12, <1>13 DEF MediaInv

LEMMA MediaInvStutters ==
    ASSUME MediaInv, UNCHANGED vars PROVE MediaInv'
<1>1. UNCHANGED <<phase, entries, reserved, jobs, completions, rebalance, worker, notified, graphics, batch, results,
                  mutex, editor, setting, player, deferred, shown, signalled, preference, events>>
  BY DEF vars, managerVars, graphicsVars, obsVars
<1>2. MediaTypes'
  BY <1>1 DEF MediaInv, MediaTypes
<1>3. OneJobEach'
  BY <1>1 DEF MediaInv, OneJobEach, Queued, Taken, Posting, Posted
<1>4. NobodyForgotten'
  BY <1>1 DEF MediaInv, NobodyForgotten, Removed, Tracked, Accepting
<1>5. EditorsInOrder'
  BY <1>1 DEF MediaInv, EditorsInOrder, Removed, Tracked, Accepting
<1>6. WriteIsValid'
  BY <1>1 DEF MediaInv, WriteIsValid, Removed, Tracked, Accepting, Unedited, SameView, Eligible
<1>7. ASSUME NEW s \in Sources PROVE SourceInv(s)'
  <2>1. MediaTypes /\ SourceInv(s) /\ OnTheWay' = OnTheWay
    BY <1>1, StillOnTheWay DEF MediaInv
  <2>2. SameEntry(entries[s], entries'[s]) /\ (Removed(s)' <=> Removed(s))
    BY <1>1 DEF SameEntry, Removed, Tracked, Accepting
  <2>3. reserved' >= reserved
    BY <1>1, <2>1 DEF MediaTypes
  <2>4. Aside(s)
    BY <1>1, <2>1, <2>2, <2>3 DEF Aside
  <2> QED BY <1>2, <2>1, <2>4, AsideKeeps
<1>8. ReservationsAdd'
  BY <1>1, <1>2, SameBooks DEF MediaInv
<1>9. CachesFit'
  <2>1. CachedSizes' = CachedSizes
    BY <1>1 DEF CachedSizes
  <2>2. {s \in Sources : Tracked(s)}' = {s \in Sources : Tracked(s)}
    BY <1>1 DEF Tracked
  <2> QED BY <1>1, <2>1, <2>2 DEF MediaInv, CachesFit, Accepting, Bytes
<1> QED BY <1>2, <1>3, <1>4, <1>5, <1>6, <1>7, <1>8, <1>9 DEF MediaInv

LEMMA MediaInvHolds == Spec => []MediaInv
<1>1. Init => MediaInv
  BY MediaInvInit
<1>2. MediaInv /\ [Next]_vars => MediaInv'
  <2>1. ASSUME MediaInv, Next PROVE MediaInv'
    BY <2>1, WaysAreKept, NobodyIsForgotten, EditorsKeepOrder, WriteStaysValid, SourcesAreKept, BooksAreKept, CachesStillFit
       DEF MediaInv
  <2> QED BY <2>1, MediaInvStutters
<1> QED BY <1>1, <1>2, PTL DEF Spec

(* EstimateOfFile (memory-manager.cpp, queryMediaOnGraphicsThread and        *)
(* complete): however edits, deferred updates and ticks interleave, the size *)
(* the worker is about to accept was measured on a player of the very file   *)
(* the settings name.                                                        *)
THEOREM EstimateTrue == Spec => []EstimateOfFile
<1>1. ASSUME MediaInv PROVE EstimateOfFile
  <2>1. SUFFICES ASSUME NEW i \in DOMAIN completions, completions[i].bytes # 0,
                        ~Removed(completions[i].job.source), entries[completions[i].job.source].fresh
                 PROVE  completions[i].bytes = Size(completions[i].file)
    BY DEF EstimateOfFile
  <2>2. PICK r \in ResultRecords : r = completions[i] /\ r \in Elements(completions)
    <3>1. completions[i] \in Elements(completions) /\ completions \in Seq(ResultRecords)
      BY <1>1 DEF Elements, MediaInv, MediaTypes
    <3> QED BY <3>1, ElementsIn
  <2>3. PICK s \in Sources : s = r.job.source
    BY DEF ResultRecords, JobRecords
  <2>4. r.job.type \in {"query", "set"}
    BY DEF ResultRecords, JobRecords
  <2>5. Known(s)
    BY <1>1, <2>1, <2>2, <2>3 DEF MediaInv, SourceInv
  <2>6. QueryIsTrue(s, r) /\ SetIsTrue(s, r, graphics = "sources")
    BY <2>2, <2>3, <2>5 DEF Known, ResultsAreTrue
  <2> QED BY <2>1, <2>2, <2>3, <2>4, <2>6 DEF QueryIsTrue, SetIsTrue
<1> QED BY <1>1, MediaInvHolds, PTL

\* With nothing left to do every tracked source is as complete() settles it.
LEMMA QuietSettled ==
    ASSUME MediaInv PROVE QuietIsSettled
<1>1. SUFFICES ASSUME Quiet, NEW s \in Sources, Tracked(s)
               PROVE  /\ entries[s].scheduled /\ ~entries[s].pending
                      /\ setting[s].caching <=> entries[s].reserved # 0
                      /\ entries[s].reserved # 0 => entries[s].reserved = Size(setting[s].file)
                      /\ entries[s].reserved # 0 => AuxViews \/ Eligible(s)
                      /\ entries[s].waiting => Size(setting[s].file) > Budget - reserved
  BY DEF QuietIsSettled
<1>2. ~Removed(s) /\ Known(s)
  BY <1>1 DEF MediaInv, SourceInv, Removed, Quiet
<1>3. batch = <<>> /\ results = <<>> /\ jobs = <<>> /\ completions = <<>>
  BY <1>1 DEF MediaInv, MediaTypes, OneJobEach, Quiet, InTickCallback
<1>4. s \notin OnTheWay
  BY <1>3 DEF OnTheWay, Queued, Taken, Posting, Posted, Elements
<1>5. ~entries[s].pending
  BY <1>2, <1>4 DEF Known, PendingIsOnTheWay
<1>6. entries[s].scheduled /\ ~rebalance
  BY <1>1, <1>2, <1>5 DEF MediaInv, NobodyForgotten, Quiet
<1> QED BY <1>1, <1>2, <1>5, <1>6 DEF Known, EvaluatedIsSettled, SameView, Quiet

(* CachesAreAccounted (memory-manager.cpp, complete, graphicsTick and the    *)
(* guard that trackSourceSettingsUpdate returns): the reservations add up    *)
(* and stay within the budget, so do the caches that the players of tracked  *)
(* sources really hold, and at rest settings, players and reservations       *)
(* agree.  A source whose saved settings already ask for caching is outside  *)
(* the books until its first evaluation, hence the hypothesis.               *)
THEOREM CachesAccounted == TRUE \notin SavedCaching /\ Spec => []CachesAreAccounted
<1>1. ASSUME MediaInv, TRUE \notin SavedCaching PROVE CachesAreAccounted
  <2>1. BudgetIsKept
    BY <1>1 DEF MediaInv, ReservationsAdd, CachesFit, BudgetIsKept
  <2> QED BY <1>1, <2>1, QuietSettled DEF CachesAreAccounted
<1>2. CASE TRUE \notin SavedCaching
  <2>1. MediaInv => CachesAreAccounted
    BY <1>1, <1>2
  <2> QED BY <2>1, MediaInvHolds, PTL
<1> QED BY <1>2

(* Whatever the saved settings hold, m_reservedCacheBytes is the sum of what *)
(* the entries reserve, within the budget, and the manager comes to rest     *)
(* with every tracked source settled.                                        *)
THEOREM BooksAndRest == Spec => [](ReservationsAdd /\ QuietIsSettled)
<1>1. MediaInv => ReservationsAdd /\ QuietIsSettled
  BY QuietSettled DEF MediaInv
<1> QED BY <1>1, MediaInvHolds, PTL
=============================================================================
