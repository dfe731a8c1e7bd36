----------------------------- MODULE SceneItems -----------------------------
(***************************************************************************)
(* Scenes and their items as the client sees them.  The server hands out a  *)
(* number (uid) for each libobs item it returns and keeps a reference to    *)
(* it; the client keeps, per scene it made, the items in order (SceneInfo)  *)
(* and, per item it added, the values it last read or wrote                 *)
(* (SceneItemData), each with a flag that says it must be read again.       *)
(* A getter that answers from its entry and a setter that finds nothing to  *)
(* do change no state, so they are the operators answered and skipped; the  *)
(* actions are the calls that reach the server.                             *)
(***************************************************************************)
EXTENDS Integers, FiniteSets, Sequences, SequencesExt

CONSTANTS
    Scenes,      \* names of scenes
    MaxItems,    \* bound: items ever made in libobs
    Values,      \* the values of a field; 0 is libobs' default
    MaxItemCalls \* bound: itemCalls that change something

ASSUME SceneItemsAssumption ==
    /\ MaxItems \in Nat \ {0}
    /\ MaxItemCalls \in Nat
    /\ 0 \in Values

VARIABLES
    order,       \* per scene: libobs' items, bottom-most first
    made,        \* per scene: the items libobs ever numbered in it
    ended,       \* scenes removed or released
    value,       \* per item: what libobs has
    manager,     \* osn::SceneItem::Manager: the item of each uid given out
    refs,        \* per item: references that are not the scene's
    si,          \* client: SceneInfo of each scene
    sid,         \* client: SceneItemData of each uid
    stale,       \* a canvas was reset and the cache not invalidated since
    itemCalls        \* itemCalls made

server == <<order, made, ended, value, manager, refs>>
itemVars == <<server, si, sid, stale, itemCalls>>

Items == 1..MaxItems
None == 0
NoInfo == [items |-> <<>>, itemsOrderCached |-> FALSE, known |-> FALSE]
NoEntry == [known |-> FALSE]

Flags == {"selected", "streamVisible", "recordingVisible"}
Absolute == {"pos", "scale", "crop"}
Fields == Flags \cup Absolute
            \cup {"visible", "rotation", "scaleFilter", "blendingMode", "blendingMethod"}
Uids == 1..Len(manager)
Live(u) == manager[u] # None
HasEntry(u) == sid[u].known
Lists(s) == Range(order[s])
HomeOf(i) == CHOOSE s \in Scenes : i \in Range(made[s])
ObsId(i) == CHOOSE n \in 1..Len(made[HomeOf(i)]) : made[HomeOf(i)][n] = i
Made == UNION {Range(made[s]) : s \in Scenes}
Exists(s) == si[s].known /\ s \notin ended
Defaults == [f \in Fields |-> 0]

ItemsTypeOK ==
    /\ order \in [Scenes -> Seq(Items)]
    /\ made \in [Scenes -> Seq(Items)]
    /\ ended \subseteq Scenes
    /\ value \in [Items -> [Fields -> Values]]
    /\ manager \in Seq(Items \cup {None})
    /\ refs \in [Items -> Nat]
    /\ DOMAIN si = Scenes
    /\ Len(sid) = Len(manager)
    /\ stale \in BOOLEAN
    /\ itemCalls \in 0..MaxItemCalls

ItemsInit ==
    /\ order = [s \in Scenes |-> <<>>]
    /\ made = [s \in Scenes |-> <<>>]
    /\ ended = {}
    /\ value = [i \in Items |-> Defaults]
    /\ manager = <<>>
    /\ refs = [i \in Items |-> 0]
    /\ si = [s \in Scenes |-> NoInfo]
    /\ sid = <<>>
    /\ stale = FALSE
    /\ itemCalls = 0

itemCalled == itemCalls < MaxItemCalls /\ itemCalls' = itemCalls + 1

-----------------------------------------------------------------------------
(* What the client does without asking the server. *)

Clean(u, f) == f \notin sid[u].changed

\* A getter answers from the entry.  The filter is asked for only when it is
\* not 0, and a selection has to be read once.
answered(u, f) ==
    CASE f = "scaleFilter" -> sid[u].value[f] = 0
      [] f = "selected" -> sid[u].cached /\ Clean(u, f)
      [] OTHER -> Clean(u, f)

\* A setter returns at once when the entry already has the value; only the
\* fields a canvas changes look at the flag too.
skippedWhenEqual(u, f, v) == sid[u].value[f] = v
skipped(u, f, v) ==
    /\ sid[u].value[f] = v
    /\ f \in Absolute => Clean(u, f)

-----------------------------------------------------------------------------
(* The fields of an item. *)

\* The server's handlers come in pairs that are alike for all fields: one
\* answers what libobs has, the other applies a value and answers what libobs
\* made of it.
valueOf(u, f) == value[manager[u]][f]
Apply(u, f, v) == value' = [value EXCEPT ![manager[u]][f] = v]

ItemCall(u) == itemCalled /\ HasEntry(u) /\ Live(u)
Store(u, f, v, changed) ==
    sid' = [sid EXCEPT ![u] = [known |-> TRUE, cached |-> IF f = "selected" THEN TRUE ELSE @.cached,
                               value |-> [@.value EXCEPT ![f] = v], changed |-> changed]]
Get(u, f) ==
    /\ ItemCall(u)
    /\ ~answered(u, f)
    /\ Store(u, f, valueOf(u, f), sid[u].changed \ {f})
    /\ UNCHANGED <<server, si, stale>>
Set(u, f, v, changed) ==
    /\ ItemCall(u)
    /\ ~skipped(u, f, v)
    /\ Apply(u, f, v)
    /\ Store(u, f, v, changed)
    /\ UNCHANGED <<order, made, ended, manager, refs, si, stale>>

\* The flags are read again after a write, unless it changes nothing.
SetFlag(u, f, v) ==
    \/ Set(u, f, v, sid[u].changed \cup {f})
    \/ /\ itemCalled /\ HasEntry(u) /\ skipped(u, f, v) /\ ~Clean(u, f)
       /\ sid' = [sid EXCEPT ![u].changed = @ \ {f}]
       /\ UNCHANGED <<server, si, stale>>
SetAndTrust(u, f, v) == Set(u, f, v, sid[u].changed \ {f})

IsVisible(u) == Get(u, "visible")
SetVisible(u, v) == Set(u, "visible", v, sid[u].changed)
IsSelected(u) == Get(u, "selected")
SetSelected(u, v) == SetFlag(u, "selected", v)
IsStreamVisible(u) == Get(u, "streamVisible")
SetStreamVisible(u, v) == SetFlag(u, "streamVisible", v)
IsRecordingVisible(u) == Get(u, "recordingVisible")
SetRecordingVisible(u, v) == SetFlag(u, "recordingVisible", v)
GetPosition(u) == Get(u, "pos")
SetPosition(u, v) == SetAndTrust(u, "pos", v)
GetRotation(u) == Get(u, "rotation")
SetRotation(u, v) == Set(u, "rotation", v, sid[u].changed)
GetScale(u) == Get(u, "scale")
SetScale(u, v) == SetAndTrust(u, "scale", v)
GetScaleFilter(u) == Get(u, "scaleFilter")
SetScaleFilter(u, v) == SetAndTrust(u, "scaleFilter", v)
GetBlendingMethod(u) == Get(u, "blendingMethod")
SetBlendingMethod(u, v) == SetAndTrust(u, "blendingMethod", v)
GetBlendingMode(u) == Get(u, "blendingMode")
SetBlendingMode(u, v) == SetAndTrust(u, "blendingMode", v)
GetCrop(u) == Get(u, "crop")

\* libobs fits the crop to its reference size, and the entry takes its answer.
fitCrop(u, effective) == Apply(u, "crop", effective)
SetCrop(u, v) ==
    /\ ItemCall(u)
    /\ ~skipped(u, "crop", v)
    /\ \E effective \in Values :
          /\ fitCrop(u, effective)
          /\ Store(u, "crop", effective, sid[u].changed \ {"crop"})
    /\ UNCHANGED <<order, made, ended, manager, refs, si, stale>>

\* libobs changes some fields of an item; the entry is told to read them again.
Becomes(i, fs) ==
    \E w \in [fs -> Values] :
       value' = [value EXCEPT ![i] = [f \in Fields |-> IF f \in fs THEN w[f] ELSE @[f]]]
Suspect(u, fs) == sid' = IF HasEntry(u) THEN [sid EXCEPT ![u].changed = @ \cup fs] ELSE sid

\* What the item looks like on its new canvas is libobs' to compute.
changeCanvas(u) == Live(u) /\ Becomes(manager[u], Absolute)
setCanvasTrustingCrop(u) ==
    /\ itemCalled /\ changeCanvas(u)
    /\ Suspect(u, {"pos", "scale"})
    /\ UNCHANGED <<order, made, ended, manager, refs, si, stale>>
SetCanvas(u) ==
    /\ itemCalled /\ changeCanvas(u)
    /\ Suspect(u, Absolute)
    /\ UNCHANGED <<order, made, ended, manager, refs, si, stale>>

\* All of the transform at once; libobs may fit the crop to it.
applyTransform(u) == Live(u) /\ Becomes(manager[u], Absolute \cup {"rotation"})
SetTransformInfo(u) ==
    /\ itemCalled /\ applyTransform(u)
    /\ Suspect(u, Absolute \cup {"rotation"})
    /\ UNCHANGED <<order, made, ended, manager, refs, si, stale>>

\* The canvas takes other dimensions, and with it every item's transform.
ResetCanvas ==
    /\ itemCalled
    /\ \E i \in Made : Becomes(i, Absolute)
    /\ stale' = TRUE
    /\ UNCHANGED <<order, made, ended, manager, refs, si, sid>>
InvalidateSceneItemTransforms ==
    [u \in Uids |-> IF HasEntry(u) THEN [sid[u] EXCEPT !.changed = @ \cup Absolute] ELSE sid[u]]
InvalidateItemTransformCache ==
    /\ itemCalled /\ stale
    /\ sid' = InvalidateSceneItemTransforms
    /\ stale' = FALSE
    /\ UNCHANGED <<server, si>>

-----------------------------------------------------------------------------
(* Scenes and their lists. *)

Uid(m, i) == CHOOSE u \in 1..Len(m) : m[u] = i
Managed(m, i) == \E u \in 1..Len(m) : m[u] = i
PlaceIn(list, i) == SelectInSeq(list, LAMBDA x : x = i)

\* The items of a list that have no uid, in its order.
Unnumbered(list) ==
    {new \in SetToSeqs({i \in Range(list) : ~Managed(manager, i)}) :
        \A k, n \in DOMAIN new : k < n => PlaceIn(list, new[k]) < PlaceIn(list, new[n])}

allocateUnreferenced(list) ==
    \E new \in Unnumbered(list) :
        /\ manager' = manager \o new
        /\ refs' = refs
        /\ sid' = sid \o [n \in 1..Len(new) |-> NoEntry]

\* The server gives a uid, and takes a reference, for each item that has none.
allocate(list) ==
    \E new \in Unnumbered(list) :
        /\ manager' = manager \o new
        /\ refs' = [i \in Items |-> IF i \in Range(new) THEN refs[i] + 1 ELSE refs[i]]
        /\ sid' = sid \o [n \in 1..Len(new) |-> NoEntry]
Pairs(is) == [n \in DOMAIN is |-> <<ObsId(is[n]), Uid(manager', is[n])>>]
Listed(s, is) == si' = [si EXCEPT ![s].items = Pairs(is), ![s].itemsOrderCached = TRUE]
NextItem == Cardinality(Made) + 1

NewInfo == [items |-> <<>>, itemsOrderCached |-> FALSE, known |-> TRUE]
Create(s) ==
    /\ itemCalled /\ ~si[s].known
    /\ si' = [si EXCEPT ![s] = NewInfo]
    /\ UNCHANGED <<server, sid, stale>>
\* A copy has items of its own, which nobody asked for yet.
copyItems(s, copy) ==
    LET new == [n \in DOMAIN order[s] |-> NextItem + n - 1]
    IN  /\ Range(new) \subseteq Items
        /\ order' = [order EXCEPT ![copy] = new]
        /\ made' = [made EXCEPT ![copy] = new]
        /\ value' = [i \in Items |-> IF i \in Range(new) THEN value[order[s][i - NextItem + 1]]
                                                         ELSE value[i]]
Duplicate(s, copy) ==
    /\ itemCalled /\ Exists(s) /\ ~si[copy].known
    /\ copyItems(s, copy)
    /\ si' = [si EXCEPT ![copy] = NewInfo]
    /\ UNCHANGED <<ended, manager, refs, sid, stale>>

\* Without a transform the entry has the defaults and trusts none of them; with
\* one it trusts all but the crop, which libobs may have fitted.
newEntry(v, transform) ==
    [known |-> TRUE, cached |-> FALSE,
     value |-> [f \in Fields |-> IF transform /\ f # "selected" THEN v ELSE 0],
     changed |-> IF transform THEN {"crop"} ELSE Fields \ {"selected"}]
addSource(s, v, transform) ==
    LET item == NextItem
    IN  /\ Exists(s) /\ item <= MaxItems
        /\ order' = [order EXCEPT ![s] = Append(@, item)]
        /\ made' = [made EXCEPT ![s] = Append(@, item)]
        /\ \E crop \in IF transform THEN Values ELSE {0} :
              value' = [value EXCEPT ![item] = [newEntry(v, transform).value EXCEPT !["crop"] = crop]]
        /\ manager' = Append(manager, item)
        /\ refs' = [refs EXCEPT ![item] = @ + 1]
        /\ sid' = Append(sid, newEntry(v, transform))
AddSource(s) ==
    /\ itemCalled
    /\ \E transform \in BOOLEAN, v \in Values : addSource(s, v, transform)
    /\ si' = [si EXCEPT ![s].items = Append(@, <<Len(made[s]) + 1, Len(manager) + 1>>),
                        ![s].itemsOrderCached = TRUE]
    /\ UNCHANGED <<ended, stale>>

\* An item that is found has a uid afterwards.  The client looks in its own
\* list first when it is given a number of the scene.
found(i) == ~Managed(manager, i) /\ allocate(<<i>>)
FindItem(s) ==
    /\ itemCalled /\ Exists(s)
    /\ \E i \in Lists(s) : found(i)
    /\ UNCHANGED <<order, made, ended, value, si, stale>>
foundAt(s, index) == index \in DOMAIN order[s] /\ found(order[s][index])
GetItemAtIndex(s, index) ==
    /\ itemCalled /\ Exists(s)
    /\ foundAt(s, index)
    /\ UNCHANGED <<order, made, ended, value, si, stale>>
\* The server takes the first index for both ends of the range.
inRange(s, from, to) == {order[s][n] : n \in DOMAIN order[s] \cap (from..from)}
GetItemsInRange(s, from, to) ==
    /\ itemCalled /\ Exists(s)
    /\ \E i \in inRange(s, from, to) : found(i)
    /\ UNCHANGED <<order, made, ended, value, si, stale>>

\* The list is used when each number of the scene is also a uid with an entry.
usesList(s) ==
    /\ si[s].itemsOrderCached
    /\ \A n \in DOMAIN si[s].items : si[s].items[n][1] + 1 \in Uids /\ HasEntry(si[s].items[n][1] + 1)
GetItems(s) ==
    /\ itemCalled /\ Exists(s) /\ ~usesList(s)
    /\ allocate(order[s])
    /\ Listed(s, order[s])
    /\ UNCHANGED <<order, made, ended, value, stale>>

\* The server answers the whole new order.
reorder(s, new) ==
    /\ order' = [order EXCEPT ![s] = new]
    /\ allocate(new)
    /\ IF new = <<>> THEN si' = si ELSE Listed(s, new)
    /\ UNCHANGED <<made, ended, value, stale>>
moved(is, from, to) == InsertAt(RemoveAt(is, from), to, is[from])
\* Indexes count from the top-most item.
movedItem(s, from, to) ==
    LET n == Len(order[s]) IN moved(order[s], n - from, n - to)
MoveItem(s, from, to) ==
    /\ itemCalled /\ Exists(s) /\ from < Len(order[s]) /\ to < Len(order[s])
    /\ reorder(s, movedItem(s, from, to))
OrderItems(s) ==
    /\ itemCalled /\ Exists(s)
    /\ \E new \in SetToSeqs(Lists(s)) : reorder(s, new)

\* libobs moves one item of its scene; the client's list stays.
Place(u) == PlaceIn(order[HomeOf(manager[u])], manager[u])
Top(u) == Len(order[HomeOf(manager[u])])
arrange(u, to) ==
    /\ itemCalled /\ Live(u)
    /\ Place(u) # 0 /\ to \in 1..Top(u) /\ to # Place(u)
    /\ order' = [order EXCEPT ![HomeOf(manager[u])] = moved(@, Place(u), to)]
    /\ UNCHANGED <<made, ended, value, manager, refs, si, sid, stale>>
MoveUp(u) == arrange(u, Place(u) + 1)
MoveDown(u) == arrange(u, Place(u) - 1)
MoveTop(u) == arrange(u, Top(u))
MoveBottom(u) == arrange(u, 1)
Move(u) == \E position \in Items : arrange(u, position)

-----------------------------------------------------------------------------
(* Removal. *)

Without(i) == [s \in Scenes |-> RemoveFirst(order[s], i)]

removeItem(u) ==
    /\ manager' = [manager EXCEPT ![u] = None]
    /\ order' = Without(manager[u])
    /\ refs' = [refs EXCEPT ![manager[u]] = @ - 1]

\* The call is not answered; the client forgets the item at once.
RemoveItem(u) ==
    /\ itemCalled /\ Live(u)
    /\ removeItem(u)
    /\ si' = IF HasEntry(u) THEN [si EXCEPT ![HomeOf(manager[u])].itemsOrderCached = FALSE] ELSE si
    /\ sid' = [sid EXCEPT ![u] = NoEntry]
    /\ UNCHANGED <<made, ended, value, stale>>

\* The items' uids are freed and their references kept.
SceneRemove(s) ==
    /\ itemCalled /\ Exists(s)
    /\ order' = [order EXCEPT ![s] = <<>>]
    /\ manager' = [u \in Uids |-> IF manager[u] \in Lists(s) THEN None ELSE manager[u]]
    /\ ended' = ended \cup {s}
    /\ UNCHANGED <<made, value, refs, si, sid, stale>>
SceneRelease(s) ==
    /\ itemCalled /\ Exists(s)
    /\ order' = [order EXCEPT ![s] = <<>>]
    /\ ended' = ended \cup {s}
    /\ UNCHANGED <<made, value, manager, refs, si, sid, stale>>

\* libobs drops the item of a source that was removed.
Prune(i) ==
    /\ itemCalled /\ \E s \in Scenes : i \in Lists(s)
    /\ order' = Without(i)
    /\ UNCHANGED <<made, ended, value, manager, refs, si, sid, stale>>

-----------------------------------------------------------------------------
Reads(u) ==
    \/ IsVisible(u) \/ IsSelected(u) \/ IsStreamVisible(u) \/ IsRecordingVisible(u)
    \/ GetPosition(u) \/ GetRotation(u) \/ GetScale(u) \/ GetScaleFilter(u) \/ GetCrop(u)
    \/ GetBlendingMethod(u) \/ GetBlendingMode(u)
Writes(u, v) ==
    \/ SetVisible(u, v) \/ SetSelected(u, v) \/ SetStreamVisible(u, v)
    \/ SetRecordingVisible(u, v) \/ SetPosition(u, v) \/ SetRotation(u, v) \/ SetScale(u, v)
    \/ SetScaleFilter(u, v) \/ SetCrop(u, v) \/ SetBlendingMethod(u, v) \/ SetBlendingMode(u, v)
Arranges(u) == MoveUp(u) \/ MoveDown(u) \/ MoveTop(u) \/ MoveBottom(u) \/ Move(u)

ItemsNext ==
    \/ \E u \in Uids :
          \/ Reads(u) \/ SetCanvas(u) \/ SetTransformInfo(u) \/ Arranges(u) \/ RemoveItem(u)
          \/ \E v \in Values : Writes(u, v)
    \/ ResetCanvas \/ InvalidateItemTransformCache
    \/ \E s \in Scenes :
          \/ Create(s) \/ AddSource(s) \/ FindItem(s) \/ GetItems(s)
          \/ OrderItems(s) \/ SceneRemove(s) \/ SceneRelease(s)
          \/ \E from, to \in 0..MaxItems - 1 : MoveItem(s, from, to)
          \/ \E index, to \in Items : GetItemAtIndex(s, index) \/ GetItemsInRange(s, index, to)
          \/ \E copy \in Scenes : Duplicate(s, copy)
    \/ \E i \in Items : Prune(i)

ItemsSpec == ItemsInit /\ [][ItemsNext]_itemVars

-----------------------------------------------------------------------------
\* While the frontend has invalidated the cache after each canvas reset, what
\* a getter answers from its entry is what libobs has, for each item the server
\* still knows.
AnswersTrue ==
    ~stale => \A u \in Uids : Live(u) /\ HasEntry(u) =>
                 \A f \in Fields : answered(u, f) => sid[u].value[f] = value[manager[u]][f]

\* A setter that returns without a call leaves libobs with the value it was
\* given (a rotation excepted: transformInfo changes it past the entry).
NoLostWrite ==
    ~stale => \A u \in Uids : Live(u) /\ HasEntry(u) =>
                 \A f \in Fields \ {"rotation"}, v \in Values :
                    skipped(u, f, v) => value[manager[u]][f] = v

\* Both hold for every order of setters, getters, canvas changes, transforms
\* and removals: neither direction is answered from an entry that is out of date.
CacheIsHonest == AnswersTrue /\ NoLostWrite

\* The server holds a reference to each item it can be asked for, so a call
\* never reaches an item that libobs has freed, whatever removed it.
ManagedIsAlive == \A u \in Uids : Live(u) => refs[manager[u]] > 0
=============================================================================
