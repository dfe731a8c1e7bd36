---------------------------- MODULE SourceCache ----------------------------
(***************************************************************************)
(* What the client remembers of each source it made (SourceDataInfo) so     *)
(* that a getter need not ask the server.  An entry has, per field, a value *)
(* and a flag that says it must be read again; the flags are set by the     *)
(* calls that change the field on the server.  The server numbers its       *)
(* sources and never uses a number again.                                   *)
(*                                                                          *)
(* Calls that pass a value through without touching an entry (flags,        *)
(* enabled, volume, synchronisation, monitoring, deinterlacing, media       *)
(* control, mouse and keys) are left out.                                   *)
(***************************************************************************)
EXTENDS Integers, FiniteSets, Sequences, SequencesExt

CONSTANTS
    MaxSources,  \* bound: sources ever made
    Present,     \* the sources made so far: kind, type and name of each
    Names,       \* names a source is given
    Types,       \* the types of source
    Restless,    \* type :> the field that libobs changes on its own
    SourceValues, \* the values of settings, properties, mute and mixers
    MaxSourceCalls \* bound: calls and changes

\* The types whose settings, and whose properties, the client never trusts are
\* those that libobs changes on its own.
RestlessSettings == {"screen_capture", "vst_filter"}
RestlessProperties == {"game_capture"}

ASSUME SourceCacheAssumption ==
    /\ MaxSources \in Nat \ {0}
    /\ MaxSourceCalls \in Nat
    /\ \A t \in DOMAIN Restless : <<Restless[t], t>> \in ({"settings"} \X RestlessSettings)
                                                \cup ({"properties"} \X RestlessProperties)
    /\ Present \in Seq([kind : {"input", "filter"}, type : Types, name : Names])
    /\ Len(Present) <= MaxSources
    /\ 0 \in SourceValues

VARIABLES
    source,      \* the server's sources, by number
    own,         \* those to which the server has its own reference
    entry,       \* CacheManager<SourceDataInfo>::sourcesById
    byName,      \* CacheManager<SourceDataInfo>::sourcesByName
    removed,     \* history: those the client removed
    astray,      \* history: fields that changed behind their entry's flag
    sourceCalls

cacheVars == <<source, own, entry, byName, removed, astray, sourceCalls>>

NoNumber == 0
Plain == {"settings", "properties", "muted", "mixers"}
Attributes == Plain \cup {"name", "filters"}
Numbers == 1..MaxSources
Given == DOMAIN source
IsFilter(s) == source[s].kind = "filter"
FiltersOf(s) == source[s].value["filters"]
\* A source is there as long as someone refers to it.
Alive(s) == s \in own \/ \E p \in own \cap Given : s \in Range(FiltersOf(p))
Inputs == {s \in own : ~IsFilter(s)}
Remembered(s) == entry[s].known
Forgotten == [known |-> FALSE]

CacheTypeOK ==
    /\ source \in Seq([kind : {"input", "filter"}, type : Types, value : [Attributes -> {0} \cup SourceValues \cup Names \cup Seq(Numbers)]])
    /\ own \subseteq Given
    /\ DOMAIN entry = Given
    /\ byName \in [Names -> Numbers \cup {NoNumber}]
    /\ removed \subseteq Given
    /\ astray \subseteq Numbers \X Attributes
    /\ sourceCalls \in 0..MaxSourceCalls

sourceCalled == sourceCalls < MaxSourceCalls /\ sourceCalls' = sourceCalls + 1

-----------------------------------------------------------------------------
(* Sources are made. *)

NewSource(kind, type, name, v) ==
    [kind |-> kind, type |-> type,
     value |-> [f \in Attributes |-> CASE f = "name" -> name
                                   [] f = "filters" -> <<>>
                                   [] f = "muted" -> 0
                                   [] OTHER -> v]]
New == Len(source) + 1

\* All flags are set at first; an empty value is never taken for an answer.
NewEntry(name, known, v) ==
    [known |-> TRUE, changed |-> Attributes \ {"name"},
     value |-> [f \in Attributes |-> CASE f = "name" -> name
                                   [] f = "filters" -> <<>>
                                   [] f \in known -> v
                                   [] OTHER -> 0]]
StoreEntry(name, e) ==
    /\ entry' = Append(entry, e)
    /\ byName' = [byName EXCEPT ![name] = New]

\* libobs may give a public source another name than the one asked for.
Creates(kind, public, known) ==
    /\ sourceCalled /\ New <= MaxSources
    /\ \E type \in Types, v \in SourceValues, asked \in Names :
          \E name \in IF public THEN Names ELSE {asked} :
             /\ source' = Append(source, NewSource(kind, type, name, v))
             /\ StoreEntry(asked, NewEntry(asked, known, v))
             /\ astray' = IF name = asked THEN astray ELSE astray \cup {<<New, "name">>}
    /\ own' = own \cup {New}
    /\ UNCHANGED removed

InputCreate == Creates("input", TRUE, {"settings", "mixers"})
FilterCreate == Creates("filter", FALSE, {})
TransitionCreate == Creates("input", TRUE, {})
SceneCreate == Creates("input", TRUE, {})

\* The client reads settings and mixers that the server's answer does not hold.
CreatePrivate ==
    /\ sourceCalled /\ New <= MaxSources
    /\ \E type \in Types, v, junk \in SourceValues, name \in Names :
          /\ source' = Append(source, NewSource("input", type, name, v))
          /\ StoreEntry(name, NewEntry(name, {"settings", "mixers"}, junk))
    /\ own' = own \cup {New}
    /\ UNCHANGED <<removed, astray>>

\* A copy has a number of its own and no entry.
DuplicateSource(s) ==
    /\ sourceCalled /\ New <= MaxSources /\ s \in Inputs
    /\ \E name \in Names : source' = Append(source, [source[s] EXCEPT !.value["name"] = name])
    /\ entry' = Append(entry, Forgotten)
    /\ own' = own \cup {New}
    /\ UNCHANGED <<byName, removed, astray>>

\* Every source of Present was just made, in this order, under its own name.
CacheInit ==
    /\ source = [s \in DOMAIN Present |->
                   NewSource(Present[s].kind, Present[s].type, Present[s].name, 0)]
    /\ own = DOMAIN Present
    /\ entry = [s \in DOMAIN Present |-> NewEntry(Present[s].name, {}, 0)]
    /\ byName = [n \in Names |-> LET s == SelectLastInSeq(Present, LAMBDA p : p.name = n)
                                 IN  IF s = 0 THEN NoNumber ELSE s]
    /\ removed = {}
    /\ astray = {}
    /\ sourceCalls = 0

-----------------------------------------------------------------------------
(* Reading. *)

\* The name is asked for once, and empty properties are asked for each time.
sourceAnswered(s, f) ==
    /\ Remembered(s)
    /\ f \notin entry[s].changed
    /\ f = "properties" => entry[s].value[f] # 0

\* A source that has an entry keeps it, with what it says and its flags changed.
Keeps(s, says, changed) ==
    entry' = IF ~Remembered(s) THEN entry
             ELSE [entry EXCEPT ![s] = [known |-> TRUE, value |-> says, changed |-> changed]]
Read(s, f, flagged) ==
    Keeps(s, [entry[s].value EXCEPT ![f] = source[s].value[f]],
          IF flagged THEN entry[s].changed \cup {f} ELSE entry[s].changed \ {f})
Gets(s, f) == sourceCalled /\ Alive(s) /\ ~sourceAnswered(s, f)
TypeIn(s, types) == Remembered(s) /\ source[s].type \in types

\* The settings of a screen_capture and of a vst_filter are read each time,
\* as are the properties of a game_capture.
GetSettings(s) ==
    /\ Gets(s, "settings")
    /\ Read(s, "settings", TypeIn(s, RestlessSettings))
    /\ astray' = astray \ {<<s, "settings">>}
    /\ UNCHANGED <<source, own, byName, removed>>

Applied(s, f, v) == source' = [source EXCEPT ![s].value[f] = v]

\* The callbacks that make the properties may change the settings, which the
\* client does not expect of a getter.
Properties(s) ==
    \/ source' = source /\ astray' = astray
    \/ /\ \E v \in SourceValues : Applied(s, "settings", v)
       /\ astray' = astray \cup {<<s, "settings">>}
GetProperties(s) ==
    /\ Gets(s, "properties")
    /\ Properties(s)
    /\ Read(s, "properties", TypeIn(s, RestlessProperties))
    /\ UNCHANGED <<own, byName, removed>>

GetMuted(s) ==
    /\ Gets(s, "muted") /\ Read(s, "muted", FALSE)
    /\ UNCHANGED <<source, own, byName, removed, astray>>
GetAudioMixers(s) ==
    /\ Gets(s, "mixers") /\ Read(s, "mixers", FALSE)
    /\ UNCHANGED <<source, own, byName, removed, astray>>
Filters(s) ==
    /\ Gets(s, "filters") /\ s \in Inputs /\ Read(s, "filters", FALSE)
    /\ astray' = astray \ {<<s, "filters">>}
    /\ UNCHANGED <<source, own, byName, removed>>

-----------------------------------------------------------------------------
(* Writing. *)

WritesTo(s) == sourceCalled /\ Alive(s)
Configured(s, v, w) ==
    source' = [source EXCEPT ![s].value = [@ EXCEPT !["settings"] = v, !["properties"] = w]]
Flag(s, fs) == Keeps(s, entry[s].value, entry[s].changed \cup fs)

\* libobs merges what it is given into the settings, and the properties follow;
\* the entry takes the merged settings.
Update(s) ==
    /\ WritesTo(s)
    /\ \E v, w \in SourceValues :
          /\ Configured(s, v, w)
          /\ Keeps(s, [entry[s].value EXCEPT !["settings"] = v],
                   LET flagged == entry[s].changed \cup {"properties"}
                   IN  IF TypeIn(s, RestlessSettings) THEN flagged \cup {"settings"}
                                                      ELSE flagged \ {"settings"})
    /\ astray' = astray \ {<<s, "settings">>}
    /\ UNCHANGED <<own, byName, removed>>

SetMuted(s, v) ==
    /\ WritesTo(s) /\ Applied(s, "muted", v) /\ Flag(s, {"muted"})
    /\ UNCHANGED <<own, byName, removed, astray>>
SetAudioMixers(s, v) ==
    /\ WritesTo(s) /\ Applied(s, "mixers", v) /\ Flag(s, {"mixers"})
    /\ UNCHANGED <<own, byName, removed, astray>>

\* The entry keeps the old name.
SetName(s, name) ==
    /\ WritesTo(s) /\ Applied(s, "name", name)
    /\ astray' = astray \cup {<<s, "name">>}
    /\ UNCHANGED <<own, entry, byName, removed>>

\* A change to a property or a click on one may change both; a click whose
\* second call fails clears the flag of the settings.
Modified(s) ==
    /\ WritesTo(s)
    /\ \E v, w \in SourceValues : Configured(s, v, w)
    /\ Flag(s, {"settings", "properties"})
    /\ UNCHANGED <<own, byName, removed, astray>>
ButtonClicked(s) ==
    /\ WritesTo(s)
    /\ \E v, w \in SourceValues : Configured(s, v, w)
    /\ \/ Flag(s, {"settings", "properties"}) /\ astray' = astray
       \/ /\ Keeps(s, entry[s].value, (entry[s].changed \cup {"properties"}) \ {"settings"})
          /\ astray' = astray \cup {<<s, "settings">>}
    /\ UNCHANGED <<own, byName, removed>>

\* What libobs changes on its own.
Change(s) ==
    /\ sourceCalled /\ Alive(s) /\ source[s].type \in DOMAIN Restless
    /\ \E v \in SourceValues : Applied(s, Restless[source[s].type], v)
    /\ UNCHANGED <<own, entry, byName, removed, astray>>

-----------------------------------------------------------------------------
(* Filters. *)

Filtered(s, fs) == Applied(s, "filters", fs) /\ Flag(s, {"filters"})
                   /\ UNCHANGED <<own, byName, removed, astray>>
addFilterTrusting(s, filter) ==
    /\ sourceCalled /\ s \in Inputs
    /\ IsFilter(filter) /\ filter \in own /\ \A p \in Given : filter \notin Range(FiltersOf(p))
    /\ Applied(s, "filters", Append(FiltersOf(s), filter))
    /\ UNCHANGED <<own, entry, byName, removed, astray>>
AddFilter(s, filter) ==
    /\ sourceCalled /\ s \in Inputs
    /\ IsFilter(filter) /\ filter \in own /\ \A p \in Given : filter \notin Range(FiltersOf(p))
    /\ Filtered(s, Append(FiltersOf(s), filter))
RemoveFilter(s, filter) ==
    /\ sourceCalled /\ s \in Inputs /\ filter \in Range(FiltersOf(s))
    /\ Filtered(s, RemoveFirst(FiltersOf(s), filter))
SetFilterOrder(s) ==
    /\ sourceCalled /\ s \in Inputs
    /\ \E fs \in SetToSeqs(Range(FiltersOf(s))) : Filtered(s, fs)

\* The copies have numbers and no entries; nobody flags the destination.
CopyFilters(from, to) ==
    /\ sourceCalled /\ from \in Inputs /\ to \in Inputs /\ from # to
    /\ LET fs == FiltersOf(from)
           copies == [n \in DOMAIN fs |-> Len(source) + n]
       IN  /\ fs # <<>> /\ Len(source) + Len(fs) <= MaxSources
           /\ source' = [source EXCEPT ![to].value["filters"] = @ \o copies]
                          \o [n \in DOMAIN fs |-> source[fs[n]]]
           /\ own' = own \cup Range(copies)
           /\ entry' = entry \o [n \in DOMAIN fs |-> Forgotten]
    /\ astray' = astray \cup {<<to, "filters">>}
    /\ UNCHANGED <<byName, removed>>

-----------------------------------------------------------------------------
(* Ends. *)

\* The client forgets the source first, under the name it made it with.
SourceRemove(s) ==
    /\ sourceCalled /\ s \in own
    /\ own' = own \ {s}
    /\ entry' = [entry EXCEPT ![s] = Forgotten]
    /\ byName' = IF Remembered(s) THEN [byName EXCEPT ![entry[s].value["name"]] = NoNumber] ELSE byName
    /\ removed' = removed \cup {s}
    /\ UNCHANGED <<source, astray>>

\* The entry of a released source stays.
Release(s) ==
    /\ sourceCalled /\ s \in own
    /\ own' = own \ {s}
    /\ UNCHANGED <<source, entry, byName, removed, astray>>

-----------------------------------------------------------------------------
CacheNext ==
    \/ InputCreate \/ FilterCreate \/ TransitionCreate \/ SceneCreate \/ CreatePrivate
    \/ \E s \in Given :
          \/ DuplicateSource(s)
          \/ GetSettings(s) \/ GetProperties(s) \/ GetMuted(s) \/ GetAudioMixers(s) \/ Filters(s)
          \/ Update(s) \/ Modified(s) \/ ButtonClicked(s) \/ Change(s)
          \/ \E v \in SourceValues : SetMuted(s, v) \/ SetAudioMixers(s, v)
          \/ \E name \in Names : SetName(s, name)
          \/ \E filter \in Given : AddFilter(s, filter) \/ RemoveFilter(s, filter) \/ CopyFilters(s, filter)
          \/ SetFilterOrder(s)
          \/ SourceRemove(s) \/ Release(s)

CacheSpec == CacheInit /\ [][CacheNext]_cacheVars

-----------------------------------------------------------------------------
\* Outside the changes that go past the flags (astray names each of them), what
\* a getter answers from the entry is what the server has, and no name leads
\* FromName to a source that the client removed, whatever has taken it since.
EntriesTrue ==
    /\ \A n \in Names : byName[n] \notin removed
    /\ \A s \in Given : Alive(s) =>
       \A f \in Attributes : sourceAnswered(s, f) /\ <<s, f>> \notin astray =>
          entry[s].value[f] = source[s].value[f]
=============================================================================
