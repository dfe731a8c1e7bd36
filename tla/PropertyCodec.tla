--------------------------- MODULE PropertyCodec ---------------------------
(* How the properties that libobs offers for a source, an encoder or a        *)
(* service reach JavaScript: the server turns each into an obs::Property and  *)
(* writes it field by field into a buffer of exactly its size; the client     *)
(* reads the fields back in the order it expects them, and keeps a map of     *)
(* osn::Property that the JavaScript objects walk.                            *)
(*                                                                            *)
(* A buffer is a sequence of cells, one per number or text that is copied; a  *)
(* text takes a cell for its size and, unless empty, one for its characters.  *)
(* A reader that is not where the writer was finds Junk.                      *)
EXTENDS Integers, Sequences, SequencesExt, TLC

CONSTANTS
    Offers,     \* what libobs may offer: records as in the MC module
    MaxOffers,  \* bound: properties offered together
    Half,       \* bound: an int holds -Half .. Half - 1 (2^31 in the build)
    Junk        \* what a reader finds at the wrong place

VARIABLES
    offered,    \* the properties that libobs offers, in order
    wire,       \* the buffers of the server's answer
    pmap,       \* the client's property map: keys from 0
    cursor      \* the key of the JavaScript property object at hand, or -1
vars == <<offered, wire, pmap, cursor>>

-----------------------------------------------------------------------------
(* The server's obs::Property.                                               *)
ToInt(v) == ((v + Half) % (2 * Half)) - Half

\* A property of libobs as the server's handlers copy it; one of an unknown
\* type or a group has none of its own.
toProperty(p) ==
    CASE p.type = "Integer" -> [p EXCEPT !.value = ToInt(@)]
      [] p.type \in {"Color", "ColorAlpha"} -> [p EXCEPT !.type = "Color", !.value = ToInt(@)]
      [] p.type = "Capture" -> [p EXCEPT !.value = ToInt(@)]
      [] p.type = "Font" -> [p EXCEPT !.size = ToInt(@)]
      [] p.type = "List" ->
           [p EXCEPT !.items = [i \in DOMAIN @ |->
                                  [name |-> @[i].name, enabled |-> ~@[i].disabled, value |-> @[i].value]],
                     !.value = IF p.format = "Integer" THEN ToInt(@) ELSE @]
      [] OTHER -> p

\* Groups are replaced by what they hold.
RECURSIVE ungroup(_)
ungroup(ps) ==
    FlattenSeq([i \in DOMAIN ps |-> CASE ps[i].type = "Group" -> ungroup(ps[i].content)
                                      [] ps[i].type = "Unknown" -> <<>>
                                      [] OTHER -> <<ps[i]>>])

-----------------------------------------------------------------------------
(* Writing.                                                                  *)
Length(s) == IF s = "" THEN 0 ELSE 1
Cell(kind, v) == <<[kind |-> kind, v |-> v]>>
U8(v) == Cell("u8", v)
U32(v) == Cell("u32", v)
I64(v) == Cell("i64", v)
F64(v) == Cell("f64", v)
Text(s) == Cell("size", Length(s)) \o (IF s = "" THEN <<>> ELSE Cell("chars", s))
Count(s) == Cell("size", Len(s))
Each(s, Write(_)) == FlattenSeq([i \in DOMAIN s |-> Write(s[i])])

serializeProperty(p) ==
    U8(p.type) \o Text(p.name) \o Text(p.description) \o Text(p.long_description)
      \o U8(p.enabled) \o U8(p.visible)
serializeBoolean(p) == U8(p.value)
serializeNumber(p) == U8(p.field_type)
serializeInteger(p) == serializeNumber(p) \o I64(p.minimum) \o I64(p.maximum) \o I64(p.step) \o I64(p.value)
serializeFloat(p) == serializeNumber(p) \o F64(p.minimum) \o F64(p.maximum) \o F64(p.step) \o F64(p.value)
serializeText(p) == U8(p.field_type) \o U8(p.info_type) \o Text(p.value)
serializePath(p) == U8(p.field_type) \o Text(p.filter) \o Text(p.default_path) \o Text(p.value)

FormatCell(format, v) ==
    CASE format \in {"Integer", "Bool"} -> I64(v)
      [] format = "Float" -> F64(v)
      [] format = "String" -> Text(v)
      [] format = "Invalid" -> <<>>
\* The flag of an item that is written is the one of the property.
serializeList(p) ==
    LET Item(e) == Text(e.name) \o U8(p.enabled) \o FormatCell(p.format, e.value)
    IN  U8(p.field_type) \o U8(p.format) \o Count(p.items) \o Each(p.items, Item)
          \o FormatCell(p.format, p.value)

serializeColor(p) == serializeNumber(p) \o I64(p.value)
serializeCapture(p) == serializeNumber(p) \o I64(p.value)
serializeFont(p) == Text(p.face) \o Text(p.style) \o Text(p.path) \o I64(p.size) \o U32(p.flags)
serializeEditableList(p) ==
    U8(p.field_type) \o Text(p.filter) \o Text(p.default_path) \o Count(p.values) \o Each(p.values, Text)
serializeFrameRate(p) ==
    LET Span(r) == U32(r.minimum[1]) \o U32(r.minimum[2]) \o U32(r.maximum[1]) \o U32(r.maximum[2])
        Option(o) == Text(o.name) \o Text(o.description)
    IN  Count(p.ranges) \o Each(p.ranges, Span) \o Count(p.options) \o Each(p.options, Option)
          \o U32(p.current_numerator) \o U32(p.current_denominator)

serialize(p) ==
    serializeProperty(p) \o
    CASE p.type = "Boolean" -> serializeBoolean(p)
      [] p.type = "Integer" -> serializeInteger(p)
      [] p.type = "Float" -> serializeFloat(p)
      [] p.type = "Text" -> serializeText(p)
      [] p.type = "Path" -> serializePath(p)
      [] p.type = "List" -> serializeList(p)
      [] p.type = "Color" -> serializeColor(p)
      [] p.type = "Capture" -> serializeCapture(p)
      [] p.type = "Button" -> <<>>
      [] p.type = "Font" -> serializeFont(p)
      [] p.type = "EditableList" -> serializeEditableList(p)
      [] p.type = "FrameRate" -> serializeFrameRate(p)

\* Writing a list of an invalid format reports a failure, and the list is not sent.
Writable(p) == p.type = "List" => p.format # "Invalid"

-----------------------------------------------------------------------------
(* The bytes a property says it takes, which is what its buffer has.         *)
TextSize(s) == 8 + Length(s)
Total(s, Size(_)) == FoldLeft(LAMBDA sum, e : sum + Size(e), 0, s)
sizeProperty(p) == 1 + TextSize(p.name) + TextSize(p.description) + TextSize(p.long_description) + 2
sizeNumber == 1
sizeText(p) == 1 + 1 + TextSize(p.value)
sizePath(p) == 1 + TextSize(p.filter) + TextSize(p.default_path) + TextSize(p.value)
FormatSize(format, v) ==
    CASE format \in {"Integer", "Float", "Bool"} -> 8
      [] format = "String" -> TextSize(v)
      [] OTHER -> 0
\* Mutant: the byte of an item's flag is not counted.
sizeListNoFlag(p) ==
    LET Item(e) == TextSize(e.name) + FormatSize(p.format, e.value)
    IN  1 + 1 + 8 + Total(p.items, Item) + FormatSize(p.format, p.value)
sizeList(p) ==
    LET Item(e) == TextSize(e.name) + 1 + FormatSize(p.format, e.value)
    IN  1 + 1 + 8 + Total(p.items, Item) + FormatSize(p.format, p.value)
sizeFont(p) == TextSize(p.face) + TextSize(p.style) + TextSize(p.path) + 8 + 4
sizeEditableList(p) ==
    1 + TextSize(p.filter) + TextSize(p.default_path) + 8 + Total(p.values, TextSize)
sizeFrameRate(p) ==
    LET Option(o) == TextSize(o.name) + TextSize(o.description)
    IN  8 + 4 * 4 * Len(p.ranges) + 8 + Total(p.options, Option) + 4 + 4

sizeOf(p) ==
    sizeProperty(p) +
    CASE p.type = "Boolean" -> 1
      [] p.type \in {"Integer", "Float"} -> sizeNumber + 8 * 4
      [] p.type = "Text" -> sizeText(p)
      [] p.type = "Path" -> sizePath(p)
      [] p.type = "List" -> sizeList(p)
      [] p.type \in {"Color", "Capture"} -> sizeNumber + 8
      [] p.type = "Button" -> 0
      [] p.type = "Font" -> sizeFont(p)
      [] p.type = "EditableList" -> sizeEditableList(p)
      [] p.type = "FrameRate" -> sizeFrameRate(p)

Width == [u8 |-> 1, u32 |-> 4, i64 |-> 8, f64 |-> 8, size |-> 8, chars |-> 1]
Bytes(buf) == Total(buf, LAMBDA cell : Width[cell.kind])

-----------------------------------------------------------------------------
(* Reading.  A reader's state is the cell it is at and the fields it has.    *)
Field(kind, name) == [kind |-> kind, name |-> name]
At(buf, k) == IF k \in DOMAIN buf THEN buf[k] ELSE [kind |-> "end", v |-> Junk]
Got(r, name, v, steps) == [at |-> r.at + steps, got |-> r.got @@ (name :> v)]

Take(buf, r, f) ==
    LET cell == At(buf, r.at)
        sized == cell.kind = "size"
        chars == IF sized /\ cell.v = 0 THEN "" ELSE At(buf, r.at + 1).v
    IN  CASE f.kind = "text" /\ sized -> Got(r, f.name, chars, IF cell.v = 0 THEN 1 ELSE 2)
          [] f.kind = "text, left there" /\ sized -> Got(r, f.name, chars, 1)
          [] OTHER -> Got(r, f.name, IF cell.kind = f.kind THEN cell.v ELSE Junk, 1)
Takes(buf, r, fields) == FoldLeft(LAMBDA s, f : Take(buf, s, f), r, fields)
TakeEach(buf, r, name, fields) ==
    LET counted == At(buf, r.at)
        times == IF counted.kind = "size" THEN counted.v ELSE 0
        one(s, i) == LET t == Takes(buf, [at |-> s.at, got |-> <<>>], fields)
                     IN  [at |-> t.at, got |-> [s.got EXCEPT ![name] = Append(@, t.got)]]
    IN  FoldLeft(one, Got(r, name, <<>>, 1), [i \in 1 .. times |-> i])

readProperty(buf) ==
    Takes(buf, [at |-> 2, got |-> "type" :> buf[1].v],
          << Field("text", "name"), Field("text", "description"), Field("text", "long_description"),
             Field("u8", "enabled"), Field("u8", "visible") >>)
readBoolean(buf, r) == Take(buf, r, Field("u8", "value"))
readNumber(buf, r) == Take(buf, r, Field("u8", "field_type"))
readInteger(buf, r) ==
    Takes(buf, readNumber(buf, r), << Field("i64", "minimum"), Field("i64", "maximum"),
                                      Field("i64", "step"), Field("i64", "value") >>)
readFloat(buf, r) ==
    Takes(buf, readNumber(buf, r), << Field("f64", "minimum"), Field("f64", "maximum"),
                                      Field("f64", "step"), Field("f64", "value") >>)
readText(buf, r) ==
    Takes(buf, r, << Field("u8", "field_type"), Field("u8", "info_type"), Field("text", "value") >>)
\* Mutant: the default path is read before the filter.
readPathSwapped(buf, r) ==
    Takes(buf, r, << Field("u8", "field_type"), Field("text", "default_path"),
                     Field("text", "filter"), Field("text", "value") >>)
readPath(buf, r) ==
    Takes(buf, r, << Field("u8", "field_type"), Field("text", "filter"),
                     Field("text", "default_path"), Field("text", "value") >>)
FormatFields(format) ==
    CASE format \in {"Integer", "Bool"} -> << Field("i64", "value") >>
      [] format = "Float" -> << Field("f64", "value") >>
      [] format = "String" -> << Field("text", "value") >>
      [] OTHER -> <<>>
readList(buf, r) ==
    LET head == Takes(buf, r, << Field("u8", "field_type"), Field("u8", "format") >>)
        tail == FormatFields(head.got.format)
        item == << Field("text", "name"), Field("u8", "enabled") >> \o tail
    IN  Takes(buf, TakeEach(buf, head, "items", item), tail)
readColor(buf, r) == Take(buf, readNumber(buf, r), Field("i64", "value"))
readCapture(buf, r) == Take(buf, readNumber(buf, r), Field("i64", "value"))
readFont(buf, r) ==
    Takes(buf, r, << Field("text", "face"), Field("text", "style"), Field("text", "path"),
                     Field("i64", "size"), Field("u32", "flags") >>)
readEditableList(buf, r) ==
    LET head == Takes(buf, r, << Field("u8", "field_type"), Field("text", "filter"), Field("text", "default_path") >>)
    IN  TakeEach(buf, head, "values", << Field("text", "value") >>)
\* The texts of an option are copied, and the reader stays at their characters.
readFrameRate(buf, r) ==
    LET range == << Field("u32", "minimum_numerator"), Field("u32", "minimum_denominator"),
                    Field("u32", "maximum_numerator"), Field("u32", "maximum_denominator") >>
        option == << Field("text, left there", "name"), Field("text, left there", "description") >>
        ranges == TakeEach(buf, r, "ranges", range)
    IN  Takes(buf, TakeEach(buf, ranges, "options", option),
              << Field("u32", "current_numerator"), Field("u32", "current_denominator") >>)

deserialize(buf) ==
    LET r == readProperty(buf)
        type == buf[1].v
    IN  CASE type = "Boolean" -> readBoolean(buf, r).got
          [] type = "Integer" -> readInteger(buf, r).got
          [] type = "Float" -> readFloat(buf, r).got
          [] type = "Text" -> readText(buf, r).got
          [] type = "Path" -> readPath(buf, r).got
          [] type = "List" -> readList(buf, r).got
          [] type = "Color" -> readColor(buf, r).got
          [] type = "Capture" -> readCapture(buf, r).got
          [] type = "Button" -> r.got
          [] type = "Font" -> readFont(buf, r).got
          [] type = "EditableList" -> readEditableList(buf, r).got
          [] type = "FrameRate" -> readFrameRate(buf, r).got

-----------------------------------------------------------------------------
(* The client's osn::Property and what its JavaScript object answers.        *)
\* A frame rate becomes a list of texts, one for the fastest of each range.
osnFrameRate(q) ==
    [type |-> "List", field_type |-> "List", format |-> "String",
     value |-> <<q.current_numerator, q.current_denominator>>,
     items |-> [i \in DOMAIN q.ranges |->
                  [name |-> q.ranges[i].maximum_numerator \div q.ranges[i].maximum_denominator, enabled |-> TRUE,
                   value |-> <<q.ranges[i].maximum_numerator, q.ranges[i].maximum_denominator>>]],
     name |-> q.name, description |-> q.description, long_description |-> q.long_description,
     enabled |-> q.enabled, visible |-> q.visible]
osnProperty(q) == IF q.type = "FrameRate" THEN osnFrameRate(q) ELSE q

GetValue(o) ==
    CASE o.type \in {"Boolean", "Integer", "Float", "Color", "Text", "Path", "List"} -> o.value
      [] o.type = "EditableList" -> [i \in DOMAIN o.values |-> o.values[i].value]
      [] o.type = "Font" -> [face |-> o.face, style |-> o.style, path |-> o.path, size |-> o.size, flags |-> o.flags]
      [] OTHER -> "undefined"
GetDetails(o) ==
    CASE o.type \in {"Integer", "Float"} ->
           [type |-> o.field_type, min |-> o.minimum, max |-> o.maximum, step |-> o.step]
      [] o.type = "Text" -> [type |-> o.field_type, infoType |-> o.info_type]
      [] o.type \in {"Path", "EditableList"} ->
           [type |-> o.field_type, filter |-> o.filter, defaultPath |-> o.default_path]
      [] o.type = "List" -> [type |-> o.field_type, format |-> o.format, items |-> o.items]
      [] OTHER -> <<>>
Shown(o) ==
    [name |-> o.name, description |-> o.description, longDescription |-> o.long_description,
     enabled |-> o.enabled, visible |-> o.visible, type |-> o.type,
     value |-> GetValue(o), details |-> GetDetails(o)]

-----------------------------------------------------------------------------
(* The calls.                                                                *)
Init ==
    /\ offered \in UNION {[1 .. n -> DOMAIN Offers] : n \in 0 .. MaxOffers}
    /\ wire = <<>>
    /\ pmap = <<>>
    /\ cursor = -1

Sent == LET all == ungroup([i \in DOMAIN offered |-> Offers[offered[i]]])
        IN  SelectSeq([i \in DOMAIN all |-> toProperty(all[i])], Writable)

\* The server answers "GetProperties".
ServerProcessProperties ==
    /\ wire = <<>>
    /\ wire' = [i \in DOMAIN Sent |-> serialize(Sent[i])]
    /\ UNCHANGED <<offered, pmap, cursor>>

\* The client reads the answer, from its second value on.
ClientProcessProperties ==
    /\ wire # <<>> /\ pmap = <<>>
    /\ pmap' = [key \in 0 .. Len(wire) - 1 |-> osnProperty(deserialize(wire[key + 1]))]
    /\ UNCHANGED <<offered, wire, cursor>>

Keys == DOMAIN pmap
FirstProperty ==
    /\ pmap # <<>>
    /\ cursor' = 0
    /\ UNCHANGED <<offered, wire, pmap>>
LastProperty ==
    /\ pmap # <<>>
    /\ cursor' = Len(wire) - 1
    /\ UNCHANGED <<offered, wire, pmap>>
Get(name) ==
    \E key \in Keys :
        /\ pmap[key].name = name
        /\ \A earlier \in 0 .. key - 1 : pmap[earlier].name # name
        /\ cursor' = key
        /\ UNCHANGED <<offered, wire, pmap>>
NextProperty ==
    /\ cursor + 1 \in Keys /\ cursor # -1
    /\ cursor' = cursor + 1
    /\ UNCHANGED <<offered, wire, pmap>>

Next ==
    \/ ServerProcessProperties
    \/ ClientProcessProperties
    \/ FirstProperty \/ LastProperty \/ NextProperty
    \/ \E key \in Keys : Get(pmap[key].name)
Spec == Init /\ [][Next]_vars

-----------------------------------------------------------------------------
(* Properties.                                                               *)
\* What libobs offers as JavaScript ought to see it.
Answer(p) ==
    LET none == [name |-> p.name, description |-> p.description, longDescription |-> p.long_description,
                 enabled |-> p.enabled, visible |-> p.visible, type |-> p.type,
                 value |-> "undefined", details |-> <<>>]
        range == [type |-> p.field_type, min |-> p.minimum, max |-> p.maximum, step |-> p.step]
        place == [type |-> p.field_type, filter |-> p.filter, defaultPath |-> p.default_path]
    IN  CASE p.type = "Boolean" -> [none EXCEPT !.value = p.value]
          [] p.type = "Integer" -> [none EXCEPT !.value = ToInt(p.value), !.details = range]
          [] p.type = "Float" -> [none EXCEPT !.value = p.value, !.details = range]
          [] p.type = "Text" ->
               [none EXCEPT !.value = p.value, !.details = [type |-> p.field_type, infoType |-> p.info_type]]
          [] p.type = "Path" -> [none EXCEPT !.value = p.value, !.details = place]
          [] p.type = "List" ->
               [none EXCEPT !.value = IF p.format = "Integer" THEN ToInt(p.value) ELSE p.value,
                            !.details = [type |-> p.field_type, format |-> p.format,
                                         items |-> [i \in DOMAIN p.items |->
                                                      [name |-> p.items[i].name, enabled |-> ~p.items[i].disabled,
                                                       value |-> p.items[i].value]]]]
          [] p.type \in {"Color", "ColorAlpha"} -> [none EXCEPT !.type = "Color", !.value = ToInt(p.value)]
          [] p.type = "Font" ->
               [none EXCEPT !.value = [face |-> p.face, style |-> p.style, path |-> p.path,
                                       size |-> ToInt(p.size), flags |-> p.flags]]
          [] p.type = "EditableList" -> [none EXCEPT !.value = p.values, !.details = place]
          [] p.type = "FrameRate" ->
               [none EXCEPT !.type = "List",
                  !.value = <<p.current_numerator, p.current_denominator>>,
                  !.details = [type |-> "List", format |-> "String",
                               items |-> [i \in DOMAIN p.ranges |->
                                            [name |-> p.ranges[i].maximum[1] \div p.ranges[i].maximum[2],
                                             enabled |-> TRUE, value |-> p.ranges[i].maximum]]]]
          [] OTHER -> none

\* What the conversion is known to lose: the flag of an item that differs from
\* the property's, and a frame rate that comes with named options.
Lossy(p) ==
    \/ p.type = "List" /\ \E i \in DOMAIN p.items : ~p.items[i].disabled # p.enabled
    \/ p.type = "FrameRate" /\ \E i \in DOMAIN p.options : p.options[i].name # "" \/ p.options[i].description # ""

\* No property is written past the end of the buffer it asked for, and none
\* leaves a part of it unwritten.
FitsBuffer == \A i \in DOMAIN wire : Bytes(wire[i]) = sizeOf(Sent[i])

\* The property object that JavaScript walks to tells of the property libobs
\* offered at that place: its type, its value and its details, whatever comes
\* before it in the answer.
ShownTrue ==
    LET all == SelectSeq(ungroup([i \in DOMAIN offered |-> Offers[offered[i]]]), Writable)
    IN  cursor # -1 /\ ~Lossy(all[cursor + 1]) => Shown(pmap[cursor]) = Answer(all[cursor + 1])

\* Writer, size and reader agree on every field of every type.
PropertiesArrive == FitsBuffer /\ ShownTrue
=============================================================================
