-------------------------- MODULE PropertySamples --------------------------
(* What libobs may offer, for the small instance of PropertyCodec.           *)
EXTENDS Integers, Sequences, TLC

\* Properties of every type and format, with empty and other texts, with an
\* enabled and a disabled list, and numbers that an int does not hold.
Named(n, on, p) ==
    p @@ [name |-> n, description |-> IF on THEN "d" ELSE "", long_description |-> IF on THEN "" ELSE "l",
          enabled |-> on, visible |-> ~on]
ListOf(format, items, v) ==
    [type |-> "List", field_type |-> "List", format |-> format, items |-> items, value |-> v]
Item(n, off, v) == [name |-> n, disabled |-> off, value |-> v]
Check == Named("check", TRUE, [type |-> "Boolean", value |-> TRUE])
Choice == Named("choice", FALSE, ListOf("Integer", << Item("i", TRUE, 1), Item("", TRUE, -2) >>, 5))
SomeOffers == <<
    Check,
    Named("count", FALSE, [type |-> "Integer", field_type |-> "Slider", minimum |-> 0, maximum |-> 3, step |-> 1, value |-> 5]),
    Named("ratio", TRUE, [type |-> "Float", field_type |-> "Scroller", minimum |-> 0, maximum |-> 3, step |-> 1, value |-> 2]),
    Named("note", TRUE, [type |-> "Text", field_type |-> "Default", info_type |-> "Error", value |-> "t"]),
    Named("empty", FALSE, [type |-> "Text", field_type |-> "Password", info_type |-> "Normal", value |-> ""]),
    Named("file", TRUE, [type |-> "Path", field_type |-> "File", filter |-> "f", default_path |-> "", value |-> "v"]),
    Choice,
    Named("pick", TRUE, ListOf("String", << Item("s", FALSE, ""), Item("u", FALSE, "w") >>, "w")),
    Named("rate", TRUE, ListOf("Float", << Item("s", FALSE, 1) >>, 1)),
    Named("flag", TRUE, ListOf("Bool", << Item("s", FALSE, 1) >>, 0)),
    Named("bad", TRUE, ListOf("Invalid", << Item("s", FALSE, 1) >>, 0)),
    Named("mixed", TRUE, ListOf("String", << Item("s", TRUE, "x"), Item("u", FALSE, "w") >>, "w")),
    Named("tint", TRUE, [type |-> "ColorAlpha", field_type |-> "Scroller", value |-> 7]),
    Named("grab", FALSE, [type |-> "Capture", field_type |-> "Scroller", value |-> 1]),
    Named("press", TRUE, [type |-> "Button"]),
    Named("font", TRUE, [type |-> "Font", face |-> "a", style |-> "", path |-> "p", size |-> 3, flags |-> 1]),
    Named("songs", FALSE, [type |-> "EditableList", field_type |-> "Files", filter |-> "", default_path |-> "q", values |-> <<"x", "", "y">>]),
    Named("fps", TRUE, [type |-> "FrameRate", ranges |-> << [minimum |-> <<1, 1>>, maximum |-> <<3, 1>>], [minimum |-> <<1, 2>>, maximum |-> <<2, 2>>] >>,
                        options |-> << [name |-> "", description |-> ""] >>, current_numerator |-> 2, current_denominator |-> 1]),
    Named("fps2", FALSE, [type |-> "FrameRate", ranges |-> <<>>, options |-> << [name |-> "n", description |-> "m"] >>,
                          current_numerator |-> 2, current_denominator |-> 1]),
    [type |-> "Group", content |-> << Check, [type |-> "Group", content |-> << Choice >>], [type |-> "Unknown"] >>],
    [type |-> "Group", content |-> <<>>]
>>
=============================================================================
