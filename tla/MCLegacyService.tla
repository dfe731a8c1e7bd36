--------------------------- MODULE MCLegacyService ---------------------------
(* One stream, and a frontend that starts it again as soon as it has read    *)
(* the signals of its end.                                                   *)
EXTENDS LegacyService

PlainConfigs ==
    {[simple |-> TRUE, compatible |-> TRUE, usesStream |-> TRUE, lossless |-> FALSE, multitrack |-> FALSE,
      twitch |-> TRUE, vod |-> TRUE, multipleRendering |-> FALSE, replayOfRecording |-> TRUE]}
OneStream == {{main}}
=============================================================================
