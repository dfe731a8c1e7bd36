--------------------------- MODULE MCClient ---------------------------
(* The client on small instances: what it tells of scene items, of sources    *)
(* and of properties, its runs of the auto-optimizer, and the streams and     *)
(* replay buffers it makes.  The five share no state, and a behaviour uses    *)
(* one of them.                                                              *)
EXTENDS OptimizerClient, SourceCache, SceneItems, StreamingOutputs, PropertySamples, TLC

CONSTANTS junk, simple, advanced, multitrack, simpleBuffer, advancedBuffer, twitch, youtube

VARIABLES part, offered, wire, pmap, cursor

\* libobs changes the properties of the one type of source and the settings of
\* the other on its own; two inputs and a filter were just made.
SelfChanging == "game_capture" :> "properties" @@ "screen_capture" :> "settings"
ThreeSources == << [kind |-> "input", type |-> "game_capture", name |-> "m"],
                   [kind |-> "filter", type |-> "screen_capture", name |-> "n"],
                   [kind |-> "input", type |-> "screen_capture", name |-> "n"] >>

\* One service sends over RTMP and caps what it is sent, the other over HLS.
TwoServices == twitch :> "RTMP" @@ youtube :> "HLS"

\* Each object by itself, and each kind of replay buffer with a stream to borrow
\* from; the calls that set something in each case.
ObjectsUsed == {simple} :> 2 @@ {advanced} :> 2 @@ {multitrack} :> 2 @@ {advancedBuffer} :> 2
               @@ {simple, simpleBuffer} :> 1 @@ {advanced, advancedBuffer} :> 1

Codec == INSTANCE PropertyCodec WITH
            Offers <- SomeOffers, MaxOffers <- 2, Half <- 4, Junk <- junk

codecVars == <<offered, wire, pmap, cursor>>

ClientInit ==
    /\ part \in {"items", "sources", "properties", "runs", "outputs"}
    /\ StreamsInit /\ (part # "outputs" => uses = {simple})
    /\ ItemsInit
    /\ CacheInit
    /\ Init
    /\ IF part = "properties" THEN Codec!Init
       ELSE offered = <<>> /\ wire = <<>> /\ pmap = <<>> /\ cursor = -1
ClientNext ==
    \/ part = "items" /\ ItemsNext /\ UNCHANGED <<part, cacheVars, codecVars, vars, streamVars>>
    \/ part = "sources" /\ CacheNext /\ UNCHANGED <<part, itemVars, codecVars, vars, streamVars>>
    \/ part = "properties" /\ Codec!Next /\ UNCHANGED <<part, itemVars, cacheVars, vars, streamVars>>
    \/ part = "runs" /\ Next /\ UNCHANGED <<part, itemVars, cacheVars, codecVars, streamVars>>
    \/ part = "outputs" /\ StreamsNext /\ UNCHANGED <<part, itemVars, cacheVars, codecVars, vars>>
ClientSpec == ClientInit /\ [][ClientNext]_<<part, itemVars, cacheVars, codecVars, vars, streamVars>>

PropertiesArrive == Codec!PropertiesArrive
=============================================================================
