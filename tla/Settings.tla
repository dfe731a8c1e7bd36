------------------------------ MODULE Settings ------------------------------
(* The settings pages.  A page is fetched as a form, a sequence of parameters *)
(* whose length depends on what is stored; the frontend changes a value and   *)
(* hands the whole form back; the save tells by the place of a parameter, by  *)
(* its name or by the place of its group where the value belongs.            *)
(*                                                                            *)
(* A call of the frontend is one action: nothing else changes the             *)
(* configuration between a fetch and the save of what was fetched.            *)
EXTENDS Integers, Sequences, SequencesExt

CONSTANTS
    Offered,    \* of every setting the values it may be given, with Default one of them
    Default,
    MaxSaves    \* bound: forms saved

VARIABLES
    stored,     \* the configuration, the encoders' files and the service: of every setting its value
    currentAudioSettings, \* the bitrate of a track when the page was last fetched or saved, or "none"
    streaming, recording, \* an output of the kind is active
    change,     \* history: the last save, [page, name, value, ok]
    typedFor,   \* history: the destination the stored key was typed for
    saves

vars == <<stored, currentAudioSettings, streaming, recording, change, typedFor, saves>>

Names == DOMAIN Offered
NoChange == [page |-> "none", name |-> "none", value |-> "none", ok |-> TRUE]

Init ==
    /\ stored = Default
    /\ currentAudioSettings = "none"
    /\ streaming = FALSE /\ recording = FALSE
    /\ change = NoChange
    /\ typedFor = <<"none", "none">>
    /\ saves = 0

If(condition, names) == IF condition THEN names ELSE <<>>
On(settings, n) == settings[n] = "on"
Place(form, n) == CHOOSE i \in 1 .. Len(form) + 1 : i > Len(form) \/ form[i] = n
Written(settings, names, values) == [n \in Names |-> IF n \in names THEN values[n] ELSE settings[n]]

-----------------------------------------------------------------------------
(* Output, advanced: the streaming page.                                      *)
isTwitch(settings) == settings["service"] = "Twitch"
StreamParams == <<"rate_control", "bitrate">>
RecordParams == <<"Recrate_control", "Recbitrate">>
defaultsOf(settings, params) == Written(settings, Range(params), Default)

TrackForm(s) ==
    <<"TrackIndex">>
    \o If(isTwitch(s), <<"VodTrackEnabled">> \o If(On(s, "VodTrackEnabled"), <<"VodTrackIndex">>))
RescaleForm(s) == <<"RescaleFilter">> \o If(s["RescaleFilter"] # "disable", <<"RescaleRes">>)
StreamingForm(s) == TrackForm(s) \o <<"Encoder", "ApplyServiceSettings">> \o RescaleForm(s) \o StreamParams

\* Mutant: the Twitch track's own parameter is not counted.
indexWithoutVod(s, form, values) ==
    LET index == 4 + (IF isTwitch(s) THEN 1 ELSE 0)
        rescaled == Place(form, "RescaleFilter") <= index /\ values["RescaleFilter"] # "disable"
    IN index + (IF rescaled THEN 1 ELSE 0)

\* indexEncoderSettings: how many parameters of the form are configuration; the
\* switches among them that are on in the form add to it as they are met.
streamIndex(s, form, values) ==
    LET twitch == isTwitch(s) /\ "VodTrackEnabled" \in Range(form)
        index == 4 + (IF isTwitch(s) THEN 1 ELSE 0)
                   + (IF twitch /\ On(values, "VodTrackEnabled") THEN 1 ELSE 0)
        rescaled == Place(form, "RescaleFilter") <= index /\ values["RescaleFilter"] # "disable"
    IN index + (IF rescaled THEN 1 ELSE 0)

\* What lands where it is looked for: configuration before the index, parameters
\* of the encoder after it.
Landing(form, index, params) ==
    {form[i] : i \in {j \in 1 .. Len(form) : (j > index) <=> (form[j] \in Range(params))}}

saveAdvancedOutputStreamingSettings(s, form, values) ==
    LET saved == Written(s, Landing(form, streamIndex(s, form, values), StreamParams), values)
    IN IF saved["Encoder"] # s["Encoder"] THEN defaultsOf(saved, StreamParams) ELSE saved

-----------------------------------------------------------------------------
(* Output, advanced: the recording page.                                      *)
FileForm == <<"RecType", "RecFilePath", "RecFileNameWithoutSpace", "RecFormat">>
CodecForm == <<"RecTracks", "RecEncoder", "RecAEncoder">>
RecRescaleForm(s) == <<"RecRescale">> \o If(On(s, "RecRescale"), <<"RecRescaleRes">>)
SplitForm(s) ==
    <<"RecSplitFile", "RecSplitFileType">>
    \o If(s["RecSplitFileType"] = "Time", <<"RecSplitFileTime">>)
    \o If(s["RecSplitFileType"] = "Size", <<"RecSplitFileSize">>)
    \o <<"RecSplitFileResetTimestamps">>
RecordingForm(s) ==
    FileForm \o CodecForm \o RecRescaleForm(s) \o <<"RecMuxerCustom">> \o SplitForm(s)
    \o If(s["RecEncoder"] # "none", RecordParams)

\* Parameters of the form that are not shown, so that nobody changes them.
Hidden(s) == IF On(s, "RecSplitFile") THEN {}
             ELSE {"RecSplitFileType", "RecSplitFileTime", "RecSplitFileSize", "RecSplitFileResetTimestamps"}

recordIndex(s, form, values) ==
    10 + (IF ~On(s, "RecSplitFile") THEN 0 ELSE IF s["RecSplitFileType"] = "Manual" THEN 3 ELSE 4)
       + (IF On(values, "RecRescale") THEN 1 ELSE 0)

IsMultitrackAudioSupported(format) == format # "flv"

\* Every container takes x264, and mkv takes every codec.
isEncoderCompatibleRecording(encoder, container) == container = "mkv" \/ encoder = "x264"

RecordingEncoder(s) == IF s["RecEncoder"] = "none" THEN s["Encoder"] ELSE s["RecEncoder"]

\* Mutant: the encoder of the stream is not looked at when neither the format
\* nor the encoder of the recording has changed.
repairIfChanged(before, s) ==
    IF isEncoderCompatibleRecording(RecordingEncoder(s), s["RecFormat"]) THEN s
    ELSE IF s["RecFormat"] # before["RecFormat"] THEN [s EXCEPT !["RecEncoder"] = "x264"]
    ELSE IF s["RecEncoder"] # before["RecEncoder"] THEN [s EXCEPT !["RecFormat"] = "mkv"]
    ELSE s

\* "keep the changed value and update anything incompatible with it"
repairRecording(before, s) ==
    LET useStream == s["RecEncoder"] = "none"
        encoderChanged == s["RecEncoder"] # before["RecEncoder"]
        formatChanged == s["RecFormat"] # before["RecFormat"]
        toMkv == encoderChanged \/ (useStream /\ ~formatChanged)
    IN IF isEncoderCompatibleRecording(RecordingEncoder(s), s["RecFormat"]) THEN s
       ELSE [s EXCEPT !["RecFormat"] = IF toMkv THEN "mkv" ELSE @,
                      !["RecEncoder"] = IF formatChanged THEN "x264" ELSE @]

saveAdvancedOutputRecordingSettings(s, form, values) ==
    LET landing == Landing(form, recordIndex(s, form, values), RecordParams)
        tracks == IF IsMultitrackAudioSupported(values["RecFormat"]) THEN values["RecTracks"] ELSE "1"
        saved == Written(s, landing, [values EXCEPT !["RecTracks"] = tracks])
        repaired == repairRecording(s, saved)
    IN IF saved["RecEncoder"] # s["RecEncoder"] THEN defaultsOf(repaired, RecordParams) ELSE repaired

-----------------------------------------------------------------------------
(* Output, advanced: an audio track and the replay buffer.                    *)
isSurround(s) == s["ChannelSetup"] # "Stereo"
Limited(s, bitrate) == IF ~isSurround(s) /\ bitrate = "640" THEN "320" ELSE bitrate

\* UpdateAudioSettings(true), on every fetch: what was fetched or saved last is
\* saved again if it is above the limit by now.
afterFetch(s) ==
    IF currentAudioSettings # "none" /\ Limited(s, currentAudioSettings) # currentAudioSettings
    THEN [s EXCEPT !["Track1Bitrate"] = Limited(s, currentAudioSettings)]
    ELSE s

ReplayForm(s, switch, time) == <<switch>> \o If(On(s, switch), <<time>>)

saveAdvancedOutputSettings(s, values) ==
    LET one == IF streaming THEN s ELSE saveAdvancedOutputStreamingSettings(s, StreamingForm(s), values)
        two == IF recording THEN one ELSE saveAdvancedOutputRecordingSettings(one, RecordingForm(s), values)
        audio == [two EXCEPT !["Track1Bitrate"] = Limited(s, values["Track1Bitrate"])]
    IN Written(audio, Range(ReplayForm(s, "RecRB", "RecRBTime")), values)

-----------------------------------------------------------------------------
(* Output, simple: every parameter is saved by its name.                     *)
SimpleForm(s) ==
    <<"VBitrate", "StreamEncoder", "ABitrate", "UseAdvanced">>
    \o If(On(s, "UseAdvanced"),
          <<"EnforceBitrate">>
          \o If(s["streamType"] = "rtmp_common" /\ isTwitch(s), <<"SimpleVodTrackEnabled">>)
          \o <<"Preset">>)
    \o <<"FilePath", "RecQuality", "SimpleRecFormat">>
    \o If(s["RecQuality"] = "Small", <<"SimpleRecEncoder">>)
    \o ReplayForm(s, "SimpleRecRB", "SimpleRecRBTime")

SimpleEncoder(s) == IF s["RecQuality"] = "Stream" THEN s["StreamEncoder"] ELSE s["SimpleRecEncoder"]

repairSimpleRecording(before, s) ==
    LET useStream == s["RecQuality"] = "Stream"
        changed(n) == s[n] # before[n]
        toMkv == \/ changed("SimpleRecEncoder")
                 \/ useStream /\ (changed("StreamEncoder") \/ changed("RecQuality"))
        toX264 == changed("SimpleRecFormat") \/ (changed("RecQuality") /\ ~useStream)
    IN IF isEncoderCompatibleRecording(SimpleEncoder(s), s["SimpleRecFormat"]) THEN s
       ELSE [s EXCEPT !["SimpleRecFormat"] = IF toMkv THEN "mkv" ELSE @,
                      !["SimpleRecEncoder"] = IF toX264 THEN "x264" ELSE @,
                      !["RecQuality"] = IF useStream /\ changed("SimpleRecFormat") THEN "Small" ELSE @]

saveGenericSettings(s, form, values) ==
    repairSimpleRecording(s, Written(s, Range(form), values))

\* A form that switches the mode is not looked at any further.
saveOutputSettings(s, values) ==
    IF values["Mode"] # s["Mode"] THEN [s EXCEPT !["Mode"] = values["Mode"]]
    ELSE IF s["Mode"] = "Advanced" THEN saveAdvancedOutputSettings(s, values)
    ELSE saveGenericSettings(s, SimpleForm(s), values)

OutputForm(s) ==
    <<"Mode">> \o
    IF s["Mode"] = "Simple" THEN SimpleForm(s)
    ELSE StreamingForm(s) \o RecordingForm(s) \o <<"Track1Bitrate">> \o ReplayForm(s, "RecRB", "RecRBTime")

-----------------------------------------------------------------------------
(* Audio, video and advanced settings.                                        *)
AudioForm(s) == <<"SampleRate", "ChannelSetup">>

FPSForm(s) ==
    CASE s["FPSType"] = "Common" -> <<"FPSCommon">>
      [] s["FPSType"] = "Integer" -> <<"FPSInt">>
      [] s["FPSType"] = "Fractional" -> <<"FPSNum", "FPSDen">>
VideoForm(s) == <<"Base", "Output", "ScaleType", "FPSType">> \o FPSForm(s)

\* Above 499 neither a whole number nor a numerator is taken.
OutOfRange == {"600", "30000"}

\* The values of another type are not in the form when the type changes.
saveVideoSettings(s, values) ==
    LET fps == IF values["FPSType"] # s["FPSType"] THEN {}
               ELSE {n \in Range(FPSForm(s)) : n = "FPSDen" \/ values[n] \notin OutOfRange}
    IN Written(s, {"Base", "Output", "ScaleType", "FPSType"} \cup fps, values)

\* One group after another, with the file and the section each is read from.
AdvancedGroups == <<
    [section |-> "global General", names |-> <<"ProcessPriority">>],
    [section |-> "basic Video", names |-> <<"ColorFormat">>],
    [section |-> "basic Audio", names |-> <<"MonitoringDeviceName">>],
    [section |-> "global Audio", names |-> <<"LowLatencyAudioBuffering">>],
    [section |-> "basic Output", names |-> <<"OverwriteIfExists">>],
    [section |-> "basic SimpleOutput", names |-> <<"RecRBPrefix">>],
    [section |-> "basic Output", names |-> <<"DelayEnable">>],
    [section |-> "basic Output", names |-> <<"Reconnect">>],
    [section |-> "basic Output", names |-> <<"DynamicBitrate">>],
    [section |-> "global General", names |-> <<"BrowserHWAccel">>],
    [section |-> "global General", names |-> <<"fileCaching">>] >>
AdvancedForm(s) == FlattenSeq([i \in 1 .. Len(AdvancedGroups) |-> AdvancedGroups[i].names])

\* The sections the save writes to, in the order it takes the groups.
savedSections == <<"global General", "basic Video", "basic Audio", "global Audio", "basic Output",
                   "basic SimpleOutput", "basic Output", "basic Output", "basic Output", "global General",
                   "global General">>
saveAdvancedSettings(s, values) ==
    Written(s, UNION {Range(AdvancedGroups[i].names) :
                      i \in {j \in 1 .. Len(AdvancedGroups) : AdvancedGroups[j].section = savedSections[j]}}, values)

GeneralForm(s) == <<"WarnBeforeStartingStream", "SnapDistance">>

-----------------------------------------------------------------------------
(* The streaming service.                                                     *)
catalog(service) == IF service = "Twitch" THEN <<"auto", "tw/">> ELSE <<"yt">>

\* The form shows a server without its trailing slash.
getStreamSettingListValue(server) == IF server = "tw/" THEN "tw" ELSE server
isCommon(s) == s["streamType"] = "rtmp_common"
Shown(s) == [s EXCEPT !["server"] = IF isCommon(s) THEN getStreamSettingListValue(@) ELSE @]

StreamForm(s) == <<"streamType">> \o If(isCommon(s), <<"service">>) \o <<"server", "key">>

\* What the form leaves as it was shown is the server it stood for; the
\* automatic choice of the common service is resolved.
leaveCommon(s, values) ==
    IF values["server"] # getStreamSettingListValue(s["server"]) THEN values["server"]
    ELSE IF s["server"] = "auto" THEN "tw" ELSE s["server"]

\* Mutant: only another kind of service drops the key.
keyIfTypeChanged(s, values, service) ==
    IF ~isCommon(s) /\ values["key"] = s["key"] THEN "" ELSE values["key"]

\* "keys don't carry over between services": an unchanged key is dropped.
keyFor(s, values, service) ==
    IF (~isCommon(s) \/ s["service"] # service) /\ values["key"] = s["key"] THEN "" ELSE values["key"]

saveStreamSettings(s, values) ==
    LET service == IF isCommon(s) THEN values["service"]
                   ELSE IF isCommon(values) THEN "Twitch" ELSE ""
        matching == SelectSeq(catalog(service),
                              LAMBDA server : getStreamSettingListValue(server) = getStreamSettingListValue(values["server"]))
    IN IF isCommon(values)
       THEN [s EXCEPT !["streamType"] = "rtmp_common", !["service"] = service,
                      !["server"] = Head(matching \o catalog(service)),
                      !["key"] = keyFor(s, values, service)]
       ELSE [s EXCEPT !["streamType"] = "rtmp_custom", !["service"] = service,
                      !["server"] = IF isCommon(s) THEN leaveCommon(s, values) ELSE values["server"],
                      !["key"] = values["key"]]

Destination(s) == <<s["streamType"], s["service"]>>

-----------------------------------------------------------------------------
(* Calls of the frontend.                                                     *)
Pages == {"General", "Stream", "Output", "Audio", "Video", "Advanced"}
getSettings(page, s) ==
    CASE page = "General" -> GeneralForm(s)
      [] page = "Stream" -> StreamForm(s)
      [] page = "Output" -> OutputForm(s)
      [] page = "Audio" -> AudioForm(s)
      [] page = "Video" -> VideoForm(s)
      [] page = "Advanced" -> AdvancedForm(s)

fetchesAudio(page) == page = "Output" /\ stored["Mode"] = "Advanced"

\* The service is not changed under an output that uses it, and the advanced
\* settings are not while a run of the optimizer cannot be stopped; when the
\* video cannot be reset they are saved, and the save fails all the same.
Refused(page) == \/ page = "Stream" /\ streaming
                 \/ page = "Advanced" /\ ~streaming

saveSettings(page, s, values) ==
    CASE page = "General" -> saveGenericSettings(s, GeneralForm(s), values)
      [] page = "Stream" -> saveStreamSettings(s, values)
      [] page = "Output" -> saveOutputSettings(s, values)
      [] page = "Audio" -> Written(s, Range(AudioForm(s)), values)
      [] page = "Video" -> saveVideoSettings(s, values)
      [] page = "Advanced" -> saveAdvancedSettings(s, values)

\* The page is fetched, one value changed, and the form saved.
SetSetting(page) ==
    LET fetched == IF fetchesAudio(page) THEN afterFetch(stored) ELSE stored
        shown == Shown(fetched)
    IN /\ saves < MaxSaves
       /\ \E name \in Range(getSettings(page, fetched)) \ Hidden(fetched) :
          \E value \in Offered[name] \ {shown[name]}, ok \in BOOLEAN :
             LET values == [shown EXCEPT ![name] = value] IN
             /\ name = "server" /\ isCommon(stored) =>
                   \E server \in Range(catalog(stored["service"])) : value = getStreamSettingListValue(server)
             /\ ~ok => Refused(page)
             /\ page = "Stream" /\ Refused(page) => ~ok
             /\ \/ ok /\ stored' = saveSettings(page, fetched, values)
                \/ ~ok /\ stored' = fetched
                \/ ~ok /\ page = "Advanced" /\ stored' = saveSettings(page, fetched, values)
             /\ change' = [page |-> page, name |-> name, value |-> value, ok |-> ok]
             /\ currentAudioSettings' = IF ~fetchesAudio(page) THEN currentAudioSettings
                                        ELSE IF name = "Mode" THEN fetched["Track1Bitrate"]
                                        ELSE Limited(fetched, values["Track1Bitrate"])
             /\ typedFor' = IF name = "key" /\ ~streaming THEN Destination(stored') ELSE typedFor
       /\ saves' = saves + 1
       /\ UNCHANGED <<streaming, recording>>

OutputChanges ==
    /\ \/ streaming' = ~streaming /\ UNCHANGED recording
       \/ recording' = ~recording /\ UNCHANGED streaming
    /\ change' = NoChange
    /\ UNCHANGED <<stored, currentAudioSettings, typedFor, saves>>

Next == (\E page \in Pages : SetSetting(page)) \/ OutputChanges
Spec == Init /\ [][Next]_vars

-----------------------------------------------------------------------------
(* Properties.                                                                *)
Saved == change'.ok /\ change'.name # "none" /\ saves' # saves

\* Parts of the page the save passes over while their output is active.
PassedOver(n) ==
    /\ stored["Mode"] = "Advanced" /\ change'.page = "Output"
    /\ \/ streaming /\ n \in Range(StreamingForm(stored))
       \/ recording /\ n \in Range(RecordingForm(stored))

\* With splitting on, the save takes the first parameter of the recording's
\* encoder for configuration: the form holds one parameter less than it counts.
TakenForConfiguration(n) == On(stored, "RecSplitFile") /\ n = "Recrate_control"

NotKept(n, v) ==
    \/ PassedOver(n)
    \/ n \in {"FPSInt", "FPSNum"} /\ v \in OutOfRange
    \/ n = "RecTracks" /\ stored["RecFormat"] = "flv"
    \/ n = "Track1Bitrate" /\ Limited(stored, v) # v

\* What may change along with the value that was changed.
Follows(n, changed) ==
    CASE n \in Range(StreamParams) -> changed = "Encoder"
      [] n \in Range(RecordParams) -> changed = "RecEncoder"
      [] n = "RecFormat" -> \/ changed \in {"RecEncoder", "Encoder"}
                            \/ ~isEncoderCompatibleRecording(RecordingEncoder(stored), stored["RecFormat"])
      [] n = "RecEncoder" -> changed = "RecFormat"
      [] n = "RecTracks" -> changed = "RecFormat" \/ stored["RecFormat"] = "flv"
      [] n = "SimpleRecFormat" -> changed \in {"SimpleRecEncoder", "StreamEncoder", "RecQuality"}
      [] n = "SimpleRecEncoder" -> changed \in {"SimpleRecFormat", "RecQuality"}
      [] n = "RecQuality" -> changed = "SimpleRecFormat"
      [] n \in {"server", "key"} -> changed \in {"streamType", "service"}
      [] n = "service" -> changed = "streamType" \/ (~isCommon(stored) /\ changed \in {"server", "key"})
      [] n = "Track1Bitrate" -> Limited(stored, stored[n]) # stored[n]
      [] OTHER -> FALSE

\* Whatever the rest of the form is made of, the value that was changed is the
\* one that is fetched afterwards (test_nodeobs_settings.ts sets a value and
\* expects it in the next form), and nothing else changes except what has to
\* follow it.  A form whose layout and whose save disagree breaks this.
OneSettingChanges ==
    [][Saved => /\ \/ Shown(stored')[change'.name] = change'.value
                   \/ NotKept(change'.name, change'.value)
                   \/ TakenForConfiguration(change'.name)
                /\ \A n \in Names \ {change'.name} : stored'[n] = stored[n] \/ Follows(n, change'.name)]_vars

\* The same without the exception.
ChangedSettingIsKept ==
    [][Saved => \/ Shown(stored')[change'.name] = change'.value
                \/ NotKept(change'.name, change'.value)]_vars

\* "keep the changed value and update anything incompatible with it"
\* (nodeobs_settings.cpp:2920, 3927): whatever the order in which encoders,
\* format and quality are changed, in both modes, what a recording would use goes
\* together, except that the advanced page is not looked at while one is active.
\* And a common service has a server of its own catalog, and a key only if the key
\* was typed for it: neither a change of the service nor a way over a custom
\* service takes a key to another destination.
SettingsFit ==
    /\ isEncoderCompatibleRecording(SimpleEncoder(stored), stored["SimpleRecFormat"])
    /\ stored["Mode"] = "Advanced" /\ change.page = "Output" /\ change.name # "Mode" /\ ~recording =>
          isEncoderCompatibleRecording(RecordingEncoder(stored), stored["RecFormat"])
    /\ isCommon(stored) =>
          /\ stored["server"] \in Range(catalog(stored["service"]))
          /\ stored["key"] # "" => typedFor = Destination(stored)
=============================================================================
