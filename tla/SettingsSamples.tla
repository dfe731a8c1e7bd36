-------------------------- MODULE SettingsSamples --------------------------
(* The settings a run offers: for each a few values that behave differently,  *)
(* and what a fresh profile in the advanced mode holds.                      *)
EXTENDS TLC

Switch == {"off", "on"}
Two == {"0", "1"}
Codecs == {"x264", "hevc"}
Formats == {"mkv", "flv"}
SomeSettings ==
    "Mode" :> {"Simple", "Advanced"} @@
    "TrackIndex" :> Two @@ "VodTrackEnabled" :> Switch @@ "VodTrackIndex" :> Two @@ "Encoder" :> Codecs @@
    "ApplyServiceSettings" :> {"off"} @@ "RescaleFilter" :> {"disable", "bicubic"} @@ "RescaleRes" :> Two @@
    "rate_control" :> Two @@ "bitrate" :> Two @@
    "RecType" :> {"Standard"} @@ "RecFilePath" :> {"0"} @@ "RecFileNameWithoutSpace" :> {"off"} @@
    "RecFormat" :> Formats @@ "RecTracks" :> {"1", "2"} @@ "RecEncoder" :> {"none"} \cup Codecs @@
    "RecAEncoder" :> {"0"} @@ "RecRescale" :> Switch @@ "RecRescaleRes" :> Two @@ "RecMuxerCustom" :> Two @@
    "RecSplitFile" :> Switch @@ "RecSplitFileType" :> {"Time", "Size", "Manual"} @@ "RecSplitFileTime" :> Two @@
    "RecSplitFileSize" :> {"0"} @@ "RecSplitFileResetTimestamps" :> Switch @@
    "Recrate_control" :> Two @@ "Recbitrate" :> Two @@
    "Track1Bitrate" :> {"160", "640"} @@ "RecRB" :> Switch @@ "RecRBTime" :> Two @@
    "VBitrate" :> {"0"} @@ "StreamEncoder" :> Codecs @@ "ABitrate" :> {"0"} @@ "UseAdvanced" :> Switch @@
    "EnforceBitrate" :> {"off"} @@ "SimpleVodTrackEnabled" :> Switch @@ "Preset" :> {"0"} @@ "FilePath" :> {"0"} @@
    "RecQuality" :> {"Stream", "Small", "Lossless"} @@ "SimpleRecFormat" :> Formats @@ "SimpleRecEncoder" :> Codecs @@
    "SimpleRecRB" :> {"off"} @@ "SimpleRecRBTime" :> {"0"} @@
    "SampleRate" :> {"44100"} @@ "ChannelSetup" :> {"Stereo", "5.1"} @@
    "Base" :> {"0"} @@ "Output" :> {"0"} @@ "ScaleType" :> {"0"} @@ "FPSType" :> {"Common", "Integer", "Fractional"} @@
    "FPSCommon" :> {"0"} @@ "FPSInt" :> {"30", "600"} @@ "FPSNum" :> {"60", "30000"} @@ "FPSDen" :> Two @@
    "ProcessPriority" :> {"0"} @@ "ColorFormat" :> Two @@ "MonitoringDeviceName" :> {"0"} @@
    "LowLatencyAudioBuffering" :> {"off"} @@ "OverwriteIfExists" :> {"off"} @@ "RecRBPrefix" :> {"0"} @@
    "DelayEnable" :> {"off"} @@ "Reconnect" :> {"off"} @@ "DynamicBitrate" :> Switch @@ "BrowserHWAccel" :> {"off"} @@
    "fileCaching" :> Switch @@
    "WarnBeforeStartingStream" :> Switch @@ "SnapDistance" :> {"0"} @@
    "streamType" :> {"rtmp_common", "rtmp_custom"} @@ "service" :> {"Twitch", "YouTube"} @@
    "server" :> {"auto", "tw", "yt", "tw/"} @@ "key" :> {"", "k"}
Preferred == {"Advanced", "Standard", "x264", "disable", "off", "mkv", "none", "Stereo", "160", "Stream", "Common",
              "30", "60", "44100", "rtmp_common", "Twitch", "auto", "", "0", "1", "Time"}
FreshSettings == [n \in DOMAIN SomeSettings |->
    IF n = "RecTracks" THEN "2" ELSE IF n = "FPSDen" THEN "1" ELSE
    CHOOSE v \in SomeSettings[n] : v \in Preferred /\ (v = "1" => "0" \notin SomeSettings[n])]
=============================================================================
