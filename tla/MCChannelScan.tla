--------------------------- MODULE MCChannelScan ---------------------------
(* ChannelScan on one channel: an old stream, and a broadcast that begins    *)
(* before the channel is followed, ends after and can be walled off.  Either *)
(* the first has a timestamp and the second only the date it began, or the   *)
(* first has no date and the second a timestamp once it has ended.           *)
EXTENDS ChannelScan

MCUploads == {"old", "cast"}
MCOnStreams == {"old", "cast"}
MCExisting == {"old"}
MCShort == {}
MCAiring == {"cast"}
MCWallable == {"cast"}
MCEarly == {"old", "cast"}
MCDatings ==
  {[v \in MCUploads |-> IF v = "old" THEN "timestamp" ELSE "release"],
   [v \in MCUploads |-> IF v = "old" THEN "none" ELSE "timestamp"]}

=============================================================================
