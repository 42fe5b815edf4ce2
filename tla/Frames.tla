------------------------------- MODULE Frames -------------------------------
(***************************************************************************)
(* The frames of ms_network.c and udp_network.c: how one is built, put in  *)
(* network order in place, authenticated, and taken apart again.           *)
(*                                                                         *)
(* A number in memory is the sequence of its bytes.  The boards and the    *)
(* server are little endian, so that htobe and betoh are one function that *)
(* reverses the bytes.  A digest is a value that stands for the bytes it   *)
(* was computed over and for the shared secret: different bytes have       *)
(* different digests.  The floats of a SENSOR frame are copied as they     *)
(* are, and its aggregate_time and sensors are one value here.             *)
(***************************************************************************)
EXTENDS Integers, SequencesExt

CONSTANTS
  Bytes,        \* what a byte may be
  LONG,         \* the bytes of a 64 bit number
  Aggregates,   \* what a SENSOR frame reports
  Macs          \* what an ADV frame reports

ASSUME FramesAssumption == LONG \in Nat \ {0}

Number(width) == [1 .. width -> Bytes]

\* app_frame_t with its union, in host or in network order.  FLUSH frames
\* have no data and nobody builds them.
AppFrames ==
  [timestamp : Number(LONG), module_id : Number(2), frame_type : {"SENSOR"},
   data : [sensor_data : Aggregates]] \cup
  [timestamp : Number(LONG), module_id : Number(2), frame_type : {"TIME"},
   data : [timestamp_sec : Number(LONG), timestamp_usec : Number(LONG)]] \cup
  [timestamp : Number(LONG), module_id : Number(2), frame_type : {"ADV"},
   data : [mac : Macs]]

doHMAC(payload) == [digest_of |-> payload]

\* The conversion, which is its own inverse.
Converted(frame) ==
  [timestamp  |-> Reverse(frame.timestamp),
   module_id  |-> Reverse(frame.module_id),
   frame_type |-> frame.frame_type,
   data       |-> IF frame.frame_type = "TIME"
                  THEN [timestamp_sec  |-> Reverse(frame.data.timestamp_sec),
                        timestamp_usec |-> Reverse(frame.data.timestamp_usec)]
                  ELSE frame.data]

\* app_frame_hmac_t: the digest is over the frame in network order.
htonFrameHMAC(frame) ==
  [frame |-> Converted(frame), hmac |-> doHMAC(Converted(frame))]

valid(frame_hmac) == frame_hmac.hmac = doHMAC(frame_hmac.frame)

\* Two tasks that compute digests at once do so in one md_ctx: what comes out is
\* the digest of neither.
spoiled(frame_hmac) == [frame_hmac EXCEPT !.hmac = [mixed |-> @]]

\* Mutant: the data of a TIME frame stays in network order.
ntohFrameHMAC_header(frame_hmac) ==
  IF valid(frame_hmac)
  THEN [frame_hmac EXCEPT !.frame = [Converted(@) EXCEPT !.data = frame_hmac.frame.data]]
  ELSE frame_hmac

\* In place: a frame that is converted no longer matches its digest.
ntohFrameHMAC(frame_hmac) ==
  IF valid(frame_hmac)
  THEN [frame_hmac EXCEPT !.frame = Converted(@)]
  ELSE frame_hmac

createSensorFrame(module_id, aggregate, tv) ==
  htonFrameHMAC([timestamp |-> tv, module_id |-> module_id, frame_type |-> "SENSOR",
                 data |-> [sensor_data |-> aggregate]])

createAdvFrame(module_id, mac, tv) ==
  htonFrameHMAC([timestamp |-> tv, module_id |-> module_id, frame_type |-> "ADV",
                 data |-> [mac |-> mac]])

createTimeFrame(module_id, tv) ==
  htonFrameHMAC([timestamp |-> tv, module_id |-> module_id, frame_type |-> "TIME",
                 data |-> [timestamp_sec |-> tv, timestamp_usec |-> tv]])
=============================================================================
