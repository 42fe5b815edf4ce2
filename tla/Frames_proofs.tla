---------------------------- MODULE Frames_proofs ----------------------------
(***************************************************************************)
(* A frame that was built is accepted and read back as it was built; one   *)
(* that has been converted in place is not accepted again.  For numbers of *)
(* any width, any bytes and any data.                                      *)
(***************************************************************************)
EXTENDS Frames, TLAPS

\* Reversing the bytes of a number keeps its width, and twice restores it.
LEMMA ReverseNumber ==
  ASSUME NEW width \in Nat, NEW x \in Number(width)
  PROVE  Reverse(x) \in Number(width) /\ Reverse(Reverse(x)) = x
<1>1. x \in Seq(Bytes) /\ Len(x) = width
  BY DEF Number
<1>2. /\ Reverse(x) = [i \in 1 .. width |-> x[width - i + 1]]
      /\ Reverse(x) \in [1 .. width -> Bytes]
  BY <1>1 DEF Reverse, Number
<1>3. Reverse(x) \in Seq(Bytes) /\ Len(Reverse(x)) = width
  BY <1>2
<1>4. Reverse(Reverse(x)) = [i \in 1 .. width |-> Reverse(x)[width - i + 1]]
  BY <1>3 DEF Reverse
<1>5. ASSUME NEW i \in 1 .. width PROVE Reverse(x)[width - i + 1] = x[i]
  <2>1. width - i + 1 \in 1 .. width /\ width - (width - i + 1) + 1 = i
    OBVIOUS
  <2> QED
    BY <1>2, <2>1
<1>6. Reverse(Reverse(x)) = x
  BY <1>4, <1>5 DEF Number
<1> QED
  BY <1>2, <1>6 DEF Number

\* The conversion is its own inverse on whole frames.
LEMMA ConvertedTwice ==
  ASSUME NEW f \in AppFrames
  PROVE  /\ Converted(f) \in AppFrames
         /\ Converted(Converted(f)) = f
         /\ Converted(f).frame_type = f.frame_type
<1> USE FramesAssumption, ReverseNumber
<1>1. CASE f.frame_type = "TIME"
  <2>1. f \in [timestamp : Number(LONG), module_id : Number(2), frame_type : {"TIME"},
               data : [timestamp_sec : Number(LONG), timestamp_usec : Number(LONG)]]
    BY <1>1 DEF AppFrames
  <2>2. Converted(f) = [timestamp |-> Reverse(f.timestamp), module_id |-> Reverse(f.module_id),
                        frame_type |-> "TIME",
                        data |-> [timestamp_sec  |-> Reverse(f.data.timestamp_sec),
                                  timestamp_usec |-> Reverse(f.data.timestamp_usec)]]
    BY <2>1 DEF Converted
  <2>3. /\ Reverse(f.timestamp) \in Number(LONG) /\ Reverse(Reverse(f.timestamp)) = f.timestamp
        /\ Reverse(f.module_id) \in Number(2) /\ Reverse(Reverse(f.module_id)) = f.module_id
        /\ Reverse(f.data.timestamp_sec) \in Number(LONG)
        /\ Reverse(Reverse(f.data.timestamp_sec)) = f.data.timestamp_sec
        /\ Reverse(f.data.timestamp_usec) \in Number(LONG)
        /\ Reverse(Reverse(f.data.timestamp_usec)) = f.data.timestamp_usec
    BY <2>1
  <2>4. Converted(f) \in AppFrames
    BY <2>2, <2>3 DEF AppFrames
  <2>5. Converted(Converted(f)) = f
    BY <2>1, <2>2, <2>3 DEF Converted
  <2> QED
    BY <2>2, <2>4, <2>5, <1>1
<1>2. CASE f.frame_type # "TIME"
  <2>1. \/ f \in [timestamp : Number(LONG), module_id : Number(2), frame_type : {"SENSOR"},
                  data : [sensor_data : Aggregates]]
        \/ f \in [timestamp : Number(LONG), module_id : Number(2), frame_type : {"ADV"},
                  data : [mac : Macs]]
    BY <1>2 DEF AppFrames
  <2>2. Converted(f) = [timestamp |-> Reverse(f.timestamp), module_id |-> Reverse(f.module_id),
                        frame_type |-> f.frame_type, data |-> f.data]
    BY <2>1 DEF Converted
  <2>3. /\ Reverse(f.timestamp) \in Number(LONG) /\ Reverse(Reverse(f.timestamp)) = f.timestamp
        /\ Reverse(f.module_id) \in Number(2) /\ Reverse(Reverse(f.module_id)) = f.module_id
    BY <2>1
  <2>4. Converted(f) \in AppFrames
    BY <2>1, <2>2, <2>3 DEF AppFrames
  <2>5. Converted(Converted(f)) = f
    BY <2>1, <2>2, <2>3 DEF Converted
  <2> QED
    BY <2>2, <2>4, <2>5
<1> QED
  BY <1>1, <1>2

\* Whatever a board or the server builds, the receiver accepts and reads as it
\* was built (ms_network.c:111-164).
THEOREM BuiltFrameIsRead ==
  ASSUME NEW f \in AppFrames
  PROVE  /\ valid(htonFrameHMAC(f))
         /\ ntohFrameHMAC(htonFrameHMAC(f)).frame = f
<1>1. htonFrameHMAC(f).frame = Converted(f) /\ valid(htonFrameHMAC(f))
  BY DEF htonFrameHMAC, valid
<1>2. ntohFrameHMAC(htonFrameHMAC(f)).frame = Converted(Converted(f))
  BY <1>1 DEF ntohFrameHMAC, htonFrameHMAC
<1> QED
  BY <1>1, <1>2, ConvertedTwice

\* The "side effect" of mesh_main.c:266: a buffer that has been converted is
\* refused by the next receiver, unless its id reads the same both ways.
THEOREM ConvertedFrameIsRefused ==
  ASSUME NEW f \in AppFrames, Reverse(f.module_id) # f.module_id
  PROVE  ~ valid(ntohFrameHMAC(htonFrameHMAC(f)))
<1>1. valid(htonFrameHMAC(f))
  BY DEF htonFrameHMAC, valid
<1>2. ntohFrameHMAC(htonFrameHMAC(f)) = [frame |-> Converted(Converted(f)),
                                         hmac  |-> doHMAC(Converted(f))]
  BY <1>1 DEF ntohFrameHMAC, htonFrameHMAC
<1>3. Converted(Converted(f)) = f
  BY ConvertedTwice
<1>4. Converted(f).module_id = Reverse(f.module_id)
  BY DEF Converted, AppFrames
<1>5. doHMAC(Converted(f)) # doHMAC(f)
  <2>1. doHMAC(Converted(f)).digest_of # doHMAC(f).digest_of
    BY <1>4 DEF doHMAC
  <2> QED
    BY <2>1
<1> QED
  BY <1>2, <1>3, <1>5 DEF valid
=============================================================================
