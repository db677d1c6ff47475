----------------------------- MODULE CedrusEncJpeg -----------------------------
(***************************************************************************)
(* The JPEG encoder of cedrus.  The hardware writes the entropy-coded data *)
(* alone, at the start of the coded buffer; when the client takes the      *)
(* buffer back the driver moves the data and puts the markers around it.   *)
(* In between, the client goes on: it changes the quality, encodes the     *)
(* next picture, and may change the format of the pictures.                *)
(***************************************************************************)
EXTENDS CedrusArith, Sequences, FiniteSets

CONSTANTS
  JpBuf,     \* coded buffers
  JpPlane,   \* sizes of the plane of a coded buffer, in bytes
  JpLength,  \* lengths the hardware reports, in bits
  JpQuality, \* qualities the client sets
  JpMaxJobs  \* bound: jobs in a behaviour

ASSUME JpAssumption ==
  /\ JpPlane \subseteq Nat /\ JpLength \subseteq Nat
  /\ JpQuality \subseteq 1..100 /\ JpQuality # {}
  /\ JpMaxJobs \in Nat

VARIABLES
  jpSet,    \* quality: cur.val of the control, and the one of the engine context
  jpFormat, \* the picture format, a number
  jpBuf,    \* the coded buffers: plane size, state, payload, the saved header;
            \* history: the quality and the format the payload was encoded with
  jpJob,    \* the job on the hardware, or JpIdle
  jpTaken,  \* history: the last image the client took back, or JpNoImage
  jpMoved,  \* history: the picture format changed while an image waited
  jpCount   \* jobs so far

jpVars == <<jpSet, jpFormat, jpBuf, jpJob, jpTaken, jpMoved, jpCount>>

CEDRUS_ENC_JPEG_HEADER_SIZE == 623

JpIdle    == [busy |-> FALSE]
JpNoImage == [good |-> FALSE]
JpFresh(plane) == [plane |-> plane, state |-> "client", payload |-> 0,
                   header_size |-> 0, quality |-> 0, holds |-> <<0, 0>>]

JpInit ==
  /\ \E q \in JpQuality : jpSet = [cur |-> q, engine |-> q]
  /\ jpFormat = 1
  /\ \E plane \in JpPlane : jpBuf = [b \in JpBuf |-> JpFresh(plane)]
  /\ jpJob = JpIdle
  /\ jpTaken = JpNoImage
  /\ jpMoved = FALSE
  /\ jpCount = 0
-----------------------------------------------------------------------------
\* ctrl_prepare: the engine copies cur.val, which still is the old value.
JpSetQuality ==
  /\ \E q \in JpQuality \ {jpSet.cur} : jpSet' = [cur |-> q, engine |-> jpSet.cur]
  /\ UNCHANGED <<jpFormat, jpBuf, jpJob, jpTaken, jpMoved, jpCount>>

\* The picture format changes: no job, no picture buffer; images may wait.
JpSetFormat ==
  /\ jpJob = JpIdle /\ jpFormat < 2
  /\ jpFormat' = jpFormat + 1
  /\ jpMoved' = \E b \in JpBuf : jpBuf[b].state = "done"
  /\ UNCHANGED <<jpSet, jpBuf, jpJob, jpTaken, jpCount>>

\* The plane sizes that job_configure takes.
JpPlaneFits(plane) == plane >= CEDRUS_ENC_JPEG_HEADER_SIZE + 1024 /\ plane <= 536870911

\* The client queues a coded buffer, and a job runs with it: job_prepare
\* samples the quality, job_configure refuses a plane of the wrong size.
JpJobRun ==
  /\ jpJob = JpIdle /\ jpCount < JpMaxJobs
  /\ \E b \in JpBuf :
       /\ jpBuf[b].state = "client"
       /\ IF JpPlaneFits(jpBuf[b].plane)
          THEN /\ jpBuf' = [jpBuf EXCEPT ![b].state = "active"]
               /\ jpJob' = [busy |-> TRUE, buf |-> b, quality |-> jpSet.engine, format |-> jpFormat,
                            header_size |-> CEDRUS_ENC_JPEG_HEADER_SIZE]
          ELSE /\ jpBuf' = [jpBuf EXCEPT ![b].state = "error"]
               /\ UNCHANGED jpJob
  /\ jpCount' = jpCount + 1
  /\ UNCHANGED <<jpSet, jpFormat, jpTaken, jpMoved>>

\* The lengths that job_finish takes: whole bytes, with room for the markers.
JpLengthFits(bits, plane, header_size) ==
  bits % 8 = 0 /\ bits \div 8 <= plane - header_size - 2

\* job_finish.  The saved header outlives the job and the buffer's next ones.
\* A length that does not fit makes the buffer "done", but with the error flag.
JpJobEnd ==
  /\ jpJob # JpIdle
  /\ LET b == jpJob.buf IN
     \/ jpBuf' = [jpBuf EXCEPT ![b].state = "error", ![b].payload = 0]
     \/ \E bits \in JpLength :
          LET fits == JpLengthFits(bits, jpBuf[b].plane, jpJob.header_size)
          IN  jpBuf' = [jpBuf EXCEPT ![b] =
                          [@ EXCEPT !.state = IF fits THEN "done" ELSE "flagged",
                                    !.payload = IF fits THEN bits \div 8 ELSE 0,
                                    !.header_size = jpJob.header_size,
                                    !.quality = jpJob.quality,
                                    !.holds = <<jpJob.quality, jpJob.format>>]]
  /\ jpJob' = JpIdle
  /\ UNCHANGED <<jpSet, jpFormat, jpTaken, jpMoved, jpCount>>

\* The client takes a buffer back: buffer_finish builds the image around the
\* payload, with the tables of the job, and the dimensions of now.
JpTakeBuffer(b, quality) ==
  LET buf   == jpBuf[b]
      built == buf.state = "done" /\ buf.header_size = CEDRUS_ENC_JPEG_HEADER_SIZE
      room  == buf.payload <= buf.plane - buf.header_size - 2
  IN  /\ buf.state \in {"done", "error", "flagged"}
      /\ jpBuf' = [jpBuf EXCEPT ![b].state = "client"]
      /\ jpTaken' = IF built /\ room
                    THEN [good |-> TRUE, plane |-> buf.plane, coded |-> buf.payload,
                          total |-> buf.payload + buf.header_size + 2,
                          holds |-> buf.holds, says |-> <<quality, jpFormat>>,
                          moved |-> jpMoved]
                    ELSE [good |-> FALSE]
      /\ UNCHANGED <<jpSet, jpFormat, jpJob, jpMoved, jpCount>>
\* Faulty variant of JpTake: the quality of now, not of the job.
JpTakeNow == \E b \in JpBuf : JpTakeBuffer(b, jpSet.engine)
JpTake == \E b \in JpBuf : JpTakeBuffer(b, jpBuf[b].quality)

JpNext == JpSetQuality \/ JpSetFormat \/ JpJobRun \/ JpJobEnd \/ JpTake

JpSpec == JpInit /\ [][JpNext]_jpVars
-----------------------------------------------------------------------------
(* The header and its tables.                                              *)

\* A quantizer, from its base and the quality, and its word for the hardware:
\* half of it, and its reciprocal in 16 bits.
JpScale(quality) == IF quality < 50 THEN 5000 \div quality ELSE 200 - 2 * quality
JpQuant(base, quality) == Clamp((base * JpScale(quality) + 50) \div 100, 1, 255)
cedrus_enc_jpeg_quant_word(quant) ==
  LET reciprocal == 65536 \div quant
  IN  <<quant \div 2, IF reciprocal < 65535 THEN reciprocal + 1 ELSE 65535>>

cedrus_jpeg_zigzag ==
  <<0, 1, 8, 16, 9, 2, 3, 10, 17, 24, 32, 25, 18, 11, 4, 5, 12, 19, 26, 33, 40, 48, 41, 34, 27, 20,
    13, 6, 7, 14, 21, 28, 35, 42, 49, 56, 57, 50, 43, 36, 29, 22, 15, 23, 30, 37, 44, 51, 58, 59, 52,
    45, 38, 31, 39, 46, 53, 60, 61, 54, 47, 55, 62, 63>>

\* Huffman tables: how many codes of each length, 1 to 16.
cedrus_jpeg_dht ==
  [luma_dc   |-> <<0, 1, 5, 1, 1, 1, 1, 1, 1, 0, 0, 0, 0, 0, 0, 0>>,
   luma_ac   |-> <<0, 2, 1, 3, 3, 2, 4, 3, 5, 5, 4, 4, 0, 0, 1, 125>>,
   chroma_dc |-> <<0, 3, 1, 1, 1, 1, 1, 1, 1, 1, 1, 0, 0, 0, 0, 0>>,
   chroma_ac |-> <<0, 2, 1, 2, 4, 4, 3, 4, 7, 5, 4, 4, 0, 1, 2, 119>>]
JpCodes(table) ==
  LET sum[i \in 0..16] == IF i = 0 THEN 0 ELSE sum[i - 1] + table[i] IN sum[16]

\* Start and JFIF, two quantizer tables, frame, four Huffman tables, scan.
JpHeaderLength ==
  LET tables == JpCodes(cedrus_jpeg_dht.luma_dc) + JpCodes(cedrus_jpeg_dht.luma_ac)
                + JpCodes(cedrus_jpeg_dht.chroma_dc) + JpCodes(cedrus_jpeg_dht.chroma_ac)
  IN  20 + 2 * (4 + 1 + 64) + 5 + 2 + 2 + 10 + 4 * (2 + 2 + 1 + 16) + tables + 14
-----------------------------------------------------------------------------
(* Properties.                                                             *)

\* Types of the variables.
JpTypeOK ==
  /\ jpSet \in [cur : JpQuality, engine : JpQuality]
  /\ jpFormat \in 1..2 /\ jpMoved \in BOOLEAN /\ jpCount \in 0..JpMaxJobs
  /\ \A b \in JpBuf :
       /\ jpBuf[b].state \in {"client", "active", "done", "error", "flagged"}
       /\ jpBuf[b].header_size \in {0, CEDRUS_ENC_JPEG_HEADER_SIZE}
       /\ jpJob # JpIdle /\ jpJob.buf = b <=> jpBuf[b].state = "active"

\* An image the client takes is inside its buffer, the markers with it, and
\* its header is the one of the picture that was encoded, not of the next:
\* except for the dimensions when the format changed before it was taken.
JpImageWhole ==
  jpTaken.good =>
    /\ jpTaken.total <= jpTaken.plane
    /\ jpTaken.total = jpTaken.coded + JpHeaderLength + 2
    /\ jpTaken.says[1] = jpTaken.holds[1]
    /\ ~jpTaken.moved => jpTaken.says = jpTaken.holds

\* A quantizer is a byte other than zero, no larger for a better quality.
JpQuantizerSound(base, quality) ==
  /\ JpQuant(base, quality) \in 1..255
  /\ quality < 100 => JpQuant(base, quality) >= JpQuant(base, quality + 1)

\* The reciprocal of a quantizer has 16 bits and is within one part of exact.
JpReciprocalSound(quant) ==
  LET word == cedrus_enc_jpeg_quant_word(quant)
  IN  word[2] < 65536 /\ word[2] * quant - 65536 \in (0 - 1)..quant

\* From one place of the zigzag order to the next: the diagonal, or the next one.
JpZigzagStep(i) ==
  LET a == cedrus_jpeg_zigzag[i]
      b == cedrus_jpeg_zigzag[i + 1]
      diagonal(v) == (v \div 8) + (v % 8)
  IN  diagonal(b) - diagonal(a) \in 0..1

\* A table does not use up the codes of 16 bits.
JpCodesLeft(table) ==
  LET used[i \in 0..16] == IF i = 0 THEN 0 ELSE used[i - 1] + table[i] * Pow2(16 - i)
  IN  used[16] < 65536

\* What the hardware and the decoder are given agrees and is well formed:
\* quantizers in a byte and their reciprocals within one part of exact, the
\* zigzag order walks the diagonals, the codes leave room for the all-ones one.
JpTablesSound ==
  /\ JpHeaderLength = CEDRUS_ENC_JPEG_HEADER_SIZE
  /\ \A base \in 10..121, quality \in 1..100 : JpQuantizerSound(base, quality)
  /\ \A quant \in 1..255 : JpReciprocalSound(quant)
  /\ \A i \in 1..63 : JpZigzagStep(i)
  /\ {cedrus_jpeg_zigzag[i] : i \in 1..64} = 0..63
  /\ \A name \in DOMAIN cedrus_jpeg_dht : JpCodesLeft(cedrus_jpeg_dht[name])
=============================================================================
