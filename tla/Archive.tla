------------------------------- MODULE Archive -------------------------------
(***************************************************************************)
(* The way of a batch of conversations into a CAR file and out again:      *)
(* flushBatch() (src/middleware/upload.ts) and buildBatchArchive(),        *)
(* verifyArchive() and readArchive() (src/lib/archive-builder.ts), the     *)
(* exporter (src/export/llava-exporter.ts) and the export command          *)
(* (src/index.ts); and what the encrypted buffer of a conversation is and  *)
(* how it is opened.  A CID stands for the bytes it is the hash of.        *)
(*                                                                         *)
(* A captured conversation is [id, messages, choices, sealed]: its contents*)
(* are those of Translation, sealed is the encrypted buffer or Null.       *)
(***************************************************************************)
EXTENDS Naturals, Sequences, SequencesExt, Lists

CONSTANTS Null, Empty,     \* null, ""
          Garbled,         \* bytes nothing can be decoded from
          Failed           \* the outcome of a call that throws

-----------------------------------------------------------------------------
(* Building *)

Cid(bytes) == [hash |-> bytes]

\* encodeBlock()
Block(bytes) == [cid |-> Cid(bytes), bytes |-> bytes]

\* flushBatch(): what is archived of a conversation.
Archived(conv) ==
  [id |-> conv.id, messages |-> conv.messages, choices |-> conv.choices,
   encrypted |-> conv.sealed # Null, encryptedPayload |-> conv.sealed]

BatchRoot(convs, batchId) ==
  [batchId |-> batchId, conversationCount |-> Len(convs),
   conversations |-> [i \in DOMAIN convs |-> Cid(Archived(convs[i]))]]

\* buildBatchArchive(): the blocks of the conversations, whose ids differ, then
\* that of the root.
Build(convs, batchId) ==
  LET root == BatchRoot(convs, batchId)
  IN [root   |-> Cid(root),
      blocks |-> Append([i \in DOMAIN convs |-> Block(Archived(convs[i]))], Block(root))]

-----------------------------------------------------------------------------
(* What may become of the file *)

\* Cut short between two blocks, a block left out, bytes of a block changed, a root
\* in the header that is another block of the file.
Damages(car) ==
  LET n == Len(car.blocks)
      Blocks(k) == SubSeq(car.blocks, 1, k)
      Spoilt(i) == [car.blocks EXCEPT ![i].bytes = Garbled]
  IN {[car EXCEPT !.blocks = Blocks(k)] : k \in 0 .. n}
       \cup {[car EXCEPT !.blocks = RemoveAt(@, i)] : i \in 1 .. n}
       \cup {[car EXCEPT !.blocks = Spoilt(i)] : i \in 1 .. n}
       \cup {[car EXCEPT !.root = car.blocks[i].cid] : i \in 1 .. n}

-----------------------------------------------------------------------------
(* Reading *)

\* reader.get(): the block under a CID; no hash is computed.
Holds(car, cid) == \E i \in DOMAIN car.blocks : car.blocks[i].cid = cid
Get(car, cid) ==
  car.blocks[SelectInSeq(car.blocks, LAMBDA block : block.cid = cid)].bytes

\* The links of a decoded root; a conversation's block has none.
Links(root) ==
  IF "conversations" \in DOMAIN root THEN root.conversations ELSE <<>>

\* verifyArchive()
Verify(car) ==
  /\ \A i \in DOMAIN car.blocks : car.blocks[i].cid = Cid(car.blocks[i].bytes)
  /\ Holds(car, car.root)
  /\ LET links == Links(Get(car, car.root))
     IN \A i \in DOMAIN links : Holds(car, links[i])

\* readArchive(): links whose block is missing are passed over.
Read(car) ==
  IF ~Holds(car, car.root) \/ Get(car, car.root) = Garbled THEN Failed
  ELSE LET found == Keep(Links(Get(car, car.root)), LAMBDA cid : Holds(car, cid))
           convs == [i \in DOMAIN found |-> Get(car, found[i])]
       IN IF Contains(convs, Garbled) THEN Failed ELSE convs

-----------------------------------------------------------------------------
(* Exporting *)

\* convertConversation(): the texts and image URLs of one content.
Words(content) ==
  IF content = Null THEN <<"null">>
  ELSE IF content[1] = "string" THEN <<content[2]>>
  ELSE FlatMap(content[2], LAMBDA part : IF part[2] # Empty THEN <<part[2]>> ELSE <<>>)

Turn(from, words) == [from |-> from, value |-> words]

\* convertConversation()
Turns(conv) ==
  [i \in DOMAIN conv.messages |->
     Turn(IF conv.messages[i].role = "assistant" THEN "gpt" ELSE "human",
          Words(conv.messages[i].content))]
  \o [i \in DOMAIN conv.choices |-> Turn("gpt", <<conv.choices[i]>>)]

\* LLaVAExporter.export(): the lines of the JSONL file.
Export(car) ==
  IF Read(car) = Failed THEN Failed
  ELSE [i \in DOMAIN Read(car) |->
          [id |-> Read(car)[i].id, conversations |-> Turns(Read(car)[i])]]

\* exportCommand(): the batch ids to export, those of all records without --batch.
\* The option is compared with the number of batches.
Chosen(batches, option) ==
  IF option = Null THEN [i \in DOMAIN batches |-> batches[i].batchId]
  ELSE IF option < Len(batches) THEN <<option>> ELSE <<>>

\* exportCommand(): the ids that are exported; an id is used as the place of its
\* record, counted from 0.  All are read from the one file that is found first.
Exported(batches, option) ==
  Keep(Chosen(batches, option), LAMBDA id : id + 1 \in DOMAIN batches)

-----------------------------------------------------------------------------
(* Encrypted buffers: IV, ciphertext, tag, each as a sequence of units *)

Tag(key, iv, ciphertext) == [key |-> key, iv |-> iv, text |-> ciphertext]
Encipher(plain, key, iv) == [i \in DOMAIN plain |-> <<key, iv, i, plain[i]>>]

\* taco-encrypt's onResponse()
Seal(plain, key, iv) ==
  LET text == Encipher(plain, key, iv)
  IN <<iv>> \o text \o <<Tag(key, iv, text)>>

\* A decipher of AES-256-GCM throws unless the tag is that of its input.
Decipher(text, key, iv, tag) ==
  IF tag = Tag(key, iv, text) THEN [i \in DOMAIN text |-> text[i][4]] ELSE Failed

\* aesGcmDecrypt() of the retrieval client.
Unseal(buffer, key) ==
  IF Len(buffer) < 2 THEN Failed
  ELSE Decipher(SubSeq(buffer, 2, Len(buffer) - 1), key, buffer[1], Last(buffer))

\* aesDecrypt() of data-recovery: it skips the length of an IV.
AesDecrypt(rest, key, iv) ==
  Decipher(SubSeq(rest, 2, Len(rest) - 1), key, iv, Last(rest))

\* decryptHybridData() of data-recovery: parseEncryptedBuffer() has taken the IV
\* away before.
UnsealHybrid(buffer, key) ==
  IF Len(buffer) < 2 THEN Failed ELSE AesDecrypt(Tail(buffer), key, buffer[1])

-----------------------------------------------------------------------------

\* What was captured comes out of an archive again: an archive as it was built
\* verifies, and whatever happens to the file, one that verifies and still names
\* its root is exported complete, every conversation once, in order and with all
\* its turns (buildBatchArchive, verifyArchive, readArchive, convertConversation).
ArchiveReadsBack(convs, batchId) ==
  LET car   == Build(convs, batchId)
      lines == [i \in DOMAIN convs |->
                  [id |-> convs[i].id, conversations |-> Turns(convs[i])]]
  IN /\ Verify(car)
     /\ \A file \in Damages(car) :
           Verify(file) /\ file.root = car.root => Export(file) = lines

\* The texts and images of a conversation, its answers after them.
Plain(conv) == FlatMap(conv.messages, LAMBDA msg : Words(msg.content)) \o conv.choices

\* What taco-encrypt has sealed, the retrieval client opens with the key it was
\* sealed with and with no other, and a buffer that was altered not at all.
SealedOpens(conv, key, other, iv) ==
  LET plain  == Plain(conv)
      buffer == Seal(plain, key, iv)
  IN /\ Unseal(buffer, key) = plain
     /\ Unseal(buffer, other) = Failed
     /\ \A i \in DOMAIN buffer : Unseal([buffer EXCEPT ![i] = Garbled], key) = Failed

-----------------------------------------------------------------------------
(* Refuted *)

\* index.ts:432, "default: export all batches".  Batch ids are times in ms, so none
\* is the place of a record.
AllIsAll(batches) == Len(Exported(batches, Null)) = Len(batches)

\* A batch of which readArchive() returns something is complete.
ReadIsComplete(convs, batchId) ==
  \A file \in Damages(Build(convs, batchId)) :
     Read(file) # Failed => Len(Read(file)) = Len(convs)

\* archive-builder.ts:58, "if encrypted, replaces request+response".
SealedReplacesPlain(conv) ==
  conv.sealed # Null => Archived(conv).messages = <<>>

\* data-recovery opens what taco-encrypt has sealed.
HybridOpens(plain, key, iv) == UnsealHybrid(Seal(plain, key, iv), key) = plain
=============================================================================
