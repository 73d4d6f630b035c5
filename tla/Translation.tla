----------------------------- MODULE Translation -----------------------------
(***************************************************************************)
(* How an OpenAI request becomes the prompt of the model: translateRequest *)
(* (src/pipeline/translator.ts), then buildChat (src/client/               *)
(* lmstudio-client.ts).  Texts and images are opaque; a text keeps the     *)
(* role it is prefixed with, "user" standing for no prefix.                *)
(*                                                                         *)
(* A message is [role, content]; its content is Null, <<"string", text>>,  *)
(* or <<"parts", seq>> with parts <<"text", text>> and <<"image", url>>.   *)
(***************************************************************************)
EXTENDS Sequences, SequencesExt, Lists

CONSTANTS Null, Empty,     \* null, ""
          NotData          \* the image URLs that are not data: URLs

\* The texts and images of one content, in order, the empty texts left out.
Parts(content) ==
  IF content = Null THEN <<>>
  ELSE IF content[1] = "string" THEN << <<"text", content[2]>> >>
  ELSE Keep(content[2], LAMBDA part : part[2] # Empty)

\* extractTextFromContent(): what a system message adds to the system prompt.
SystemTexts(content) ==
  Keep(Parts(content), LAMBDA part : part[1] = "text" /\ part[2] # Empty)

IsSystem(message) == message.role = "system"

BugSystemPrompt(messages) ==  \* the last one replaces the others
  LET systems == Keep(messages, IsSystem)
  IN IF systems = <<>> THEN <<>> ELSE SystemTexts(Last(systems).content)

\* The system prompt: the texts of all system messages.
SystemPrompt(messages) ==
  FlatMap(Keep(messages, IsSystem), LAMBDA msg : SystemTexts(msg.content))

Item(type, value, role) == [type |-> type, value |-> value, role |-> role]

\* buildInput(), one message: a string is prefixed with its role, the parts of an
\* array are not.
Items(message) ==
  LET role == IF message.content # Null /\ message.content[1] = "string"
              THEN message.role ELSE "user"
  IN FlatMap(Parts(message.content), LAMBDA part : <<Item(part[1], part[2], role)>>)

\* buildInput(): the shape, a string or an array of items.  (A lone message whose
\* content is a string holds no image, so hasMultiModalContent changes nothing.)
Input(messages) ==
  LET items == FlatMap(messages, Items)
      alone == /\ Len(messages) = 1 /\ messages[1].role = "user"
               /\ messages[1].content # Null /\ messages[1].content[1] = "string"
  IN IF alone \/ (Len(items) = 1 /\ items[1].type = "text")
     THEN [shape |-> "string", item |-> items[1]]
     ELSE [shape |-> "array", items |-> items]

TranslateRequest(messages) ==
  [system |-> SystemPrompt(messages),
   input  |-> Input(Keep(messages, LAMBDA msg : ~IsSystem(msg)))]

OfType(items, type) == Keep(items, LAMBDA item : item.type = type)

\* buildChat(): the texts are joined, and the images whose data URL can be read
\* go beside them; the order between a text and an image is lost.
BuildChat(request) ==
  LET items  == IF request.input.shape = "string"
                THEN <<request.input.item>> ELSE request.input.items
      images == Keep(OfType(items, "image"),
                     LAMBDA image : image.value \notin NotData)
  IN [system |-> request.system, texts |-> OfType(items, "text"), images |-> images]

Prompt(messages) == BuildChat(TranslateRequest(messages))

-----------------------------------------------------------------------------

Values(items) == FlatMap(items, LAMBDA item : <<item.value>>)

\* What a client has put into a content.
Given(content) ==
  IF content = Null THEN <<>>
  ELSE IF content[1] = "string" THEN << <<"text", content[2]>> >> ELSE content[2]

\* The texts, or the images sent as data, of a content.
Said(content, type) ==
  FlatMap(Given(content), LAMBDA part :
    IF /\ part[1] = type /\ part[2] # Empty
       /\ type = "image" => part[2] \notin NotData
    THEN <<part[2]>> ELSE <<>>)

\* Those of all system messages, or of all others.
AllSaid(messages, type, system) ==
  FlatMap(messages, LAMBDA msg : IF IsSystem(msg) = system THEN Said(msg.content, type)
                                 ELSE <<>>)

\* The model is given every text of the request that is not empty, and every
\* image sent as data, each once and in the order of the request, whatever mix of
\* strings, parts, roles and system messages it is made of (translateRequest,
\* buildInput, buildChat).
NothingIsLost(messages) ==
  LET prompt == Prompt(messages)
  IN /\ Keep(Values(prompt.texts), LAMBDA text : text # Empty)
           = AllSaid(messages, "text", FALSE)
     /\ Values(prompt.images) = AllSaid(messages, "image", FALSE)
     /\ FlatMap(prompt.system, LAMBDA part : <<part[2]>>) = AllSaid(messages, "text", TRUE)

-----------------------------------------------------------------------------
(* Refuted *)

\* translator.ts:170, "Prefix with role for context in multi-turn": the texts of a
\* message of another role are told apart.  Not so for those sent as parts.
RolesAreKept(messages) ==
  \A i \in DOMAIN messages : ~IsSystem(messages[i]) =>
     \A item \in {Items(messages[i])[k] : k \in DOMAIN Items(messages[i])} :
        item.type = "text" => item.role = messages[i].role
=============================================================================
