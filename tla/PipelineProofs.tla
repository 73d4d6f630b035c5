---------------------------- MODULE PipelineProofs ----------------------------
(***************************************************************************)
(* Proofs about Pipeline, for any requests, options, signals and batch     *)
(* size.  The first part takes the chain of response hooks apart: what     *)
(* Execute() does to a request is given by a few facts on the state it     *)
(* leaves, whatever middlewares are enabled.                               *)
(***************************************************************************)
EXTENDS Pipeline, FiniteSetTheorems, TLAPS

Context == [captured : BOOLEAN, gzip : BOOLEAN,
            encrypted : {"none", "plain", "gzip"}, requestId : BOOLEAN]

\* Types of a chain under way.
ChainState == [ctx : Context, buffer : Seq(Entry), batches : Seq(Seq(Entry)),
               rows : SUBSET Request, at : Nat, state : {"runs", "threw", "gzipping"}]

Sized(buf, bs) == /\ Len(buf) < BatchSize
                  /\ \A i \in DOMAIN bs : Len(bs[i]) = BatchSize

ChainOK(d) == d \in ChainState /\ Sized(d.buffer, d.batches)

-----------------------------------------------------------------------------
(* The chain of hooks *)

LEMMA Chains ==
  LET g == "gzip" \in enabled
      t == "taco-encrypt" \in enabled
      u == "upload" \in enabled
  IN /\ g /\ t /\ u =>
          ResponseChain = <<"cid-recorder", "upload", "taco-encrypt", "gzip", "logger">>
     /\ g /\ t /\ ~u => ResponseChain = <<"taco-encrypt", "gzip", "logger">>
     /\ g /\ ~t /\ u => ResponseChain = <<"cid-recorder", "upload", "gzip", "logger">>
     /\ g /\ ~t /\ ~u => ResponseChain = <<"gzip", "logger">>
     /\ ~g /\ t /\ u => ResponseChain = <<"cid-recorder", "upload", "taco-encrypt", "logger">>
     /\ ~g /\ t /\ ~u => ResponseChain = <<"taco-encrypt", "logger">>
     /\ ~g /\ ~t /\ u => ResponseChain = <<"cid-recorder", "upload", "logger">>
     /\ ~g /\ ~t /\ ~u => ResponseChain = <<"logger">>
  BY DEF ResponseChain, Registered, With, Reverse

Middleware == {"logger", "gzip", "taco-encrypt", "upload", "cid-recorder"}

\* What the chains have in common.
LEMMA ChainFacts ==
  /\ ResponseChain \in Seq(Middleware) /\ Len(ResponseChain) \in 1 .. 5
  /\ ResponseChain[Len(ResponseChain)] = "logger"
  /\ \A i \in DOMAIN ResponseChain : ResponseChain[i] = "taco-encrypt" => "taco-encrypt" \in enabled
  /\ \A i \in DOMAIN ResponseChain :
       ResponseChain[i] = "gzip" => "gzip" \in enabled /\ i = Len(ResponseChain) - 1
  /\ "gzip" \in enabled => /\ Len(ResponseChain) > 1
                           /\ ResponseChain[Len(ResponseChain) - 1] = "gzip"
  /\ "upload" \in enabled =>
       /\ Len(ResponseChain) > 2
       /\ ResponseChain[1] = "cid-recorder" /\ ResponseChain[2] = "upload"
       /\ \A i \in 3 .. Len(ResponseChain) : ResponseChain[i] # "upload"
  /\ "upload" \notin enabled =>
       \A i \in DOMAIN ResponseChain : ResponseChain[i] # "upload"
<1> DEFINE u == "upload" \in enabled
           g == "gzip" \in enabled
           t == "taco-encrypt" \in enabled
<1>1. CASE g /\ t /\ u
  <2>1. ResponseChain = <<"cid-recorder", "upload", "taco-encrypt", "gzip", "logger">>
    BY <1>1, Chains
  <2> QED
    BY <1>1, <2>1 DEF Middleware
<1>2. CASE g /\ t /\ ~u
  <2>1. ResponseChain = <<"taco-encrypt", "gzip", "logger">>
    BY <1>2, Chains
  <2> QED
    BY <1>2, <2>1 DEF Middleware
<1>3. CASE g /\ ~t /\ u
  <2>1. ResponseChain = <<"cid-recorder", "upload", "gzip", "logger">>
    BY <1>3, Chains
  <2> QED
    BY <1>3, <2>1 DEF Middleware
<1>4. CASE g /\ ~t /\ ~u
  <2>1. ResponseChain = <<"gzip", "logger">>
    BY <1>4, Chains
  <2> QED
    BY <1>4, <2>1 DEF Middleware
<1>5. CASE ~g /\ t /\ u
  <2>1. ResponseChain = <<"cid-recorder", "upload", "taco-encrypt", "logger">>
    BY <1>5, Chains
  <2> QED
    BY <1>5, <2>1 DEF Middleware
<1>6. CASE ~g /\ t /\ ~u
  <2>1. ResponseChain = <<"taco-encrypt", "logger">>
    BY <1>6, Chains
  <2> QED
    BY <1>6, <2>1 DEF Middleware
<1>7. CASE ~g /\ ~t /\ u
  <2>1. ResponseChain = <<"cid-recorder", "upload", "logger">>
    BY <1>7, Chains
  <2> QED
    BY <1>7, <2>1 DEF Middleware
<1>8. CASE ~g /\ ~t /\ ~u
  <2>1. ResponseChain = <<"logger">>
    BY <1>8, Chains
  <2> QED
    BY <1>8, <2>1 DEF Middleware
<1> QED
  BY <1>1, <1>2, <1>3, <1>4, <1>5, <1>6, <1>7, <1>8

\* One place of executeChain().
Step(r, i, d) ==
  IF d.state # "runs" THEN d ELSE [Hook(r, ResponseChain[i], d) EXCEPT !.at = i + 1]

\* Execute() from the a-th place on is one Step() after the other.  Its function
\* is recursive, so it is whatever satisfies its equation: the table w does, and
\* the equation has no other solution.
LEMMA Unfold ==
  ASSUME NEW r, NEW c, NEW a \in 1 .. 5, c.at = a, a <= Len(ResponseChain)
  PROVE  LET L  == Len(ResponseChain)
             d1 == Step(r, a, c)
             d2 == Step(r, a + 1, d1)
             d3 == Step(r, a + 2, d2)
             d4 == Step(r, a + 3, d3)
             d5 == Step(r, a + 4, d4)
         IN  \/ L = a     /\ Execute(r, c) = d1
             \/ L = a + 1 /\ Execute(r, c) = d2
             \/ L = a + 2 /\ Execute(r, c) = d3
             \/ L = a + 3 /\ Execute(r, c) = d4
             \/ L = a + 4 /\ Execute(r, c) = d5
<1> DEFINE L == Len(ResponseChain)
           d1 == Step(r, a, c)
           d2 == Step(r, a + 1, d1)
           d3 == Step(r, a + 2, d2)
           d4 == Step(r, a + 3, d3)
           d5 == Step(r, a + 4, d4)
           T == <<c, d1, d2, d3, d4, d5>>
           dom == (c.at - 1) .. Len(ResponseChain)
           next(f) == [i \in dom |->
                         IF i < c.at THEN c ELSE Step(r, i, f[i - 1])]
           w == [i \in dom |-> T[i - a + 2]]
           after == CHOOSE f : f = next(f)
<1>1. Execute(r, c) = after[Len(ResponseChain)]
  BY DEF Execute, Step
<1>2. dom = (a - 1) .. L /\ L \in 1 .. 5
  BY ChainFacts
<1>3. /\ T[1] = c /\ T[2] = Step(r, a, T[1]) /\ T[3] = Step(r, a + 1, T[2])
      /\ T[4] = Step(r, a + 2, T[3]) /\ T[5] = Step(r, a + 3, T[4])
      /\ T[6] = Step(r, a + 4, T[5])
  OBVIOUS
<1> HIDE DEF T
<1>4. \A k \in 1 .. 5 : T[k + 1] = Step(r, a + k - 1, T[k])
  BY <1>3
<1>5. \A i \in dom : w[i] = next(w)[i]
  <2> SUFFICES ASSUME NEW i \in dom PROVE w[i] = next(w)[i]
    OBVIOUS
  <2>1. i \in (a - 1) .. L /\ w[i] = T[i - a + 2]
    BY <1>2
  <2>2. next(w)[i] = IF i < c.at THEN c ELSE Step(r, i, w[i - 1])
    OBVIOUS
  <2>3. CASE i = a - 1
    <3>1. i - a + 2 = 1 /\ i < a
      BY <2>3
    <3> QED
      BY <1>3, <2>1, <2>2, <3>1
  <2>4. CASE i # a - 1
    <3>1. /\ i - a + 1 \in 1 .. 5 /\ (i - a + 1) + 1 = i - a + 2
          /\ a + (i - a + 1) - 1 = i /\ (i - 1) - a + 2 = i - a + 1
          /\ i - 1 \in (a - 1) .. L /\ ~(i < a)
      <4>1. L \in 1 .. 5 /\ i \in (a - 1) .. L
        BY <1>2, <2>1
      <4> HIDE DEF L, dom, w, next
      <4> QED
        BY <2>4, <4>1
    <3>2. T[i - a + 2] = Step(r, i, T[i - a + 1])
      BY <1>4, <3>1
    <3>3. w[i - 1] = T[i - a + 1]
      BY <1>2, <3>1
    <3> QED
      BY <2>1, <2>2, <3>1, <3>2, <3>3
  <2> QED
    BY <2>3, <2>4
<1>6. w = next(w)
  <2>1. \A i \in dom : T[i - a + 2] = IF i < c.at THEN c ELSE Step(r, i, w[i - 1])
    BY <1>5
  <2> QED
    BY <2>1, Zenon
<1>7. after = next(after)
  <2> DEFINE P(f) == f = next(f)
  <2>1. P(w)
    BY <1>6
  <2> HIDE DEF P, w
  <2>2. P(CHOOSE f : P(f))
    BY <2>1, Zenon
  <2> QED
    BY <2>2 DEF P
<1> HIDE DEF w, after
<1>8. \A i \in dom : after[i] = IF i < c.at THEN c ELSE Step(r, i, after[i - 1])
  BY <1>7
<1>9. after[a - 1] = T[1]
  <2>1. a - 1 \in dom /\ a - 1 < c.at
    BY <1>2
  <2> HIDE DEF dom
  <2> QED
    BY <1>3, <1>8, <2>1
<1>10. ASSUME NEW i \in a .. L PROVE after[i] = Step(r, i, after[i - 1])
  <2>1. i \in dom /\ ~(i < c.at)
    BY <1>2
  <2> HIDE DEF dom
  <2> QED
    BY <1>8, <2>1
<1> HIDE DEF dom, L
<1>11. ASSUME NEW k \in 1 .. 5, a + k - 1 <= L, after[a + k - 2] = T[k]
       PROVE  after[a + k - 1] = T[k + 1]
  <2>1. a + k - 1 \in a .. L /\ (a + k - 1) - 1 = a + k - 2
    BY <1>2, <1>11
  <2> QED
    BY <1>4, <1>10, <1>11, <2>1
<1>12. L \in 1 .. 5
  BY <1>2
<1>13. a <= L
  BY DEF L
<1>14. L >= a => after[a] = T[2]
  BY <1>9, <1>11, <1>12
<1>15. L >= a + 1 => after[a + 1] = T[3]
  BY <1>11, <1>12, <1>14
<1>16. L >= a + 2 => after[a + 2] = T[4]
  BY <1>11, <1>12, <1>15
<1>17. L >= a + 3 => after[a + 3] = T[5]
  BY <1>11, <1>12, <1>16
<1>18. L >= a + 4 => after[a + 4] = T[6]
  BY <1>11, <1>12, <1>17
<1>19. L \in {a, a + 1, a + 2, a + 3, a + 4}
  BY <1>12, <1>13
<1>20. \/ L = a     /\ after[L] = T[2]
       \/ L = a + 1 /\ after[L] = T[3]
       \/ L = a + 2 /\ after[L] = T[4]
       \/ L = a + 3 /\ after[L] = T[5]
       \/ L = a + 4 /\ after[L] = T[6]
  BY <1>12, <1>14, <1>15, <1>16, <1>17, <1>18, <1>19
<1>21. T[2] = d1 /\ T[3] = d2 /\ T[4] = d3 /\ T[5] = d4 /\ T[6] = d5
  BY DEF T
<1> HIDE DEF T, d1, d2, d3, d4, d5
<1>22. \/ L = a     /\ Execute(r, c) = d1
       \/ L = a + 1 /\ Execute(r, c) = d2
       \/ L = a + 2 /\ Execute(r, c) = d3
       \/ L = a + 3 /\ Execute(r, c) = d4
       \/ L = a + 4 /\ Execute(r, c) = d5
  BY <1>1, <1>20, <1>21 DEF L
<1> QED
  BY <1>22 DEF L, d1, d2, d3, d4, d5

-----------------------------------------------------------------------------
(* What the hooks do *)

\* A step that captures nothing: it may throw or wait, but not without reason.
Keeps(d, e) ==
  /\ e.buffer = d.buffer /\ e.batches = d.batches
  /\ e.ctx.captured = d.ctx.captured /\ e.ctx.requestId = d.ctx.requestId
  /\ e.state = "threw" => d.state = "threw" \/ ("taco-encrypt" \in enabled /\ ~key)
  /\ e.state = "gzipping" => d.state = "gzipping" \/ "gzip" \in enabled

LEMMA EncryptKeeps ==
  ASSUME NEW d, ChainOK(d), d.state = "runs", "taco-encrypt" \in enabled
  PROVE  ChainOK(Encrypt(d)) /\ Keeps(d, Encrypt(d))
<1>1. CASE ~key
  BY <1>1 DEF ChainOK, Sized, ChainState, Keeps, Encrypt
<1>2. CASE key
  <2> DEFINE x == IF d.ctx.gzip THEN "gzip" ELSE "plain"
             e == Encrypt(d)
  <2>1. x \in {"none", "plain", "gzip"} /\ d \in ChainState
    BY DEF ChainOK
  <2>2. e = [d EXCEPT !.ctx.encrypted = x]
    BY <1>2 DEF Encrypt
  <2> HIDE DEF x, e
  <2>3. /\ e.ctx = [d.ctx EXCEPT !.encrypted = x] /\ e.buffer = d.buffer
        /\ e.batches = d.batches /\ e.rows = d.rows /\ e.at = d.at /\ e.state = d.state
    BY <2>1, <2>2 DEF ChainState
  <2>4. e \in ChainState
    <3>1. [d.ctx EXCEPT !.encrypted = x] \in Context
      BY <2>1 DEF ChainState, Context
    <3> QED
      BY <2>1, <2>2, <3>1 DEF ChainState
  <2>5. e.ctx.captured = d.ctx.captured /\ e.ctx.requestId = d.ctx.requestId
    BY <2>1, <2>3 DEF ChainState, Context
  <2>6. e.state = "runs"
    BY <2>3
  <2> QED
    BY <2>3, <2>4, <2>5, <2>6 DEF ChainOK, Sized, Keeps, e
<1> QED
  BY <1>1, <1>2

LEMMA StepKeeps ==
  ASSUME NEW r \in Request, NEW i \in DOMAIN ResponseChain, NEW d, ChainOK(d),
         ResponseChain[i] # "upload" \/ d.state # "runs"
  PROVE  ChainOK(Step(r, i, d)) /\ Keeps(d, Step(r, i, d))
<1>1. CASE d.state # "runs"
  BY <1>1 DEF Step, Keeps
<1>2. CASE d.state = "runs"
  <2> DEFINE h == Hook(r, ResponseChain[i], d)
  <2>1. ResponseChain[i] \in {"logger", "gzip", "taco-encrypt", "cid-recorder"} /\ i \in Nat
    BY <1>2, ChainFacts DEF Middleware
  <2>2. ChainOK(h) /\ Keeps(d, h)
    <3>1. CASE ResponseChain[i] = "logger"
      BY <1>2, <3>1 DEF Hook, Keeps
    <3>2. CASE ResponseChain[i] = "cid-recorder"
      BY <1>2, <3>2 DEF Hook, Keeps, ChainOK, Sized, ChainState
    <3>3. CASE ResponseChain[i] = "gzip"
      BY <1>2, <3>3, ChainFacts DEF Hook, Keeps, ChainOK, Sized, ChainState
    <3>4. CASE ResponseChain[i] = "taco-encrypt"
      BY <1>2, <3>4, ChainFacts, EncryptKeeps DEF Hook
    <3> QED
      BY <2>1, <3>1, <3>2, <3>3, <3>4
  <2>3. Step(r, i, d) = [h EXCEPT !.at = i + 1]
    BY <1>2 DEF Step
  <2> DEFINE e == Step(r, i, d)
  <2> HIDE DEF h, e
  <2>4. h \in ChainState /\ i + 1 \in Nat
    BY <2>1, <2>2 DEF ChainOK
  <2>5. /\ e \in ChainState /\ e.ctx = h.ctx /\ e.buffer = h.buffer
        /\ e.batches = h.batches /\ e.state = h.state
    BY <2>3, <2>4 DEF ChainState, e
  <2>6. ChainOK(e) /\ Keeps(d, e)
    BY <2>2, <2>5 DEF ChainOK, Keeps
  <2> QED
    BY <2>6 DEF e
<1> QED
  BY <1>1, <1>2

LEMMA KeepsOn ==
  ASSUME NEW d, NEW e, NEW f, Keeps(d, e), Keeps(e, f)
  PROVE  Keeps(d, f)
  BY DEF Keeps

\* The capture: a conversation is pushed on buf, which is cut into bs when full.
Pending(r, captured, x) == [id |-> r, request |-> captured, encrypted |-> x]

Cut(buf, bs, p, buf2, bs2) ==
  IF Len(buf) + 1 >= BatchSize
  THEN buf2 = <<>> /\ bs2 = Append(bs, Append(buf, p))
  ELSE buf2 = Append(buf, p) /\ bs2 = bs

LEMMA CutSized ==
  ASSUME NEW buf \in Seq(Entry), NEW bs \in Seq(Seq(Entry)), Sized(buf, bs),
         NEW p \in Entry, NEW buf2, NEW bs2, Cut(buf, bs, p, buf2, bs2)
  PROVE  buf2 \in Seq(Entry) /\ bs2 \in Seq(Seq(Entry)) /\ Sized(buf2, bs2)
<1>0. Len(buf) \in Nat /\ Len(buf) < BatchSize /\ BatchSize \in Nat
  BY BatchSizeAssumption DEF Sized
<1>1. CASE Len(buf) + 1 >= BatchSize
  <2>1. buf2 = <<>> /\ bs2 = Append(bs, Append(buf, p))
    BY <1>1 DEF Cut
  <2>2. Append(buf, p) \in Seq(Entry) /\ Len(Append(buf, p)) = BatchSize
    BY <1>0, <1>1
  <2>3. bs2 \in Seq(Seq(Entry)) /\ buf2 \in Seq(Entry) /\ Len(buf2) = 0
    BY <2>1, <2>2
  <2>4. ASSUME NEW i \in DOMAIN bs2 PROVE Len(bs2[i]) = BatchSize
    <3>1. CASE i \in DOMAIN bs
      BY <2>1, <2>2, <3>1 DEF Sized
    <3>2. CASE i \notin DOMAIN bs
      <4>1. bs2[i] = Append(buf, p)
        BY <2>1, <2>2, <3>2
      <4> QED
        BY <2>2, <4>1
    <3> QED
      BY <3>1, <3>2
  <2> QED
    BY <1>0, <2>3, <2>4, BatchSizeAssumption DEF Sized
<1>2. CASE ~(Len(buf) + 1 >= BatchSize)
  <2>1. buf2 = Append(buf, p) /\ bs2 = bs
    BY <1>2 DEF Cut
  <2>2. buf2 \in Seq(Entry) /\ Len(buf2) = Len(buf) + 1
    BY <2>1
  <2>3. Len(buf2) < BatchSize
    BY <1>0, <1>2, <2>2
  <2>4. \A i \in DOMAIN bs2 : Len(bs2[i]) = BatchSize
    BY <2>1 DEF Sized
  <2> QED
    BY <2>1, <2>2, <2>3, <2>4 DEF Sized
<1> QED
  BY <1>1, <1>2

LEMMA StepUploads ==
  ASSUME NEW r \in Request, NEW i \in DOMAIN ResponseChain, NEW d, ChainOK(d),
         ResponseChain[i] = "upload", d.state = "runs"
  PROVE  LET e == Step(r, i, d) IN
         /\ ChainOK(e) /\ e.state = "runs"
         /\ e.ctx.captured = d.ctx.captured /\ e.ctx.requestId
         /\ \E x \in {"none", "plain", "gzip"} :
              Cut(d.buffer, d.batches, Pending(r, d.ctx.captured, x), e.buffer, e.batches)
<1> DEFINE e == Step(r, i, d)
           p == Pending(r, d.ctx.captured, d.ctx.encrypted)
           pushed == Append(d.buffer, p)
           full == Len(pushed) >= BatchSize
<1>1. /\ d \in ChainState /\ d.ctx \in Context /\ d.buffer \in Seq(Entry)
      /\ d.batches \in Seq(Seq(Entry)) /\ d.rows \in SUBSET Request /\ i \in Nat
  BY ChainFacts DEF ChainOK, ChainState
<1>2. p \in Entry /\ d.ctx.encrypted \in {"none", "plain", "gzip"} /\ d.ctx.captured \in BOOLEAN
  BY <1>1 DEF Pending, Entry, Context
<1>3. Len(pushed) = Len(d.buffer) + 1
  BY <1>1, <1>2
<1> HIDE DEF p
<1>4. Upload(r, d) = [d EXCEPT !.buffer  = IF full THEN <<>> ELSE pushed,
                               !.batches = IF full THEN Append(@, pushed) ELSE @,
                               !.ctx.requestId = TRUE]
  BY DEF Upload, Pending, p
<1>5. e = [Upload(r, d) EXCEPT !.at = i + 1]
  BY DEF Step, Hook
<1> HIDE DEF pushed, full, e
<1>6. /\ e.buffer = IF full THEN <<>> ELSE pushed
      /\ e.batches = IF full THEN Append(d.batches, pushed) ELSE d.batches
      /\ e.ctx = [d.ctx EXCEPT !.requestId = TRUE]
      /\ e.state = "runs" /\ e.rows = d.rows /\ e.at = i + 1
      /\ e = [ctx |-> e.ctx, buffer |-> e.buffer, batches |-> e.batches,
              rows |-> e.rows, at |-> e.at, state |-> e.state]
  BY <1>1, <1>4, <1>5 DEF ChainState
<1>7. Cut(d.buffer, d.batches, p, e.buffer, e.batches)
  BY <1>3, <1>6 DEF Cut, full, pushed
<1>8. e.buffer \in Seq(Entry) /\ e.batches \in Seq(Seq(Entry)) /\ Sized(e.buffer, e.batches)
  BY <1>1, <1>2, <1>7, CutSized DEF ChainOK
<1>9. e.ctx \in Context /\ e.ctx.captured = d.ctx.captured /\ e.ctx.requestId
  BY <1>1, <1>6 DEF Context
<1>10. ChainOK(e)
  <2>1. e.rows \in SUBSET Request /\ e.at \in Nat /\ e.state \in {"runs", "threw", "gzipping"}
    BY <1>1, <1>6
  <2>2. [ctx |-> e.ctx, buffer |-> e.buffer, batches |-> e.batches,
         rows |-> e.rows, at |-> e.at, state |-> e.state] \in ChainState
    BY <1>8, <1>9, <2>1 DEF ChainState
  <2> QED
    BY <1>6, <1>8, <2>2 DEF ChainOK
<1> QED
  BY <1>2, <1>6, <1>7, <1>9, <1>10 DEF e, p

\* What the response hooks leave of a request that LM Studio has answered.
Outcome(r, e) ==
  /\ ChainOK(e) /\ e.ctx.captured = context[r].captured
  /\ e.state = "threw" => "taco-encrypt" \in enabled /\ ~key
  /\ e.state = "gzipping" => "gzip" \in enabled
  /\ "upload" \notin enabled => /\ e.buffer = buffer /\ e.batches = batches
                                /\ e.ctx.requestId = context[r].requestId
  /\ "upload" \in enabled =>
       /\ e.ctx.requestId
       /\ \E x \in {"none", "plain", "gzip"} :
            Cut(buffer, batches, Pending(r, context[r].captured, x), e.buffer, e.batches)

LEMMA ChainStarts ==
  ASSUME TypeOK, NEW r \in Request
  PROVE  /\ ChainOK(Chain(r)) /\ Chain(r).at = 1 /\ Chain(r).state = "runs"
         /\ Chain(r).ctx = context[r] /\ Chain(r).buffer = buffer /\ Chain(r).batches = batches
<1>1. context[r] \in Context
  BY DEF TypeOK, Context
<1> QED
  BY <1>1 DEF Chain, ChainOK, ChainState, Sized, TypeOK

LEMMA ChainOutcome ==
  ASSUME TypeOK, NEW r \in Request
  PROVE  Outcome(r, Execute(r, Chain(r)))
<1> DEFINE L  == Len(ResponseChain)
           c  == Chain(r)
           d1 == Step(r, 1, c)
           d2 == Step(r, 2, d1)
           d3 == Step(r, 3, d2)
           d4 == Step(r, 4, d3)
           d5 == Step(r, 5, d4)
           e  == Execute(r, c)
<1>1. L \in 1 .. 5 /\ DOMAIN ResponseChain = 1 .. L
  BY ChainFacts
<1>2. /\ ChainOK(c) /\ c.at = 1 /\ c.state = "runs"
      /\ c.ctx = context[r] /\ c.buffer = buffer /\ c.batches = batches
  BY ChainStarts
<1>4. \/ L = 1 /\ e = d1
      \/ L = 2 /\ e = d2
      \/ L = 3 /\ e = d3
      \/ L = 4 /\ e = d4
      \/ L = 5 /\ e = d5
  <2> DEFINE b2 == Step(r, 1 + 1, d1)
             b3 == Step(r, 1 + 2, b2)
             b4 == Step(r, 1 + 3, b3)
             b5 == Step(r, 1 + 4, b4)
  <2>1. 1 \in 1 .. 5 /\ c.at = 1 /\ 1 <= Len(ResponseChain)
    BY <1>1, <1>2
  <2> HIDE DEF c
  <2>2. \/ L = 1     /\ e = d1
        \/ L = 1 + 1 /\ e = b2
        \/ L = 1 + 2 /\ e = b3
        \/ L = 1 + 3 /\ e = b4
        \/ L = 1 + 4 /\ e = b5
    BY <2>1, Unfold
  <2>3. b2 = d2
    OBVIOUS
  <2> HIDE DEF b2, d2
  <2>4. b3 = d3
    BY <2>3
  <2> HIDE DEF b3, d3
  <2>5. b4 = d4
    BY <2>4
  <2> HIDE DEF b4, d4
  <2>6. b5 = d5
    BY <2>5
  <2> HIDE DEF L, e, d1, b5, d5
  <2>7. 1 + 1 = 2 /\ 1 + 2 = 3 /\ 1 + 3 = 4 /\ 1 + 4 = 5
    OBVIOUS
  <2> QED
    BY <2>2, <2>3, <2>4, <2>5, <2>6, <2>7
<1> HIDE DEF c, e, L
<1>5. CASE "upload" \notin enabled
  <2>0. \A i \in 1 .. L : ResponseChain[i] # "upload"
    BY <1>1, <1>5, ChainFacts
  <2>1. ChainOK(d1) /\ Keeps(c, d1)
    BY <1>1, <1>2, <2>0, StepKeeps
  <2>2. L >= 2 => ChainOK(d2) /\ Keeps(d1, d2)
    BY <1>1, <2>0, <2>1, StepKeeps
  <2>3. L >= 3 => ChainOK(d3) /\ Keeps(d2, d3)
    BY <1>1, <2>0, <2>2, StepKeeps
  <2>4. L >= 4 => ChainOK(d4) /\ Keeps(d3, d4)
    BY <1>1, <2>0, <2>3, StepKeeps
  <2>5. L >= 5 => ChainOK(d5) /\ Keeps(d4, d5)
    BY <1>1, <2>0, <2>4, StepKeeps
  <2> HIDE DEF d1, d2, d3, d4, d5
  <2>6. ChainOK(e) /\ Keeps(c, e)
    <3>1. L >= 2 => Keeps(c, d2)
      BY <2>1, <2>2, KeepsOn
    <3>2. L >= 3 => Keeps(c, d3)
      BY <1>1, <2>3, <3>1, KeepsOn
    <3>3. L >= 4 => Keeps(c, d4)
      BY <1>1, <2>4, <3>2, KeepsOn
    <3>4. L >= 5 => Keeps(c, d5)
      BY <1>1, <2>5, <3>3, KeepsOn
    <3> QED
      BY <1>4, <2>1, <2>2, <2>3, <2>4, <2>5, <3>1, <3>2, <3>3, <3>4
  <2> QED
    BY <1>2, <1>5, <2>6 DEF Outcome, Keeps, e, c
<1>6. CASE "upload" \in enabled
  <2>0. /\ L > 2 /\ ResponseChain[1] = "cid-recorder" /\ ResponseChain[2] = "upload"
        /\ \A i \in 3 .. L : ResponseChain[i] # "upload"
    BY <1>6, ChainFacts DEF L
  <2>1. ChainOK(d1) /\ Keeps(c, d1)
    BY <1>1, <1>2, <2>0, StepKeeps
  <2>2. d1.state = "runs"
    <3>1. Hook(r, "cid-recorder", c).state = "runs" /\ Hook(r, "cid-recorder", c) \in ChainState
      BY <1>2 DEF Hook, ChainOK, ChainState
    <3>2. d1 = [Hook(r, "cid-recorder", c) EXCEPT !.at = 1 + 1]
      BY <1>2, <2>0 DEF Step
    <3> QED
      BY <3>1, <3>2 DEF ChainState
  <2>3. /\ ChainOK(d2) /\ d2.state = "runs"
        /\ d2.ctx.captured = d1.ctx.captured /\ d2.ctx.requestId
        /\ \E x \in {"none", "plain", "gzip"} :
             Cut(d1.buffer, d1.batches, Pending(r, d1.ctx.captured, x), d2.buffer, d2.batches)
    <3> HIDE DEF d1
    <3> QED
      BY <1>1, <2>0, <2>1, <2>2, StepUploads
  <2>4. ChainOK(d3) /\ Keeps(d2, d3)
    BY <1>1, <2>0, <2>3, StepKeeps
  <2>5. L >= 4 => ChainOK(d4) /\ Keeps(d3, d4)
    BY <1>1, <2>0, <2>4, StepKeeps
  <2>6. L >= 5 => ChainOK(d5) /\ Keeps(d4, d5)
    BY <1>1, <2>0, <2>5, StepKeeps
  <2> HIDE DEF d1, d2, d3, d4, d5
  <2>7. ChainOK(e) /\ Keeps(d2, e)
    <3>1. L >= 4 => Keeps(d2, d4)
      BY <2>4, <2>5, KeepsOn
    <3>2. L >= 5 => Keeps(d2, d5)
      BY <1>1, <2>6, <3>1, KeepsOn
    <3> QED
      BY <1>1, <1>4, <2>0, <2>4, <2>5, <2>6, <3>1, <3>2
  <2>8. /\ d1.buffer = buffer /\ d1.batches = batches /\ d1.ctx.captured = context[r].captured
        /\ d2.ctx.captured = context[r].captured
    BY <1>2, <2>1, <2>3 DEF Keeps
  <2>9. \E x \in {"none", "plain", "gzip"} :
          Cut(buffer, batches, Pending(r, context[r].captured, x), e.buffer, e.batches)
    BY <2>3, <2>7, <2>8 DEF Keeps
  <2> QED
    BY <1>6, <2>3, <2>7, <2>8, <2>9 DEF Outcome, Keeps, e, c
<1> QED
  BY <1>5, <1>6 DEF e, c

\* After the wait of gzip only the logger is left.
LEMMA GzipOutcome ==
  ASSUME TypeOK, NEW r \in Request, "gzip" \in enabled
  PROVE  LET e == Execute(r, [Chain(r) EXCEPT !.ctx.gzip = TRUE, !.at = After("gzip")]) IN
         /\ ChainOK(e) /\ e.state = "runs" /\ e.buffer = buffer /\ e.batches = batches
         /\ e.ctx.captured = context[r].captured /\ e.ctx.requestId = context[r].requestId
<1> DEFINE L == Len(ResponseChain)
           c == [Chain(r) EXCEPT !.ctx.gzip = TRUE, !.at = After("gzip")]
           e == Execute(r, c)
           d == Step(r, L, c)
<1>1. L \in 2 .. 5 /\ ResponseChain[L - 1] = "gzip" /\ ResponseChain[L] = "logger"
      /\ L - 1 \in DOMAIN ResponseChain /\ L \in DOMAIN ResponseChain
  BY ChainFacts
<1>2. After("gzip") = L
  <2>1. \A i \in DOMAIN ResponseChain : ResponseChain[i] = "gzip" <=> i = L - 1
    BY <1>1, ChainFacts
  <2>2. (CHOOSE i \in DOMAIN ResponseChain : ResponseChain[i] = "gzip") = L - 1
    BY <1>1, <2>1
  <2> DEFINE i == CHOOSE i \in DOMAIN ResponseChain : ResponseChain[i] = "gzip"
  <2>3. After("gzip") = 1 + i
    BY DEF After
  <2> HIDE DEF i
  <2>4. i = L - 1
    BY <2>2 DEF i
  <2> QED
    BY <1>1, <2>3, <2>4
<1>3. /\ ChainOK(c) /\ c.at = L /\ c.state = "runs" /\ c.buffer = buffer /\ c.batches = batches
      /\ c.ctx.captured = context[r].captured /\ c.ctx.requestId = context[r].requestId
  <2>1. /\ Chain(r) \in ChainState /\ Sized(buffer, batches) /\ Chain(r).state = "runs"
        /\ Chain(r).ctx = context[r] /\ Chain(r).buffer = buffer /\ Chain(r).batches = batches
    BY ChainStarts DEF ChainOK
  <2>2. [context[r] EXCEPT !.gzip = TRUE] \in Context
    BY <2>1 DEF ChainState, Context
  <2>3. /\ c.ctx = [context[r] EXCEPT !.gzip = TRUE] /\ c.at = L /\ c.state = "runs"
        /\ c.buffer = buffer /\ c.batches = batches /\ c \in ChainState
    <3> DEFINE s == Chain(r)
    <3>1. c = [s EXCEPT !.ctx = [s.ctx EXCEPT !.gzip = TRUE], !.at = L]
      BY <1>2, <2>1 DEF ChainState, Context
    <3>2. L \in Nat /\ s \in ChainState /\ s.ctx = context[r] /\ s.buffer = buffer
          /\ s.batches = batches /\ s.state = "runs"
      BY <1>1, <2>1
    <3> HIDE DEF s, c, L
    <3> QED
      BY <2>2, <3>1, <3>2 DEF ChainState
  <2> HIDE DEF c
  <2>4. context[r] \in Context
    BY <2>1 DEF ChainState
  <2>5. c.ctx.captured = context[r].captured /\ c.ctx.requestId = context[r].requestId
    BY <2>3, <2>4 DEF Context
  <2> QED
    BY <2>1, <2>3, <2>5 DEF ChainOK
<1>4. e = d
  <2>1. c.at = L /\ L <= Len(ResponseChain) /\ L \in 1 .. 5
    BY <1>1, <1>3
  <2>2. L \notin {L + 1, L + 2, L + 3, L + 4}
    BY <1>1
  <2> HIDE DEF c
  <2>3. LET b1 == Step(r, L, c)
            b2 == Step(r, L + 1, b1)
            b3 == Step(r, L + 2, b2)
            b4 == Step(r, L + 3, b3)
            b5 == Step(r, L + 4, b4)
        IN  \/ L = L     /\ e = b1
            \/ L = L + 1 /\ e = b2
            \/ L = L + 2 /\ e = b3
            \/ L = L + 3 /\ e = b4
            \/ L = L + 4 /\ e = b5
    BY <2>1, Unfold
  <2> HIDE DEF L
  <2> QED
    BY <2>2, <2>3
<1>5. d = [c EXCEPT !.at = L + 1]
  BY <1>1, <1>3 DEF Step, Hook
<1> HIDE DEF c, d, e
<1>6. L + 1 \in Nat
  BY <1>1
<1>7. ChainOK(d) /\ d.state = "runs" /\ d.buffer = c.buffer /\ d.batches = c.batches
      /\ d.ctx = c.ctx
  BY <1>3, <1>5, <1>6 DEF ChainOK, ChainState
<1> QED
  BY <1>3, <1>4, <1>7 DEF e, c

-----------------------------------------------------------------------------
(* What the steps do *)

Cuts(r) == \E x \in {"none", "plain", "gzip"} :
             Cut(buffer, batches, Pending(r, context[r].captured, x), buffer', batches')

\* The context of r, and what was captured, after a chain of hooks.
ChainTypes == /\ context' \in [Request -> Context] /\ rows' \subseteq Request
              /\ buffer' \in Seq(Entry) /\ batches' \in Seq(Seq(Entry))
              /\ Sized(buffer', batches')

OwnContext(r) == /\ \A q \in Request \ {r} : context'[q] = context[q]
                 /\ context'[r].captured = context[r].captured

LEMMA ResumeEffect ==
  ASSUME TypeOK, NEW r \in Request, NEW c, ChainOK(c),
         c.ctx.captured = context[r].captured, Resume(r, c)
  PROVE  ChainTypes /\ OwnContext(r) /\ context'[r] = c.ctx
<1>1. /\ context' = [context EXCEPT ![r] = c.ctx] /\ c.ctx \in Context
      /\ buffer' = c.buffer /\ batches' = c.batches /\ rows' = c.rows
      /\ c.buffer \in Seq(Entry) /\ c.batches \in Seq(Seq(Entry)) /\ c.rows \in SUBSET Request
      /\ Sized(c.buffer, c.batches)
  BY DEF Resume, ChainOK, ChainState
<1>2. context \in [Request -> Context]
  BY DEF TypeOK, Context
<1> QED
  BY <1>1, <1>2 DEF ChainTypes, OwnContext

LEMMA AnswerEffect ==
  ASSUME TypeOK, NEW r \in Request, ModelAnswers(r)
  PROVE  /\ ChainTypes /\ OwnContext(r)
         /\ "upload" \notin enabled => /\ UNCHANGED <<buffer, batches>>
                                       /\ context'[r].requestId = context[r].requestId
         /\ "upload" \in enabled => context'[r].requestId /\ Cuts(r)
         /\ \/ Finish(r, <<"ok">>)
            \/ Finish(r, <<"error">>) /\ "taco-encrypt" \in enabled /\ ~key
            \/ /\ pc' = [pc EXCEPT ![r] = "gzipping"] /\ UNCHANGED reply
               /\ "gzip" \in enabled
<1> DEFINE e == Execute(r, Chain(r))
<1>1. Outcome(r, e) /\ Resume(r, e)
  BY ChainOutcome DEF ModelAnswers
<1> HIDE DEF e
<1>2. ChainTypes /\ OwnContext(r) /\ context'[r] = e.ctx
  BY <1>1, ResumeEffect DEF Outcome
<1>3. buffer' = e.buffer /\ batches' = e.batches
  BY <1>1 DEF Resume
<1>4. "upload" \notin enabled => /\ UNCHANGED <<buffer, batches>>
                                 /\ context'[r].requestId = context[r].requestId
  BY <1>1, <1>2, <1>3 DEF Outcome
<1>5. "upload" \in enabled => context'[r].requestId /\ Cuts(r)
  BY <1>1, <1>2, <1>3 DEF Outcome, Cuts
<1>6. \/ Finish(r, <<"ok">>)
      \/ Finish(r, <<"error">>) /\ "taco-encrypt" \in enabled /\ ~key
      \/ /\ pc' = [pc EXCEPT ![r] = "gzipping"] /\ UNCHANGED reply
         /\ "gzip" \in enabled
  BY <1>1 DEF Resume, Outcome
<1> QED
  BY <1>2, <1>4, <1>5, <1>6

LEMMA GzipEffect ==
  ASSUME TypeOK, NEW r \in Request, "gzip" \in enabled, GzipDone(r)
  PROVE  /\ ChainTypes /\ OwnContext(r) /\ UNCHANGED <<buffer, batches>>
         /\ context'[r].requestId = context[r].requestId
         /\ Finish(r, <<"ok">>)
<1> DEFINE e == Execute(r, [Chain(r) EXCEPT !.ctx.gzip = TRUE, !.at = After("gzip")])
<1>1. /\ ChainOK(e) /\ e.state = "runs" /\ e.buffer = buffer /\ e.batches = batches
      /\ e.ctx.captured = context[r].captured /\ e.ctx.requestId = context[r].requestId
  BY GzipOutcome
<1>2. Resume(r, e)
  BY DEF GzipDone
<1> HIDE DEF e
<1>3. ChainTypes /\ OwnContext(r) /\ context'[r] = e.ctx
  BY <1>1, <1>2, ResumeEffect
<1>4. buffer' = buffer /\ batches' = batches /\ Finish(r, <<"ok">>)
  BY <1>1, <1>2 DEF Resume
<1> QED
  BY <1>1, <1>3, <1>4

LEMMA CutGrows ==
  ASSUME TypeOK, NEW r \in Request, Cuts(r), ChainTypes
  PROVE  Len(batches') >= Len(batches)
  BY DEF Cuts, Cut, ChainTypes, TypeOK

\* What shutdown() waits for.
Points == {"drain", "tunnel", "recorder", "synapse", "exit"}

LEMMA AwaitsFacts ==
  /\ Len(Awaits) \in 1 .. 5 /\ Awaits[Len(Awaits)] = "exit"
  /\ "upload" \in enabled => Len(Awaits) >= 4 /\ Awaits[1] = "drain"
<1> DEFINE u == "upload" \in enabled
           a == With("upload", <<"drain">>)
           b == With("libp2p", <<"tunnel">>)
           c == With("upload", <<"recorder", "synapse">>)
           x == a \o b
           y == x \o c
           z == y \o <<"exit">>
<1>1. /\ a \in Seq(Points) /\ b \in Seq(Points) /\ c \in Seq(Points)
      /\ Len(a) \in 0 .. 1 /\ Len(b) \in 0 .. 1 /\ Len(c) \in 0 .. 2
      /\ u => Len(a) = 1 /\ a[1] = "drain" /\ Len(c) = 2
  <2> DEFINE none == << >>
             d == <<"drain">>
             t == <<"tunnel">>
             rs == <<"recorder", "synapse">>
  <2>1. none \in Seq(Points) /\ Len(none) = 0
    OBVIOUS
  <2>2. d \in Seq(Points) /\ Len(d) = 1 /\ d[1] = "drain"
    BY DEF Points
  <2>3. t \in Seq(Points) /\ Len(t) = 1
    BY DEF Points
  <2>4. rs \in Seq(Points) /\ Len(rs) = 2
    BY DEF Points
  <2>5. /\ (u /\ a = d /\ c = rs) \/ (~u /\ a = none /\ c = none)
        /\ b = t \/ b = none
    BY DEF With
  <2> HIDE DEF a, b, c, none, d, t, rs
  <2>6. CASE u
    <3>1. /\ a \in Seq(Points) /\ Len(a) = 1 /\ a[1] = "drain"
          /\ c \in Seq(Points) /\ Len(c) = 2
      BY <2>2, <2>4, <2>5, <2>6
    <3>2. b \in Seq(Points) /\ (Len(b) = 0 \/ Len(b) = 1)
      BY <2>1, <2>3, <2>5
    <3> QED
      BY <3>1, <3>2
  <2>7. CASE ~u
    <3>1. /\ a \in Seq(Points) /\ Len(a) = 0 /\ c \in Seq(Points) /\ Len(c) = 0
      BY <2>1, <2>5, <2>7
    <3>2. b \in Seq(Points) /\ (Len(b) = 0 \/ Len(b) = 1)
      BY <2>1, <2>3, <2>5
    <3> QED
      BY <2>7, <3>1, <3>2
  <2> QED
    BY <2>6, <2>7
<1> HIDE DEF a, b, c
<1>2. x \in Seq(Points) /\ Len(x) = Len(a) + Len(b) /\ (u => x[1] = "drain")
  BY <1>1
<1> HIDE DEF x
<1>3. y \in Seq(Points) /\ Len(y) = Len(x) + Len(c) /\ (u => y[1] = "drain")
  BY <1>1, <1>2
<1> HIDE DEF y
<1>4. Len(z) = Len(y) + 1 /\ z[Len(y) + 1] = "exit" /\ (u => z[1] = "drain")
  <2>1. <<"exit">> \in Seq(Points) /\ Len(<<"exit">>) = 1 /\ <<"exit">>[1] = "exit"
    BY DEF Points
  <2>2. Len(y) \in Nat /\ (u => Len(y) >= 1)
    BY <1>1, <1>2, <1>3
  <2> QED
    BY <1>3, <2>1, <2>2
<1>5. Awaits = z
  BY DEF Awaits, a, b, c, x, y
<1> HIDE DEF z
<1>6. Len(z) \in 1 .. 5 /\ z[Len(z)] = "exit" /\ (u => Len(z) >= 4 /\ z[1] = "drain")
  <2>1. Len(z) = Len(a) + Len(b) + Len(c) + 1 /\ Len(z) = Len(y) + 1
    BY <1>1, <1>2, <1>3, <1>4
  <2>2. z[Len(z)] = "exit"
    BY <1>4, <2>1
  <2>3. \A i \in 0 .. 1, j \in 0 .. 1, k \in 0 .. 2 :
          i + j + k + 1 \in 1 .. 5 /\ (i = 1 /\ k = 2 => i + j + k + 1 >= 4)
    OBVIOUS
  <2>4. Len(z) \in 1 .. 5 /\ (Len(a) = 1 /\ Len(c) = 2 => Len(z) >= 4)
    BY <1>1, <2>1, <2>3
  <2> QED
    BY <1>1, <1>4, <2>2, <2>4
<1> QED
  BY <1>5, <1>6

-----------------------------------------------------------------------------
(* The invariants *)

\* Nothing is written to a request before its model is loaded, and only a plain
\* request waits for gzip.
EarlyOK ==
  \A r \in Request : /\ pc[r] \in {"new", "loading"} => reply[r] = << >>
                     /\ pc[r] = "gzipping" => "gzip" \in enabled /\ r \notin Streams

\* The process ends with the last thing a shutdown waits for; one that is past
\* its drain found everything settled that was asked for, or gave up.
ShutdownOK ==
  /\ alive => \A h \in Handler : stage[h] < Len(Awaits)
  /\ ~alive => \E h \in Handler : stage[h] # 0 /\ Awaits[stage[h]] = "exit"
  /\ "upload" \in enabled =>
       \A h \in Handler : stage[h] >= 2 => gaveUp \/ settled >= asked

\* Place i of batch b holds a conversation of r.
Holds(r, b, i) == /\ b \in DOMAIN AllBatches /\ i \in DOMAIN AllBatches[b]
                  /\ AllBatches[b][i].id = r

HeldSomewhere(r) == \E b, i : Holds(r, b, i)

OneCapture(r) ==
  \A b, i, c, j : Holds(r, b, i) /\ Holds(r, c, j) => b = c /\ i = j

CaptureOf(r) ==
  /\ \A b, i : Holds(r, b, i) =>
       /\ AllBatches[b][i].request /\ context[r].requestId /\ r \notin Streams
       /\ pc[r] \in {"gzipping", "done"} /\ "upload" \in enabled
  /\ (pc[r] = "gzipping" \/ reply[r] = <<"ok">>) /\ "upload" \in enabled => HeldSomewhere(r)
  /\ pc[r] \in {"loading", "predicting"} /\ "upload" \in enabled => context[r].captured
  /\ pc[r] = "gzipping" => reply[r] = << >>
  /\ reply[r] = <<"error">> /\ HeldSomewhere(r) => "taco-encrypt" \in enabled /\ ~key

CaptureOK == \A r \in Request : OneCapture(r) /\ CaptureOf(r)

IInv == TypeOK /\ EarlyOK /\ RepliesWellFormed /\ ShutdownOK /\ CaptureOK

-----------------------------------------------------------------------------
(* Types *)

LEMMA FinishType ==
  ASSUME TypeOK, NEW r \in Request,
         NEW events \in Seq({"ok", "error", "chunk", "stop", "DONE"}), Finish(r, events)
  PROVE  /\ pc' \in [Request -> {"new", "loading", "predicting", "gzipping", "done"}]
         /\ reply' \in [Request -> Seq({"ok", "error", "chunk", "stop", "DONE"})]
  BY DEF TypeOK, Finish

\* A request that moves before its answer is there.
LEMMA RequestTypes ==
  ASSUME TypeOK, UNCHANGED <<fixed, capture, settled, shutVars>>,
         pc' \in [Request -> {"new", "loading", "predicting", "gzipping", "done"}],
         context' \in [Request -> Context],
         reply' \in [Request -> Seq({"ok", "error", "chunk", "stop", "DONE"})]
  PROVE  TypeOK'
  BY DEF TypeOK, Context, fixed, capture, shutVars, Awaits, With

\* One whose hooks have run.
LEMMA AnswerTypes ==
  ASSUME TypeOK, UNCHANGED <<fixed, settled, shutVars>>, ChainTypes,
         Len(batches') >= Len(batches),
         pc' \in [Request -> {"new", "loading", "predicting", "gzipping", "done"}],
         reply' \in [Request -> Seq({"ok", "error", "chunk", "stop", "DONE"})]
  PROVE  TypeOK'
<1>1. settled' \in 0 .. Len(batches') /\ asked' \in 0 .. Len(batches')
  <2>1. batches \in Seq(Seq(Entry)) /\ batches' \in Seq(Seq(Entry))
    BY DEF TypeOK, ChainTypes
  <2>2. Len(batches) \in Nat /\ Len(batches') \in Nat
    BY <2>1
  <2>3. settled \in 0 .. Len(batches) /\ asked \in 0 .. Len(batches)
    BY DEF TypeOK
  <2> QED
    BY <2>2, <2>3 DEF shutVars
<1> QED
  BY <1>1 DEF TypeOK, ChainTypes, Sized, Context, fixed, shutVars, Awaits, With

\* A signal or the end of what a shutdown waits for.
LEMMA AdvanceTypes ==
  ASSUME TypeOK, NEW h \in Handler, stage[h] < Len(Awaits), Advance(h),
         UNCHANGED <<fixed, pc, context, reply, capture, settled>>,
         gaveUp' \in BOOLEAN, asked' \in 0 .. Len(batches)
  PROVE  TypeOK'
<1>1. stage \in [Handler -> 0 .. Len(Awaits)] /\ Len(Awaits) \in Nat
  BY AwaitsFacts DEF TypeOK
<1>2. stage' \in [Handler -> 0 .. Len(Awaits)]
  <2>1. stage[h] + 1 \in 0 .. Len(Awaits)
    BY <1>1
  <2> QED
    BY <1>1, <2>1 DEF Advance
<1>3. Awaits' = Awaits
  BY DEF Awaits, With, fixed
<1>4. key' \in BOOLEAN /\ recorderOpen' \in BOOLEAN /\ alive' \in BOOLEAN
  BY DEF Advance
<1> QED
  BY <1>2, <1>3, <1>4 DEF TypeOK, fixed, capture

LEMMA TypeStep == TypeOK /\ EarlyOK /\ ShutdownOK /\ [Next]_vars => TypeOK'
<1> SUFFICES ASSUME TypeOK, EarlyOK, ShutdownOK, [Next]_vars
             PROVE  TypeOK'
  OBVIOUS
<1>0. /\ pc \in [Request -> {"new", "loading", "predicting", "gzipping", "done"}]
      /\ context \in [Request -> Context]
      /\ reply \in [Request -> Seq({"ok", "error", "chunk", "stop", "DONE"})]
  BY DEF TypeOK, Context
<1>00. /\ <<"ok">> \in Seq({"ok", "error", "chunk", "stop", "DONE"})
       /\ <<"error">> \in Seq({"ok", "error", "chunk", "stop", "DONE"})
       /\ <<"stop", "DONE">> \in Seq({"ok", "error", "chunk", "stop", "DONE"})
  OBVIOUS
<1>1. ASSUME NEW r \in Request, Receive(r)
      PROVE  TypeOK'
  <2>1. CASE Finish(r, <<"error">>) /\ UNCHANGED context
    BY <1>0, <1>00, <1>1, <2>1, FinishType, RequestTypes DEF Receive
  <2>2. CASE /\ pc' = [pc EXCEPT ![r] = "loading"]
             /\ context' = [context EXCEPT ![r].captured = Captures]
             /\ UNCHANGED reply
    <3>1. context' \in [Request -> Context]
      BY <1>0, <2>2 DEF Context, Captures
    <3> QED
      BY <1>0, <1>1, <2>2, <3>1, RequestTypes DEF Receive
  <2> QED
    BY <1>1, <2>1, <2>2 DEF Receive
<1>2. ASSUME NEW r \in Request, ModelLoaded(r)
      PROVE  TypeOK'
  BY <1>0, <1>2, RequestTypes DEF ModelLoaded
<1>3. ASSUME NEW r \in Request, LoadFails(r)
      PROVE  TypeOK'
  BY <1>0, <1>00, <1>3, FinishType, RequestTypes DEF LoadFails
<1>4. ASSUME NEW r \in Request, ModelAnswers(r)
      PROVE  TypeOK'
  <2>1. Len(batches') >= Len(batches) /\ ChainTypes
    <3>1. CASE "upload" \in enabled
      BY <1>4, <3>1, AnswerEffect, CutGrows
    <3>2. CASE "upload" \notin enabled
      BY <1>4, <3>2, AnswerEffect DEF TypeOK
    <3> QED
      BY <3>1, <3>2
  <2>2. \/ Finish(r, <<"ok">>) \/ Finish(r, <<"error">>)
        \/ pc' = [pc EXCEPT ![r] = "gzipping"] /\ UNCHANGED reply
    BY <1>4, AnswerEffect
  <2>3. /\ pc' \in [Request -> {"new", "loading", "predicting", "gzipping", "done"}]
        /\ reply' \in [Request -> Seq({"ok", "error", "chunk", "stop", "DONE"})]
    BY <1>0, <1>00, <2>2, FinishType
  <2> QED
    BY <1>4, <2>1, <2>3, AnswerTypes DEF ModelAnswers
<1>5. ASSUME NEW r \in Request, GzipDone(r)
      PROVE  TypeOK'
  <2>1. "gzip" \in enabled
    BY <1>5 DEF GzipDone, EarlyOK
  <2>2. ChainTypes /\ UNCHANGED batches /\ Finish(r, <<"ok">>)
    BY <1>5, <2>1, GzipEffect
  <2>3. /\ pc' \in [Request -> {"new", "loading", "predicting", "gzipping", "done"}]
        /\ reply' \in [Request -> Seq({"ok", "error", "chunk", "stop", "DONE"})]
    BY <1>00, <2>2, FinishType
  <2>4. Len(batches') >= Len(batches)
    BY <2>2 DEF TypeOK
  <2> QED
    BY <1>5, <2>2, <2>3, <2>4, AnswerTypes DEF GzipDone
<1>6. ASSUME NEW r \in Request, PredictionFails(r) \/ TimesOut(r)
      PROVE  TypeOK'
  <2>1. /\ Finish(r, <<"stop", "DONE">>) \/ Finish(r, <<"error">>)
        /\ UNCHANGED <<fixed, context, capture, settled, shutVars>>
    BY <1>6 DEF PredictionFails, TimesOut, StreamFails
  <2> QED
    BY <1>0, <1>00, <2>1, FinishType, RequestTypes
<1>7. ASSUME NEW r \in Request, StreamChunk(r)
      PROVE  TypeOK'
  <2>1. reply' \in [Request -> Seq({"ok", "error", "chunk", "stop", "DONE"})]
    BY <1>0, <1>7 DEF StreamChunk
  <2> QED
    BY <1>0, <1>7, <2>1, RequestTypes DEF StreamChunk
<1>8. ASSUME NEW r \in Request, StreamEnds(r)
      PROVE  TypeOK'
  BY <1>0, <1>00, <1>8, FinishType, RequestTypes DEF StreamEnds
<1>9. CASE BatchSettles
  <2>1. settled + 1 \in 0 .. Len(batches)
    BY <1>9 DEF BatchSettles, TypeOK
  <2> QED
    BY <1>9, <2>1 DEF BatchSettles, TypeOK, fixed, capture, shutVars, Awaits, With
<1>10. ASSUME NEW h \in Handler, Signal(h)
       PROVE  TypeOK'
  <2>1. asked' \in 0 .. Len(batches) /\ gaveUp' \in BOOLEAN
    BY <1>10 DEF Signal, TypeOK
  <2>2. stage[h] < Len(Awaits)
    BY <1>10, AwaitsFacts DEF Signal
  <2> QED
    BY <1>10, <2>1, <2>2, AdvanceTypes DEF Signal
<1>11. ASSUME NEW h \in Handler, AwaitEnds(h) \/ DrainGivesUp(h)
       PROVE  TypeOK'
  <2>1. asked' \in 0 .. Len(batches) /\ gaveUp' \in BOOLEAN /\ stage[h] < Len(Awaits)
    BY <1>11 DEF AwaitEnds, DrainGivesUp, TypeOK, ShutdownOK
  <2>2. Advance(h) /\ UNCHANGED <<fixed, pc, context, reply, capture, settled>>
    BY <1>11 DEF AwaitEnds, DrainGivesUp
  <2> QED
    BY <2>1, <2>2, AdvanceTypes
<1>12. CASE UNCHANGED vars
  BY <1>12 DEF vars, TypeOK, fixed, capture, shutVars, Awaits, With
<1> QED
  BY <1>1, <1>2, <1>3, <1>4, <1>5, <1>6, <1>7, <1>8, <1>9, <1>10, <1>11, <1>12
     DEF Next, RequestStep, ShutdownStep

-----------------------------------------------------------------------------
(* Replies *)

\* What the transport writes to one request.
ReplyOK(r) ==
  /\ pc[r] \in {"new", "loading"} => reply[r] = << >>
  /\ pc[r] = "gzipping" => "gzip" \in enabled /\ r \notin Streams
  /\ LET n == Len(reply[r]) IN
     IF r \notin Streams THEN n <= 1 /\ (pc[r] = "done" <=> n = 1)
     ELSE IF pc[r] # "done" THEN \A i \in 1..n : reply[r][i] = "chunk"
     ELSE \/ reply[r] = <<"error">>
          \/ /\ n >= 2 /\ reply[r][n - 1] = "stop" /\ reply[r][n] = "DONE"
             /\ \A i \in 1..(n - 2) : reply[r][i] = "chunk"

LEMMA ReplyMeaning == EarlyOK /\ RepliesWellFormed <=> \A r \in Request : ReplyOK(r)
  BY DEF EarlyOK, RepliesWellFormed, ReplyOK

\* How the events of a request go on.
LEMMA FinishPlain ==
  ASSUME TypeOK, NEW r \in Request, ReplyOK(r), r \notin Streams, pc[r] # "done",
         NEW x \in {"ok", "error"}, Finish(r, <<x>>), UNCHANGED fixed
  PROVE  ReplyOK(r)' /\ reply'[r] = <<x>>
<1>1. reply[r] \in Seq({"ok", "error", "chunk", "stop", "DONE"}) /\ Len(reply[r]) = 0
  BY DEF TypeOK, ReplyOK
<1>2. pc'[r] = "done" /\ reply'[r] = reply[r] \o <<x>>
  BY DEF Finish, TypeOK
<1>3. reply[r] = << >>
  BY <1>1
<1>4. reply'[r] = <<x>> /\ Len(reply'[r]) = 1
  BY <1>2, <1>3
<1>5. Len(reply'[r]) <= 1 /\ (pc'[r] = "done" <=> Len(reply'[r]) = 1)
  BY <1>2, <1>4
<1>6. ReplyOK(r)'
  BY <1>2, <1>5 DEF ReplyOK
<1> QED
  BY <1>4, <1>6

LEMMA FinishEarly ==
  ASSUME TypeOK, NEW r \in Request, ReplyOK(r), pc[r] \in {"new", "loading"},
         Finish(r, <<"error">>), UNCHANGED fixed
  PROVE  ReplyOK(r)' /\ reply'[r] = <<"error">>
<1>1. pc'[r] = "done" /\ reply'[r] = << >> \o <<"error">>
  BY DEF Finish, TypeOK, ReplyOK
<1>2. reply'[r] = <<"error">> /\ Len(reply'[r]) = 1
  BY <1>1
<1> QED
  BY <1>1, <1>2 DEF ReplyOK, fixed

LEMMA FinishStream ==
  ASSUME TypeOK, NEW r \in Request, ReplyOK(r), r \in Streams, pc[r] # "done",
         Finish(r, <<"stop", "DONE">>), UNCHANGED fixed
  PROVE  ReplyOK(r)' /\ reply'[r] # <<"ok">> /\ reply'[r] # <<"error">>
<1> DEFINE s == reply[r]
           e == <<"stop", "DONE">>
           t == s \o e
           Event == {"ok", "error", "chunk", "stop", "DONE"}
<1>1. s \in Seq(Event) /\ \A i \in 1 .. Len(s) : s[i] = "chunk"
  BY DEF TypeOK, ReplyOK
<1>2. pc'[r] = "done" /\ reply'[r] = t
  BY DEF Finish, TypeOK
<1>3. e \in Seq(Event) /\ Len(e) = 2 /\ e[1] = "stop" /\ e[2] = "DONE"
  OBVIOUS
<1> HIDE DEF s, e, Event
<1>4. /\ Len(t) = Len(s) + 2 /\ Len(s) \in Nat
      /\ \A i \in 1 .. Len(s) : t[i] = "chunk"
      /\ t[Len(s) + 1] = "stop" /\ t[Len(s) + 2] = "DONE"
  <2>0. s \in Seq(Event) /\ e \in Seq(Event)
    BY <1>1, <1>3
  <2>1. Len(t) = Len(s) + 2 /\ Len(s) \in Nat
    <3>1. Len(t) = Len(s) + Len(e) /\ Len(s) \in Nat
      BY <2>0
    <3> QED
      BY <1>3, <3>1
  <2>2. \A i \in 1 .. Len(s) : t[i] = s[i]
    BY <1>1, <1>3
  <2>3. t[Len(s) + 1] = e[1] /\ t[Len(s) + 2] = e[2]
    BY <1>1, <1>3, <2>1
  <2> QED
    BY <1>1, <1>3, <2>1, <2>2, <2>3
<1> HIDE DEF t
<1>5. /\ Len(t) >= 2 /\ Len(t) - 1 = Len(s) + 1 /\ Len(t) - 2 = Len(s)
      /\ t[Len(t) - 1] = "stop" /\ t[Len(t)] = "DONE"
      /\ \A i \in 1 .. Len(t) - 2 : t[i] = "chunk"
  BY <1>4
<1>6. t # <<"ok">> /\ t # <<"error">>
  <2>1. Len(<<"ok">>) = 1 /\ Len(<<"error">>) = 1
    OBVIOUS
  <2> QED
    BY <1>5, <2>1
<1> QED
  BY <1>2, <1>5, <1>6 DEF ReplyOK, fixed

LEMMA ChunkStream ==
  ASSUME TypeOK, NEW r \in Request, ReplyOK(r), StreamChunk(r)
  PROVE  ReplyOK(r)' /\ reply'[r] # <<"ok">> /\ reply'[r] # <<"error">>
<1> DEFINE s == reply[r]
           t == Append(s, "chunk")
<1>1. /\ s \in Seq({"ok", "error", "chunk", "stop", "DONE"})
      /\ \A i \in 1 .. Len(s) : s[i] = "chunk"
  BY DEF TypeOK, ReplyOK, StreamChunk
<1>2. pc'[r] = "predicting" /\ r \in Streams /\ reply'[r] = t
  BY DEF StreamChunk, TypeOK
<1> HIDE DEF s
<1>3. Len(t) \in Nat \ {0} /\ \A i \in 1 .. Len(t) : t[i] = "chunk"
  BY <1>1
<1>4. t[1] = "chunk"
  BY <1>3
<1> HIDE DEF t
<1>5. t # <<"ok">> /\ t # <<"error">>
  BY <1>4
<1> QED
  BY <1>2, <1>3, <1>5 DEF ReplyOK, fixed

LEMMA RepliesStep ==
  TypeOK /\ (\A r \in Request : ReplyOK(r)) /\ [Next]_vars => \A r \in Request : ReplyOK(r)'
<1> SUFFICES ASSUME TypeOK, \A r \in Request : ReplyOK(r), [Next]_vars, NEW r \in Request
             PROVE  ReplyOK(r)'
  OBVIOUS
<1>0. pc \in [Request -> {"new", "loading", "predicting", "gzipping", "done"}]
      /\ reply \in [Request -> Seq({"ok", "error", "chunk", "stop", "DONE"})]
  BY DEF TypeOK
<1>1. ASSUME UNCHANGED <<enabled, pc, reply>>
      PROVE  ReplyOK(r)'
  BY <1>1 DEF ReplyOK
<1>2. ASSUME NEW q \in Request, RequestStep(q)
      PROVE  ReplyOK(r)'
  <2>1. UNCHANGED fixed
    BY <1>2 DEF RequestStep, Receive, ModelLoaded, LoadFails, ModelAnswers, GzipDone,
                PredictionFails, TimesOut, StreamChunk, StreamEnds
  <2>2. CASE q # r
    <3>1. pc'[r] = pc[r] /\ reply'[r] = reply[r]
      BY <1>0, <1>2, <2>2
         DEF RequestStep, Receive, ModelLoaded, LoadFails, ModelAnswers, GzipDone, Resume,
             PredictionFails, TimesOut, StreamFails, StreamChunk, StreamEnds, Finish
    <3> QED
      BY <2>1, <3>1 DEF ReplyOK, fixed
  <2>3. CASE q = r
    <3>1. CASE Receive(r) \/ LoadFails(r) \/ ModelLoaded(r)
      <4>1. CASE Finish(r, <<"error">>)
        BY <2>1, <3>1, <4>1, FinishEarly DEF Receive, LoadFails, ModelLoaded
      <4>2. CASE pc' = [pc EXCEPT ![r] = "loading"] /\ UNCHANGED reply
        BY <1>0, <2>1, <3>1, <4>2 DEF ReplyOK, Receive, LoadFails, ModelLoaded, fixed
      <4>3. CASE pc' = [pc EXCEPT ![r] = "predicting"] /\ UNCHANGED reply
        BY <1>0, <2>1, <3>1, <4>3 DEF ReplyOK, Receive, LoadFails, ModelLoaded, fixed
      <4> QED
        BY <3>1, <4>1, <4>2, <4>3 DEF Receive, LoadFails, ModelLoaded
    <3>2. CASE ModelAnswers(r)
      <4>1. pc[r] = "predicting" /\ r \notin Streams
        BY <3>2 DEF ModelAnswers
      <4>2. CASE Finish(r, <<"ok">>) \/ Finish(r, <<"error">>)
        BY <2>1, <4>1, <4>2, FinishPlain
      <4>3. CASE /\ pc' = [pc EXCEPT ![r] = "gzipping"] /\ UNCHANGED reply
                 /\ "gzip" \in enabled
        BY <1>0, <2>1, <4>1, <4>3 DEF ReplyOK, fixed
      <4> QED
        BY <3>2, <4>2, <4>3, AnswerEffect
    <3>3. CASE GzipDone(r)
      <4>1. pc[r] = "gzipping" /\ "gzip" \in enabled /\ r \notin Streams
        BY <3>3 DEF GzipDone, ReplyOK
      <4>2. Finish(r, <<"ok">>)
        BY <3>3, <4>1, GzipEffect
      <4> QED
        BY <2>1, <4>1, <4>2, FinishPlain
    <3>4. CASE PredictionFails(r) \/ TimesOut(r) \/ StreamEnds(r)
      <4>1. /\ pc[r] = "predicting"
            /\ \/ r \in Streams /\ Finish(r, <<"stop", "DONE">>)
               \/ r \notin Streams /\ Finish(r, <<"error">>)
        BY <3>4 DEF PredictionFails, TimesOut, StreamEnds, StreamFails
      <4> QED
        BY <2>1, <4>1, FinishPlain, FinishStream
    <3>5. CASE StreamChunk(r)
      BY <3>5, ChunkStream
    <3> QED
      BY <1>2, <2>3, <3>1, <3>2, <3>3, <3>4, <3>5 DEF RequestStep
  <2> QED
    BY <2>2, <2>3
<1>3. BatchSettles \/ (\E h \in Handler : ShutdownStep(h)) \/ UNCHANGED vars
        => UNCHANGED <<enabled, pc, reply>>
  BY DEF BatchSettles, ShutdownStep, Signal, AwaitEnds, DrainGivesUp, vars, fixed
<1> QED
  BY <1>1, <1>2, <1>3 DEF Next

-----------------------------------------------------------------------------
(* The shutdown *)

LEMMA AdvanceShutdown ==
  ASSUME TypeOK, ShutdownOK, NEW h \in Handler, alive, Advance(h),
         UNCHANGED <<fixed, settled>>,
         "upload" \in enabled =>
           \A g \in Handler : stage'[g] >= 2 => gaveUp' \/ settled >= asked'
  PROVE  ShutdownOK'
<1>0. stage \in [Handler -> 0 .. Len(Awaits)] /\ Len(Awaits) \in 1 .. 5
  BY AwaitsFacts DEF TypeOK
<1>1. /\ stage'[h] = stage[h] + 1
      /\ \A g \in Handler \ {h} : stage'[g] = stage[g]
      /\ alive' <=> Awaits[stage[h] + 1] # "exit"
  BY <1>0 DEF Advance
<1>2. Awaits' = Awaits /\ enabled' = enabled
  BY DEF Awaits, With, fixed
<1>3. \A g \in Handler : stage[g] \in Nat /\ stage[g] < Len(Awaits)
  BY <1>0 DEF ShutdownOK
<1>4. alive' => stage[h] + 1 < Len(Awaits)
  BY <1>0, <1>1, <1>3, AwaitsFacts
<1>5. alive' => \A g \in Handler : stage'[g] < Len(Awaits)
  BY <1>1, <1>3, <1>4
<1>6. ~alive' => \E g \in Handler : stage'[g] # 0 /\ Awaits[stage'[g]] = "exit"
  BY <1>1, <1>3
<1> QED
  BY <1>2, <1>5, <1>6 DEF ShutdownOK

LEMMA ShutdownKept == TypeOK /\ ShutdownOK /\ [Next]_vars => ShutdownOK'
<1> SUFFICES ASSUME TypeOK, ShutdownOK, [Next]_vars
             PROVE  ShutdownOK'
  OBVIOUS
<1>0. /\ stage \in [Handler -> 0 .. Len(Awaits)] /\ Len(Awaits) \in 1 .. 5
      /\ settled \in Nat /\ asked \in Nat
      /\ batches \in Seq(Seq(Entry)) /\ asked \in 0 .. Len(batches)
  BY AwaitsFacts DEF TypeOK
<1>1. ASSUME UNCHANGED <<fixed, settled, shutVars>>
      PROVE  ShutdownOK'
  BY <1>1 DEF ShutdownOK, fixed, shutVars, Awaits, With
<1>2. ASSUME NEW q \in Request, RequestStep(q)
      PROVE  UNCHANGED <<fixed, settled, shutVars>>
  BY <1>2 DEF RequestStep, Receive, ModelLoaded, LoadFails, ModelAnswers, GzipDone,
              PredictionFails, TimesOut, StreamChunk, StreamEnds
<1>3. CASE BatchSettles
  <2>1. settled' = settled + 1 /\ UNCHANGED <<fixed, shutVars>>
    BY <1>3 DEF BatchSettles
  <2>2. settled >= asked => settled' >= asked'
    BY <1>0, <2>1 DEF shutVars
  <2> QED
    BY <2>1, <2>2 DEF ShutdownOK, fixed, shutVars, Awaits, With
<1>4. ASSUME NEW h \in Handler, Signal(h)
      PROVE  ShutdownOK'
  <2>1. /\ alive /\ Advance(h) /\ UNCHANGED <<fixed, settled>> /\ stage[h] = 0
        /\ gaveUp' = gaveUp
        /\ asked' = IF \A g \in Handler : stage[g] = 0 THEN Len(batches) ELSE asked
    BY <1>4 DEF Signal
  <2>2. stage'[h] = 1 /\ \A g \in Handler \ {h} : stage'[g] = stage[g]
    BY <1>0, <2>1 DEF Advance
  <2>3. ASSUME "upload" \in enabled, NEW g \in Handler, stage'[g] >= 2
        PROVE  gaveUp' \/ settled >= asked'
    <3>1. g # h /\ stage[g] >= 2
      BY <2>2, <2>3
    <3>2. asked' = asked
      BY <2>1, <3>1
    <3> QED
      BY <2>1, <2>3, <3>1, <3>2 DEF ShutdownOK
  <2> QED
    BY <2>1, <2>3, AdvanceShutdown
<1>5. ASSUME NEW h \in Handler, AwaitEnds(h)
      PROVE  ShutdownOK'
  <2>1. /\ alive /\ Advance(h) /\ UNCHANGED <<fixed, settled>> /\ stage[h] > 0
        /\ gaveUp' = gaveUp /\ asked' = asked /\ (Awaits[stage[h]] = "drain" => Drained)
    BY <1>5 DEF AwaitEnds
  <2>2. \A g \in Handler \ {h} : stage'[g] = stage[g]
    BY <1>0, <2>1 DEF Advance
  <2>3. ASSUME "upload" \in enabled, NEW g \in Handler, stage'[g] >= 2
        PROVE  gaveUp' \/ settled >= asked'
    <3>1. CASE g # h \/ stage[g] >= 2
      BY <2>1, <2>2, <2>3, <3>1 DEF ShutdownOK
    <3>2. CASE g = h /\ ~(stage[g] >= 2)
      <4>1. stage[h] = 1 /\ Awaits[1] = "drain"
        BY <1>0, <2>1, <2>3, <3>2, AwaitsFacts
      <4>2. settled = Len(batches)
        BY <2>1, <4>1 DEF Drained
      <4> QED
        BY <1>0, <2>1, <4>2
    <3> QED
      BY <3>1, <3>2
  <2> QED
    BY <2>1, <2>3, AdvanceShutdown
<1>6. ASSUME NEW h \in Handler, DrainGivesUp(h)
      PROVE  ShutdownOK'
  <2>1. alive /\ Advance(h) /\ UNCHANGED <<fixed, settled>> /\ gaveUp' = TRUE
    BY <1>6 DEF DrainGivesUp
  <2> QED
    BY <2>1, AdvanceShutdown
<1>7. CASE UNCHANGED vars
  BY <1>1, <1>7 DEF vars
<1> QED
  BY <1>1, <1>2, <1>3, <1>4, <1>5, <1>6, <1>7 DEF Next, ShutdownStep

-----------------------------------------------------------------------------
(* What is captured *)

\* A push adds one place, and leaves the others as they are.
LEMMA HoldsCut ==
  ASSUME TypeOK, NEW r \in Request, Cuts(r)
  PROVE  LET B == Len(batches) + 1
             I == Len(buffer) + 1
         IN  /\ \A q \in Request : ~Holds(q, B, I)
             /\ \A q \in Request : \A b, i :
                  Holds(q, b, i)' <=> Holds(q, b, i) \/ (q = r /\ b = B /\ i = I)
             /\ \A q \in Request : \A b, i : Holds(q, b, i) => AllBatches'[b][i] = AllBatches[b][i]
             /\ AllBatches'[B][I].request = context[r].captured
<1> DEFINE B == Len(batches) + 1
           I == Len(buffer) + 1
           A == AllBatches
           A2 == AllBatches'
<1>0. PICK x \in {"none", "plain", "gzip"} :
        Cut(buffer, batches, Pending(r, context[r].captured, x), buffer', batches')
  BY DEF Cuts
<1> DEFINE p == Pending(r, context[r].captured, x)
           pushed == Append(buffer, p)
<1>1. /\ buffer \in Seq(Entry) /\ batches \in Seq(Seq(Entry))
      /\ Len(buffer) \in Nat /\ Len(batches) \in Nat
  BY DEF TypeOK
<1>2. p \in Entry /\ p.id = r /\ p.request = context[r].captured
  BY DEF TypeOK, Pending, Entry
<1> HIDE DEF p
<1>3. /\ pushed \in Seq(Entry) /\ DOMAIN pushed = 1 .. I /\ pushed[I] = p
      /\ \A i \in 1 .. Len(buffer) : pushed[i] = buffer[i]
  BY <1>1, <1>2
<1>4. /\ DOMAIN A = 1 .. B /\ A[B] = buffer
      /\ \A b \in 1 .. Len(batches) : A[b] = batches[b]
  BY <1>1 DEF AllBatches
<1> HIDE DEF pushed
<1>5. /\ A2[B] = pushed /\ \A b \in 1 .. Len(batches) : A2[b] = batches[b]
      /\ DOMAIN A2 = 1 .. B \/ (DOMAIN A2 = 1 .. B + 1 /\ A2[B + 1] = << >>)
  <2>1. CASE buffer' = << >> /\ batches' = Append(batches, pushed)
    <3>1. /\ batches' \in Seq(Seq(Entry)) /\ Len(batches') = B /\ batches'[B] = pushed
          /\ \A b \in 1 .. Len(batches) : batches'[b] = batches[b]
      BY <1>1, <1>3, <2>1
    <3>2. << >> \in Seq(Entry)
      OBVIOUS
    <3>3. A2 = Append(batches', << >>)
      BY <2>1 DEF AllBatches
    <3>4. /\ DOMAIN A2 = 1 .. B + 1 /\ A2[B + 1] = << >>
          /\ \A b \in 1 .. B : A2[b] = batches'[b]
      BY <3>1, <3>2, <3>3
    <3>5. B \in 1 .. B /\ \A b \in 1 .. Len(batches) : b \in 1 .. B
      BY <1>1
    <3> HIDE DEF A2, B
    <3> QED
      BY <3>1, <3>4, <3>5
  <2>2. CASE buffer' = pushed /\ batches' = batches
    <3>1. A2 = Append(batches, pushed)
      BY <2>2 DEF AllBatches
    <3>2. /\ DOMAIN A2 = 1 .. B /\ A2[B] = pushed
          /\ \A b \in 1 .. Len(batches) : A2[b] = batches[b]
      <4> HIDE DEF A2
      <4>1. Len(A2) = B /\ A2 \in Seq(Seq(Entry))
        BY <1>1, <1>3, <3>1
      <4>2. A2[B] = pushed
        BY <1>1, <1>3, <3>1
      <4>3. ASSUME NEW b \in 1 .. Len(batches) PROVE A2[b] = batches[b]
        BY <1>1, <1>3, <3>1
      <4> QED
        BY <1>1, <4>1, <4>2, <4>3
    <3> QED
      BY <3>2
  <2> QED
    BY <1>0, <2>1, <2>2 DEF Cut, p, pushed
<1> HIDE DEF A, A2
<1>6. ASSUME NEW q, NEW b, NEW i
      PROVE  /\ Holds(q, b, i) <=> b \in DOMAIN A /\ i \in DOMAIN A[b] /\ A[b][i].id = q
             /\ Holds(q, b, i)' <=> b \in DOMAIN A2 /\ i \in DOMAIN A2[b] /\ A2[b][i].id = q
  BY DEF Holds, A, A2
<1>7. DOMAIN buffer = 1 .. Len(buffer) /\ DOMAIN << >> = {}
  BY <1>1
<1>8. ASSUME NEW b \in 1 .. B + 1, b # B
      PROVE  /\ b \in DOMAIN A2 => A2[b] = IF b \in 1 .. Len(batches) THEN A[b] ELSE << >>
             /\ b \in DOMAIN A <=> b \in 1 .. Len(batches)
             /\ b \in 1 .. Len(batches) => b \in DOMAIN A2
  <2>1. b \in 1 .. Len(batches) \/ b = B + 1
    BY <1>1, <1>8
  <2>2. B \in Nat /\ B + 1 \notin 1 .. B /\ B + 1 \notin 1 .. Len(batches)
    BY <1>1
  <2>3. \A k \in 1 .. Len(batches) : k \in 1 .. B /\ k \in 1 .. B + 1
    BY <1>1
  <2> HIDE DEF B
  <2> QED
    BY <1>4, <1>5, <2>1, <2>2, <2>3
<1>9. \A q \in Request : ~Holds(q, B, I)
  <2>1. I \notin DOMAIN buffer
    BY <1>1, <1>7
  <2> HIDE DEF B, I
  <2> QED
    BY <1>4, <1>6, <2>1
<1>10. ASSUME NEW q \in Request, NEW b, NEW i
       PROVE  /\ Holds(q, b, i)' <=> Holds(q, b, i) \/ (q = r /\ b = B /\ i = I)
              /\ Holds(q, b, i) => A2[b][i] = A[b][i]
  <2>1. CASE b = B
    <3>1. B \in DOMAIN A /\ B \in DOMAIN A2 /\ A[B] = buffer /\ A2[B] = pushed
      BY <1>1, <1>4, <1>5
    <3>2. \A k : k \in DOMAIN pushed <=> k \in DOMAIN buffer \/ k = I
      BY <1>1, <1>3, <1>7
    <3>3. \A k \in DOMAIN buffer : pushed[k] = buffer[k] /\ k # I
      BY <1>1, <1>3, <1>7
    <3> HIDE DEF B, I
    <3> QED
      BY <1>2, <1>3, <1>6, <2>1, <3>1, <3>2, <3>3
  <2>2. CASE b # B /\ b \in 1 .. B + 1
    <3> HIDE DEF B, I
    <3> QED
      BY <1>6, <1>7, <1>8, <2>2
  <2>3. CASE b \notin 1 .. B + 1
    <3>1. b \notin DOMAIN A /\ b \notin DOMAIN A2 /\ b # B
      BY <1>1, <1>4, <1>5, <2>3
    <3> HIDE DEF B, I
    <3> QED
      BY <1>6, <3>1
  <2> QED
    BY <2>1, <2>2, <2>3
<1>11. A2[B][I].request = context[r].captured
  BY <1>2, <1>3, <1>5
<1> QED
  BY <1>9, <1>10, <1>11 DEF A, A2

\* A request whose places stay as they are.
SamePlaces(q) ==
  \A b, i : /\ Holds(q, b, i)' <=> Holds(q, b, i)
            /\ Holds(q, b, i) => AllBatches'[b][i] = AllBatches[b][i]

LEMMA SameBuffers ==
  ASSUME UNCHANGED <<buffer, batches>>, NEW q
  PROVE  SamePlaces(q)
  BY DEF SamePlaces, Holds, AllBatches

\* A request that rests, whatever happens to the others.
LEMMA CaptureFrame ==
  ASSUME NEW q, OneCapture(q), CaptureOf(q), SamePlaces(q), enabled' = enabled,
         context'[q].requestId = context[q].requestId,
         context'[q].captured = context[q].captured,
         pc'[q] = pc[q], reply'[q] = reply[q], key' => key
  PROVE  OneCapture(q)' /\ CaptureOf(q)'
<1>1. OneCapture(q)'
  BY DEF OneCapture, SamePlaces
<1>2. HeldSomewhere(q)' <=> HeldSomewhere(q)
  BY DEF HeldSomewhere, SamePlaces
<1>3. \A b, i : Holds(q, b, i)' =>
         /\ AllBatches'[b][i].request /\ context'[q].requestId /\ q \notin Streams
         /\ pc'[q] \in {"gzipping", "done"} /\ "upload" \in enabled'
  BY DEF CaptureOf, SamePlaces
<1> QED
  BY <1>1, <1>2, <1>3 DEF CaptureOf

\* One that moves before its hooks have run.
LEMMA CaptureEarly ==
  ASSUME NEW q, CaptureOf(q), SamePlaces(q), enabled' = enabled,
         pc[q] \in {"new", "loading", "predicting"}, pc'[q] # "gzipping",
         reply'[q] # <<"ok">>,
         pc'[q] \in {"loading", "predicting"} /\ "upload" \in enabled => context'[q].captured
  PROVE  OneCapture(q)' /\ CaptureOf(q)'
<1>1. \A b, i : ~Holds(q, b, i)'
  BY DEF CaptureOf, SamePlaces
<1>2. ~HeldSomewhere(q)'
  BY <1>1 DEF HeldSomewhere
<1> QED
  BY <1>1, <1>2 DEF OneCapture, CaptureOf

LEMMA CaptureStep ==
  IInv /\ [Next]_vars => CaptureOK'
<1> SUFFICES ASSUME IInv, [Next]_vars, NEW q \in Request
             PROVE  OneCapture(q)' /\ CaptureOf(q)'
  BY DEF CaptureOK
<1>0. /\ TypeOK /\ EarlyOK /\ ReplyOK(q) /\ OneCapture(q) /\ CaptureOf(q)
      /\ \A r \in Request : ReplyOK(r)
      /\ pc \in [Request -> {"new", "loading", "predicting", "gzipping", "done"}]
      /\ reply \in [Request -> Seq({"ok", "error", "chunk", "stop", "DONE"})]
      /\ context \in [Request -> Context]
  BY ReplyMeaning DEF IInv, CaptureOK, TypeOK, Context
<1>1. ASSUME UNCHANGED <<enabled, pc, context, reply, buffer, batches>>, key' => key
      PROVE  OneCapture(q)' /\ CaptureOf(q)'
  BY <1>0, <1>1, SameBuffers, CaptureFrame
<1>2. CASE BatchSettles \/ (\E h \in Handler : ShutdownStep(h)) \/ UNCHANGED vars
  <2>1. UNCHANGED <<enabled, pc, context, reply, buffer, batches>> /\ (key' => key)
    <3>1. CASE BatchSettles \/ UNCHANGED vars
      BY <3>1 DEF BatchSettles, vars, fixed, capture, shutVars
    <3>2. ASSUME NEW h \in Handler, ShutdownStep(h)
          PROVE  UNCHANGED <<enabled, pc, context, reply, buffer, batches>> /\ (key' => key)
      BY <3>2 DEF ShutdownStep, Signal, AwaitEnds, DrainGivesUp, Advance, fixed, capture
    <3> QED
      BY <1>2, <3>1, <3>2
  <2> QED
    BY <1>1, <2>1
<1>3. ASSUME NEW r \in Request, RequestStep(r)
      PROVE  OneCapture(q)' /\ CaptureOf(q)'
  <2>1. enabled' = enabled /\ (key' => key)
    BY <1>3 DEF RequestStep, Receive, ModelLoaded, LoadFails, ModelAnswers, GzipDone,
                PredictionFails, TimesOut, StreamChunk, StreamEnds, fixed, shutVars
  <2>2. CASE r # q
    <3>1. pc'[q] = pc[q] /\ reply'[q] = reply[q] /\ context'[q] = context[q]
      BY <1>0, <1>3, <2>2
         DEF RequestStep, Receive, ModelLoaded, LoadFails, ModelAnswers, GzipDone, Resume,
             PredictionFails, TimesOut, StreamFails, StreamChunk, StreamEnds, Finish
    <3>2. SamePlaces(q)
      <4>1. CASE UNCHANGED <<buffer, batches>>
        BY <4>1, SameBuffers
      <4>2. CASE Cuts(r)
        BY <1>0, <2>2, <4>2, HoldsCut DEF SamePlaces
      <4>3. UNCHANGED <<buffer, batches>> \/ Cuts(r)
        <5>1. CASE ModelAnswers(r)
          BY <1>0, <5>1, AnswerEffect
        <5>2. CASE GzipDone(r)
          <6>1. "gzip" \in enabled
            BY <1>0, <5>2 DEF GzipDone, EarlyOK
          <6> QED
            BY <1>0, <5>2, <6>1, GzipEffect
        <5>3. CASE ~ModelAnswers(r) /\ ~GzipDone(r)
          BY <1>3, <5>3 DEF RequestStep, Receive, ModelLoaded, LoadFails, PredictionFails,
                            TimesOut, StreamChunk, StreamEnds, capture
        <5> QED
          BY <5>1, <5>2, <5>3
      <4> QED
        BY <4>1, <4>2, <4>3
    <3> QED
      BY <1>0, <2>1, <3>1, <3>2, CaptureFrame
  <2>3. CASE r = q
    <3>1. CASE Receive(q) \/ ModelLoaded(q) \/ LoadFails(q)
      <4>1. SamePlaces(q)
        BY <3>1, SameBuffers DEF Receive, ModelLoaded, LoadFails, capture
      <4>2. pc[q] \in {"new", "loading"} /\ reply[q] = << >>
        BY <1>0, <3>1 DEF Receive, ModelLoaded, LoadFails, ReplyOK
      <4>3. CASE Finish(q, <<"error">>)
        <5>1. pc'[q] = "done" /\ reply'[q] = << >> \o <<"error">>
          BY <1>0, <4>2, <4>3 DEF Finish
        <5>2. reply'[q] # <<"ok">>
          BY <5>1
        <5> QED
          BY <1>0, <2>1, <4>1, <4>2, <5>1, <5>2, CaptureEarly
      <4>4. CASE ~Finish(q, <<"error">>)
        <5>1. pc'[q] \in {"loading", "predicting"} /\ reply'[q] # <<"ok">>
          BY <1>0, <3>1, <4>2, <4>4 DEF Receive, ModelLoaded, LoadFails
        <5>2. "upload" \in enabled => context'[q].captured
          <6>1. CASE Receive(q)
            <7>1. context'[q].captured = Captures
              BY <1>0, <4>4, <6>1 DEF Receive, Context
            <7>2. "upload" \in enabled => Captures
              BY DEF Captures
            <7> QED
              BY <7>1, <7>2
          <6>2. CASE ModelLoaded(q)
            BY <1>0, <6>2 DEF ModelLoaded, CaptureOf
          <6> QED
            BY <3>1, <4>4, <6>1, <6>2 DEF LoadFails
        <5> QED
          BY <1>0, <2>1, <4>1, <4>2, <5>1, <5>2, CaptureEarly
      <4> QED
        BY <4>3, <4>4
    <3>2. CASE PredictionFails(q) \/ TimesOut(q) \/ StreamEnds(q)
      <4>1. /\ pc[q] = "predicting" /\ UNCHANGED fixed /\ SamePlaces(q)
            /\ \/ q \in Streams /\ Finish(q, <<"stop", "DONE">>)
               \/ q \notin Streams /\ Finish(q, <<"error">>)
        BY <3>2, SameBuffers DEF PredictionFails, TimesOut, StreamEnds, StreamFails, capture
      <4>2. reply'[q] # <<"ok">>
        <5>1. <<"error">> # <<"ok">>
          OBVIOUS
        <5> QED
          BY <1>0, <4>1, <5>1, FinishPlain, FinishStream
      <4>3. pc'[q] = "done"
        BY <1>0, <4>1 DEF Finish
      <4> QED
        BY <1>0, <2>1, <4>1, <4>2, <4>3, CaptureEarly
    <3>3. CASE StreamChunk(q)
      <4>1. /\ pc[q] = "predicting" /\ pc'[q] = "predicting" /\ SamePlaces(q)
            /\ context' = context
        BY <3>3, SameBuffers DEF StreamChunk, capture
      <4>2. reply'[q] # <<"ok">>
        BY <1>0, <3>3, ChunkStream
      <4> QED
        BY <1>0, <2>1, <4>1, <4>2, CaptureEarly DEF CaptureOf
    <3>4. CASE ModelAnswers(q)
      <4>1. pc[q] = "predicting" /\ q \notin Streams /\ reply[q] = << >>
        <5>1. pc[q] = "predicting" /\ q \notin Streams /\ UNCHANGED fixed
          BY <3>4 DEF ModelAnswers
        <5>2. reply[q] \in Seq({"ok", "error", "chunk", "stop", "DONE"}) /\ Len(reply[q]) = 0
          <6>1. reply[q] \in Seq({"ok", "error", "chunk", "stop", "DONE"})
            BY <1>0
          <6>0. ReplyOK(q) /\ pc[q] # "done"
            BY <1>0, <5>1
          <6>2. Len(reply[q]) <= 1 /\ Len(reply[q]) # 1
            BY <5>1, <6>0 DEF ReplyOK
          <6>3. Len(reply[q]) \in Nat
            BY <6>1
          <6>4. Len(reply[q]) = 0
            <7>1. \A n \in Nat : n <= 1 /\ n # 1 => n = 0
              OBVIOUS
            <7> QED
              BY <6>2, <6>3, <7>1
          <6> QED
            BY <6>1, <6>4
        <5> QED
          BY <5>1, <5>2
      <4>2. /\ pc'[q] \in {"gzipping", "done"}
            /\ pc'[q] = "gzipping" => reply'[q] = << >>
            /\ reply'[q] = <<"error">> => "taco-encrypt" \in enabled /\ ~key
        <5>1. CASE Finish(q, <<"ok">>)
          <6>1. pc'[q] = "done" /\ reply'[q] = << >> \o <<"ok">>
            BY <1>0, <4>1, <5>1 DEF Finish
          <6> QED
            BY <6>1
        <5>2. CASE Finish(q, <<"error">>) /\ "taco-encrypt" \in enabled /\ ~key
          BY <1>0, <5>2 DEF Finish
        <5>3. CASE pc' = [pc EXCEPT ![q] = "gzipping"] /\ UNCHANGED reply
          <6>1. reply'[q] # <<"error">>
            <7>1. reply'[q] = << >>
              BY <4>1, <5>3
            <7>2. << >> # <<"error">>
              OBVIOUS
            <7> QED
              BY <7>1, <7>2
          <6> QED
            BY <1>0, <4>1, <5>3, <6>1
        <5> QED
          BY <1>0, <3>4, <5>1, <5>2, <5>3, AnswerEffect
      <4>3. ~key' <=> ~key
        BY <3>4 DEF ModelAnswers, shutVars
      <4>4. \A b, i : ~Holds(q, b, i)
        BY <1>0, <4>1 DEF CaptureOf
      <4>5. CASE "upload" \notin enabled
        <5>1. SamePlaces(q)
          BY <1>0, <3>4, <4>5, AnswerEffect, SameBuffers
        <5>2. \A b, i : ~Holds(q, b, i)'
          BY <4>4, <5>1 DEF SamePlaces
        <5> QED
          BY <2>1, <4>2, <4>5, <5>2 DEF OneCapture, CaptureOf, HeldSomewhere
      <4>6. CASE "upload" \in enabled
        <5> DEFINE B == Len(batches) + 1
                   I == Len(buffer) + 1
        <5>1. Cuts(q) /\ context'[q].requestId
          BY <1>0, <3>4, <4>6, AnswerEffect
        <5>2. /\ \A b, i : Holds(q, b, i)' <=> b = B /\ i = I
              /\ AllBatches'[B][I].request = context[q].captured
          BY <1>0, <4>4, <5>1, HoldsCut
        <5>3. context[q].captured
          BY <1>0, <4>1, <4>6 DEF CaptureOf
        <5> HIDE DEF B, I
        <5>4. HeldSomewhere(q)' /\ OneCapture(q)'
          BY <5>2 DEF HeldSomewhere, OneCapture
        <5>5. \A b, i : Holds(q, b, i)' =>
                /\ AllBatches'[b][i].request /\ context'[q].requestId /\ q \notin Streams
                /\ pc'[q] \in {"gzipping", "done"} /\ "upload" \in enabled'
          <6> SUFFICES ASSUME NEW b, NEW i, Holds(q, b, i)'
                       PROVE  AllBatches'[b][i].request
            BY <2>1, <4>1, <4>2, <4>6, <5>1
          <6>1. b = B /\ i = I
            BY <5>2
          <6> QED
            BY <5>2, <5>3, <6>1
        <5> QED
          BY <2>1, <4>2, <4>3, <5>4, <5>5 DEF CaptureOf
      <4> QED
        BY <4>5, <4>6
    <3>5. CASE GzipDone(q)
      <4>1. pc[q] = "gzipping" /\ "gzip" \in enabled /\ reply[q] = << >> /\ q \notin Streams
        BY <1>0, <3>5 DEF GzipDone, EarlyOK, CaptureOf
      <4>2. /\ UNCHANGED <<buffer, batches>> /\ context'[q].requestId = context[q].requestId
            /\ Finish(q, <<"ok">>)
        BY <1>0, <3>5, <4>1, GzipEffect
      <4>3. pc'[q] = "done" /\ reply'[q] = << >> \o <<"ok">>
        BY <1>0, <4>1, <4>2 DEF Finish
      <4>4. reply'[q] # <<"error">>
        BY <4>3
      <4>5. SamePlaces(q)
        BY <4>2, SameBuffers
      <4>6. OneCapture(q)' /\ (HeldSomewhere(q)' <=> HeldSomewhere(q))
        BY <1>0, <4>5 DEF OneCapture, HeldSomewhere, SamePlaces
      <4>7. \A b, i : Holds(q, b, i)' =>
              /\ AllBatches'[b][i].request /\ context'[q].requestId /\ q \notin Streams
              /\ pc'[q] \in {"gzipping", "done"} /\ "upload" \in enabled'
        BY <1>0, <2>1, <4>2, <4>3, <4>5 DEF CaptureOf, SamePlaces
      <4>8. "upload" \in enabled => HeldSomewhere(q)
        BY <1>0, <4>1 DEF CaptureOf
      <4> QED
        BY <2>1, <4>3, <4>4, <4>6, <4>7, <4>8 DEF CaptureOf
    <3> QED
      BY <1>3, <2>3, <3>1, <3>2, <3>3, <3>4, <3>5 DEF RequestStep
  <2> QED
    BY <2>2, <2>3
<1> QED
  BY <1>2, <1>3 DEF Next

-----------------------------------------------------------------------------
(* The theorems *)

LEMMA Initially == Init => IInv
<1> SUFFICES ASSUME Init
             PROVE  IInv
  OBVIOUS
<1>1. TypeOK
  <2>1. << >> \in Seq(Entry) /\ << >> \in Seq(Seq(Entry)) /\ Len(<< >>) = 0
        /\ << >> \in Seq({"ok", "error", "chunk", "stop", "DONE"}) /\ DOMAIN << >> = {}
    OBVIOUS
  <2>2. Emptied \in Context
    BY DEF Emptied, Context
  <2>3. 0 \in 0 .. Len(Awaits)
    BY AwaitsFacts
  <2>4. 0 < BatchSize
    BY BatchSizeAssumption
  <2>5. /\ context \in [Request -> Context] /\ stage \in [Handler -> 0 .. Len(Awaits)]
        /\ reply \in [Request -> Seq({"ok", "error", "chunk", "stop", "DONE"})]
    BY <2>1, <2>2, <2>3 DEF Init
  <2>6. /\ buffer \in Seq(Entry) /\ batches \in Seq(Seq(Entry)) /\ Sized(buffer, batches)
        /\ settled \in 0 .. Len(batches) /\ asked \in 0 .. Len(batches)
    BY <2>1, <2>4 DEF Init, Sized
  <2>7. /\ enabled \subseteq Options /\ timed \in BOOLEAN /\ rows \subseteq Request
        /\ recorderOpen \in BOOLEAN /\ key \in BOOLEAN /\ gaveUp \in BOOLEAN /\ alive \in BOOLEAN
        /\ pc \in [Request -> {"new", "loading", "predicting", "gzipping", "done"}]
    <3>1. key = TRUE \/ key = FALSE
      BY DEF Init
    <3>2. /\ enabled \subseteq Options /\ timed \in BOOLEAN /\ rows = {}
          /\ recorderOpen = TRUE /\ gaveUp = FALSE /\ alive = TRUE
      BY DEF Init
    <3>3. pc \in [Request -> {"new", "loading", "predicting", "gzipping", "done"}]
      BY DEF Init
    <3> QED
      BY <3>1, <3>2, <3>3
  <2> QED
    BY <2>5, <2>6, <2>7 DEF TypeOK, Sized, Context
<1>2. \A r \in Request : ReplyOK(r)
  <2> SUFFICES ASSUME NEW r \in Request
               PROVE  ReplyOK(r)
    OBVIOUS
  <2>1. pc[r] = "new" /\ reply[r] = << >> /\ Len(<< >>) = 0
    BY DEF Init
  <2>2. \A i \in 1 .. 0 : FALSE
    OBVIOUS
  <2> QED
    BY <2>1, <2>2 DEF ReplyOK
<1>3. ShutdownOK
  BY AwaitsFacts DEF Init, ShutdownOK
<1>4. \A r \in Request : \A b, i : ~Holds(r, b, i)
  <2>1. AllBatches = << << >> >>
    BY DEF Init, AllBatches
  <2>2. \A b \in DOMAIN AllBatches : DOMAIN AllBatches[b] = {}
    BY <2>1
  <2> QED
    BY <2>2 DEF Holds
<1>5. CaptureOK
  <2> SUFFICES ASSUME NEW r \in Request
               PROVE  OneCapture(r) /\ CaptureOf(r)
    BY DEF CaptureOK
  <2>1. pc[r] = "new" /\ reply[r] = << >>
    BY DEF Init
  <2>2. reply[r] # <<"ok">> /\ reply[r] # <<"error">>
    BY <2>1
  <2> QED
    BY <1>4, <2>1, <2>2 DEF OneCapture, CaptureOf, HeldSomewhere
<1> QED
  BY <1>1, <1>2, <1>3, <1>5, ReplyMeaning DEF IInv

LEMMA Inductive == IInv /\ [Next]_vars => IInv'
<1> SUFFICES ASSUME IInv, [Next]_vars
             PROVE  IInv'
  OBVIOUS
<1>1. TypeOK' /\ ShutdownOK' /\ CaptureOK'
  BY TypeStep, ShutdownKept, CaptureStep DEF IInv
<1>2. \A r \in Request : ReplyOK(r)'
  BY RepliesStep, ReplyMeaning DEF IInv
<1>3. EarlyOK' /\ RepliesWellFormed'
  BY <1>2 DEF ReplyOK, EarlyOK, RepliesWellFormed
<1> QED
  BY <1>1, <1>3 DEF IInv

LEMMA Always == Spec => []IInv
  BY Initially, Inductive, PTL DEF Spec

\* Every reachable state is type correct; in particular a full buffer has been
\* cut in the step that filled it, and every batch has the configured size.
THEOREM TypeCorrect == Spec => []TypeOK
<1>1. IInv => TypeOK
  BY DEF IInv
<1> QED
  BY <1>1, Always, PTL

\* Plain requests get one reply, streams end in stop and [DONE] or are an error
\* (transport/http.ts), whatever times out, fails or is compressed meanwhile.
THEOREM RepliesCorrect == Spec => []RepliesWellFormed
<1>1. IInv => RepliesWellFormed
  BY DEF IInv
<1> QED
  BY <1>1, Always, PTL

\* process.exit() is only reached over a drain that found what had been handed
\* over before the first signal settled, or gave up (index.ts, shutdown()).
THEOREM ExitCorrect == Spec => []ExitKeepsBatches
<1>1. IInv => ExitKeepsBatches
  <2> SUFFICES ASSUME IInv, ~alive, ~gaveUp, "upload" \in enabled
               PROVE  settled >= asked
    BY DEF ExitKeepsBatches
  <2>1. PICK h \in Handler : stage[h] # 0 /\ Awaits[stage[h]] = "exit"
    BY DEF IInv, ShutdownOK
  <2>2. stage[h] \in Nat /\ stage[h] # 1
    BY <2>1, AwaitsFacts DEF IInv, TypeOK
  <2>3. stage[h] >= 2
    BY <2>1, <2>2
  <2> QED
    BY <2>3 DEF IInv, ShutdownOK
<1> QED
  BY <1>1, Always, PTL

\* The places of a request, as the properties speak of them.
LEMMA PlacesMeaning ==
  ASSUME NEW r
  PROVE  /\ \A p \in CapturesOf(r) : /\ p = <<p[1], p[2]>> /\ Holds(r, p[1], p[2])
                                     /\ Captured(p) = AllBatches[p[1]][p[2]]
         /\ HeldSomewhere(r) <=> CapturesOf(r) # {}
<1>1. ASSUME NEW p \in CapturesOf(r)
      PROVE  /\ p = <<p[1], p[2]>> /\ Holds(r, p[1], p[2])
             /\ Captured(p) = AllBatches[p[1]][p[2]]
  <2>1. p \in Places /\ Captured(p).id = r
    BY DEF CapturesOf
  <2>2. PICK b \in DOMAIN AllBatches : p \in {b} \X DOMAIN AllBatches[b]
    BY <2>1 DEF Places
  <2>3. PICK i \in DOMAIN AllBatches[b] : p = <<b, i>>
    BY <2>2
  <2> QED
    BY <2>1, <2>3 DEF Captured, Holds
<1>2. ASSUME NEW b, NEW i, Holds(r, b, i)
      PROVE  CapturesOf(r) # {}
  <2>1. <<b, i>> \in {b} \X DOMAIN AllBatches[b]
    BY <1>2 DEF Holds
  <2>2. <<b, i>> \in Places
    BY <1>2, <2>1 DEF Holds, Places
  <2>3. Captured(<<b, i>>).id = r
    BY <1>2 DEF Holds, Captured
  <2> QED
    BY <2>2, <2>3 DEF CapturesOf
<1> QED
  BY <1>1, <1>2 DEF HeldSomewhere

\* upload.onResponse pushes the conversation of an answered request exactly
\* once, with the request its own request hook kept, and never a stream's.
THEOREM CaptureCorrect == Spec => []AnsweredIsCaptured
<1>1. IInv => AnsweredIsCaptured
  <2> SUFFICES ASSUME IInv, NEW r \in Request
               PROVE  /\ Cardinality(CapturesOf(r)) <= 1
                      /\ \A p \in CapturesOf(r) : Captured(p).request
                      /\ reply[r] = <<"ok">> /\ "upload" \in enabled => CapturesOf(r) # {}
                      /\ CapturesOf(r) # {} => context[r].requestId /\ r \notin Streams
    BY DEF AnsweredIsCaptured
  <2>1. OneCapture(r) /\ CaptureOf(r)
    BY DEF IInv, CaptureOK
  <2>2. Cardinality(CapturesOf(r)) <= 1
    <3>1. CASE CapturesOf(r) = {}
      BY <3>1, FS_EmptySet
    <3>2. ASSUME NEW p \in CapturesOf(r)
          PROVE  Cardinality(CapturesOf(r)) <= 1
      <4>1. ASSUME NEW o \in CapturesOf(r) PROVE o = p
        <5>1. o[1] = p[1] /\ o[2] = p[2]
          BY <2>1, PlacesMeaning DEF OneCapture
        <5> QED
          BY <5>1, PlacesMeaning
      <4>2. CapturesOf(r) = {p}
        BY <4>1
      <4>3. Cardinality({p}) = 1
        BY FS_Singleton
      <4> QED
        BY <4>2, <4>3
    <3> QED
      BY <3>1, <3>2
  <2>3. \A p \in CapturesOf(r) : Captured(p).request
    BY <2>1, PlacesMeaning DEF CaptureOf
  <2>4. reply[r] = <<"ok">> /\ "upload" \in enabled => CapturesOf(r) # {}
    BY <2>1, PlacesMeaning DEF CaptureOf
  <2>5. CapturesOf(r) # {} => context[r].requestId /\ r \notin Streams
    BY <2>1, PlacesMeaning DEF CaptureOf, HeldSomewhere
  <2> QED
    BY <2>2, <2>3, <2>4, <2>5
<1> QED
  BY <1>1, Always, PTL

\* A captured conversation whose client got an error: taco-encrypt threw
\* because a shutdown had zeroed the key while the request was under way.
THEOREM WithheldCorrect == Spec => []WithheldOnlyByShutdown
<1>1. IInv => WithheldOnlyByShutdown
  BY PlacesMeaning DEF IInv, CaptureOK, CaptureOf, WithheldOnlyByShutdown
<1> QED
  BY <1>1, Always, PTL
=============================================================================
