---------------------------- MODULE LoadGenProofs ---------------------------
(***************************************************************************)
(* Theorems about the load generator against every server that keeps the   *)
(* promise of Service: for any number of clients and requests, any         *)
(* latencies and any weights.                                              *)
(***************************************************************************)
EXTENDS LoadGen, MetricsProofs, SequenceTheorems

-----------------------------------------------------------------------------
(* Lemmas about the choice of requests.                                    *)

LEMMA RandInRange ==
  ASSUME NEW x \in Int
  PROVE  NextRand(x) \in Rng /\ NextRand(x) \in Int
         /\ Seed(x) \in Rng /\ Seed(x) \in Int
<1>1. RandSize \in Nat \ {0}
  BY ScenarioAssumption
<1>2. \A y \in Int : y % RandSize \in 0 .. RandSize - 1
  BY <1>1
<1>3. x * Multiplier + Increment \in Int /\ x * SeedFactor + 1 \in Int
  BY DEF Multiplier, Increment, SeedFactor
<1>4. NextRand(x) \in 0 .. RandSize - 1 /\ Seed(x) \in 0 .. RandSize - 1
  BY <1>2, <1>3 DEF NextRand, Seed
<1> QED
  BY <1>1, <1>4 DEF Rng

(* What a pick chooses is a type of the table, of positive weight unless   *)
(* the total had to be corrected.                                          *)
Chosen(t) ==
  \E i \in DOMAIN Kinds : Kinds[i] = t /\ (SumOfWeights > 0 => Weight[i] > 0)

LEMMA PickIsChosen ==
  ASSUME NEW p \in 0 .. Total - 1
  PROVE  Chosen(KindOf(p))
<1>1. /\ Weight[1] \in Int /\ Weight[2] \in Int /\ Weight[3] \in Int
      /\ Weight[4] \in Int /\ Weight[5] \in Int
  <2>1. Weight \in [1 .. 5 -> Int]
    BY ScenarioAssumption
  <2> QED
    BY <2>1
<1>2. /\ Threshold[1] = Weight[1]
      /\ Threshold[2] = Threshold[1] + Weight[2]
      /\ Threshold[3] = Threshold[2] + Weight[3]
      /\ Threshold[4] = Threshold[3] + Weight[4]
  BY <1>1 DEF Threshold
<1>3. DOMAIN Kinds = 1 .. 5 /\ Kinds[5] = kGetPriceHistory
  BY DEF Kinds
<1>4. CASE Below(p) = {}
  <2>1. p >= Threshold[4]
    BY <1>1, <1>2, <1>4 DEF Below
  <2>2. SumOfWeights > 0 => p < Threshold[4] + Weight[5]
    BY <1>1, <1>2 DEF Total, SumOfWeights
  <2>3. SumOfWeights > 0 => Weight[5] > 0
    BY <1>1, <1>2, <2>1, <2>2
  <2>4. KindOf(p) = Kinds[5]
    BY <1>3, <1>4 DEF KindOf
  <2> QED
    BY <1>3, <2>3, <2>4 DEF Chosen
<1>5. CASE Below(p) # {}
  <2> DEFINE i == Min(Below(p))
  <2>1. Below(p) \subseteq Nat
    BY DEF Below
  <2>2. i \in Below(p) /\ \A j \in Below(p) : i <= j
    BY <1>5, <2>1, LeastOf
  <2>3. i \in 1 .. 4 /\ p < Threshold[i]
    BY <2>2 DEF Below
  <2>4. \A j \in 1 .. i - 1 : p >= Threshold[j]
    BY <1>1, <1>2, <2>2, <2>3 DEF Below
  <2> HIDE DEF i
  <2>5. Weight[i] > 0
    <3>1. CASE i = 1
      BY <1>1, <1>2, <2>3, <3>1
    <3>2. CASE i = 2
      BY <1>1, <1>2, <2>3, <2>4, <3>2
    <3>3. CASE i = 3
      BY <1>1, <1>2, <2>3, <2>4, <3>3
    <3>4. CASE i = 4
      BY <1>1, <1>2, <2>3, <2>4, <3>4
    <3> QED
      BY <2>3, <3>1, <3>2, <3>3, <3>4
  <2>6. KindOf(p) = Kinds[i]
    BY <1>5 DEF KindOf, i
  <2> QED
    BY <1>3, <2>3, <2>5, <2>6 DEF Chosen
<1> QED
  BY <1>4, <1>5

LEMMA RequestIsChosen ==
  ASSUME NEW x \in Rng, NEW r \in NextRequest(x)
  PROVE  r.rng \in Rng /\ Chosen(r.type)
<1> DEFINE first  == NextRand(x)
           second == NextRand(first)
           third  == NextRand(second)
           fourth == NextRand(third)
<1>1. x \in Int
  BY ScenarioAssumption DEF Rng
<1>2. first \in Int
  BY <1>1, RandInRange
<1>3. second \in Int /\ second \in Rng
  BY <1>2, RandInRange
<1>4. third \in Int /\ third \in Rng
  BY <1>3, RandInRange
<1>5. fourth \in Rng
  BY <1>4, RandInRange
<1>6. PICK p \in Picks(first) :
        /\ r.type = KindOf(p)
        /\ r.rng \in {second, third, fourth}
  BY DEF NextRequest
<1>7. p \in 0 .. Total - 1
  BY DEF Picks
<1> QED
  BY <1>3, <1>4, <1>5, <1>6, <1>7, PickIsChosen

(* Weights and types of the table. *)
LEMMA ChosenIsKind ==
  ASSUME NEW t, Chosen(t)
  PROVE  t \in Range(Kinds)
BY DEF Chosen, Range

-----------------------------------------------------------------------------
(* The inductive invariant.                                                *)

(* The types that the other parts need; in_flight is bounded by Books. *)
Typed ==
  /\ phase \in {"running", "reported", "crashed"}
  /\ at \in [Clients -> Places]
  /\ rng \in [Clients -> Rng]
  /\ requested \in [Clients -> Nat]
  /\ got \in [Clients -> Nat]
  /\ stopFlag \in BOOLEAN
  /\ successes \in Nat
  /\ errors \in Nat
  /\ samples \in [Latencies -> Nat]
  /\ S!TypeOK

(* A client made no request before it connected, and takes an answer off   *)
(* its stream for each request before it makes the next one.               *)
InTurn(c) ==
  /\ at[c] \in {"resolving", "connecting"} => requested[c] = 0 /\ got[c] = 0
  /\ at[c] \in InRequest => got[c] = requested[c] - 1
  /\ at[c] \in {"connected", "counted"} => got[c] = requested[c]

(* The server got every request made on an open connection, and answers    *)
(* them one by one.                                                        *)
Served(c) ==
  /\ Len(asked[c]) <= requested[c]
  /\ link[c] = "open" => Len(asked[c]) = requested[c]
  /\ Len(answers[c]) <= Len(asked[c])
  /\ \A n \in 1 .. Len(answers[c]) :
       answers[c][n].type \in {ResponseType(asked[c][n]), kError}

(* Every request the server got was chosen from the table. *)
Weighted == \A c \in Clients : \A n \in DOMAIN asked[c] : Chosen(asked[c][n])

Lost == {c \in At({"failed"}) : requested[c] > 0}

(* EveryRequestCounted, of finite sets. *)
Books ==
  /\ IsFiniteSet(Each(requested))
  /\ Cardinality(Each(requested))
       = successes + Cardinality(At(InRequest)) + Cardinality(Lost)
  /\ errors = Cardinality(At({"failed"}))
  /\ IsFiniteSet(Each(samples))
  /\ Size(samples) = successes - Cardinality(At({"counted"}))
  /\ inFlight = NumClients - Cardinality(At(Over))

(* After the report no client is at work, and nothing changed since. *)
Reported ==
  phase = "reported" =>
    NoWorkLeft /\ report = Compute(successes, errors, samples)

Dialogues == \A c \in Clients : InTurn(c) /\ Served(c)

TestInv == Typed /\ Dialogues /\ Weighted /\ Books /\ Reported

-----------------------------------------------------------------------------
(* Lemmas about the clients.                                               *)

LEMMA ClientsCounted ==
  /\ IsFiniteSet(Clients) /\ Cardinality(Clients) = NumClients
  /\ \A X : /\ IsFiniteSet(At(X)) /\ Cardinality(At(X)) \in Nat
           /\ Cardinality(At(X)) <= NumClients
<1>1. IsFiniteSet(Clients) /\ Cardinality(Clients) = NumClients
  BY LoadGenAssumption, FS_Interval DEF Clients
<1>2. ASSUME NEW X
      PROVE  /\ IsFiniteSet(At(X)) /\ Cardinality(At(X)) \in Nat
             /\ Cardinality(At(X)) <= NumClients
  <2>1. At(X) \subseteq Clients
    BY DEF At
  <2>2. IsFiniteSet(At(X)) /\ Cardinality(At(X)) <= NumClients
    BY <1>1, <2>1, FS_Subset
  <2> QED
    BY <2>2, FS_CardinalityType
<1> QED
  BY <1>1, <1>2

LEMMA AtMoves ==
  ASSUME Typed, NEW c \in Clients, NEW place \in Places, Move(c, place), NEW X
  PROVE  /\ Cardinality(At(X)) \in Nat /\ Cardinality(At(X)') \in Nat
         /\ (at[c] \in X <=> place \in X) =>
              Cardinality(At(X)') = Cardinality(At(X))
         /\ at[c] \notin X /\ place \in X =>
              Cardinality(At(X)') = Cardinality(At(X)) + 1
         /\ at[c] \in X /\ place \notin X =>
              Cardinality(At(X)') = Cardinality(At(X)) - 1
<1>1. \A d : d # c => (d \in At(X) <=> d \in At(X)')
  BY DEF Typed, Move, At
<1>2. (c \in At(X) <=> at[c] \in X) /\ (c \in At(X)' <=> place \in X)
  BY DEF Typed, Move, At
<1>3. IsFiniteSet(At(X))
  BY ClientsCounted
<1> QED
  BY <1>1, <1>2, <1>3, CountMoves

LEMMA LostMoves ==
  ASSUME Typed, NEW c \in Clients, NEW place \in Places, Move(c, place),
         at[c] # "failed",
         \A d \in Clients \ {c} : requested'[d] = requested[d]
  PROVE  /\ Cardinality(Lost) \in Nat /\ Cardinality(Lost') \in Nat
         /\ place = "failed" /\ requested'[c] > 0 =>
              Cardinality(Lost') = Cardinality(Lost) + 1
         /\ ~ (place = "failed" /\ requested'[c] > 0) =>
              Cardinality(Lost') = Cardinality(Lost)
<1>1. \A d : d # c => (d \in Lost <=> d \in Lost')
  BY DEF Typed, Move, At, Lost
<1>2. /\ c \notin Lost
      /\ c \in Lost' <=> place = "failed" /\ requested'[c] > 0
  BY DEF Typed, Move, At, Lost
<1>3. IsFiniteSet(Lost)
  <2>1. Lost \subseteq At({"failed"})
    BY DEF Lost
  <2> QED
    BY <2>1, ClientsCounted, FS_Subset
<1> QED
  BY <1>1, <1>2, <1>3, CountMoves

-----------------------------------------------------------------------------
(* Types, turns and answers.                                               *)

Talk == Typed /\ Dialogues /\ Weighted

LEMMA ServerTyped ==
  ASSUME Typed
  PROVE  /\ up \in BOOLEAN
         /\ link \in [Clients -> {"new", "open", "closed"}]
         /\ asked \in [Clients -> Seq(Range(Kinds))]
         /\ answers \in [Clients -> Seq(S!Answer)]
BY DEF Typed, S!TypeOK

(* A client of which nothing changes. *)
LEMMA Unmoved ==
  ASSUME Dialogues, NEW d \in Clients,
         at'[d] = at[d], requested'[d] = requested[d], got'[d] = got[d],
         link'[d] = link[d], asked'[d] = asked[d], answers'[d] = answers[d]
  PROVE  InTurn(d)' /\ Served(d)'
<1>1. InTurn(d) /\ Served(d)
  BY DEF Dialogues
<1> QED
  BY <1>1 DEF InTurn, Served

(* A move of one client: the rest of its dialogue stays. *)
LEMMA MoveTalks ==
  ASSUME Talk, NEW c \in Clients, NEW place \in Places, Move(c, place),
         UNCHANGED <<rng, requested, got, server>>,
         place \in {"resolving", "connecting"} =>
           requested[c] = 0 /\ got[c] = 0,
         place \in InRequest => got[c] = requested[c] - 1,
         place \in {"connected", "counted"} => got[c] = requested[c],
         phase' \in {"running", "reported", "crashed"}, stopFlag' \in BOOLEAN,
         successes' \in Nat, errors' \in Nat, samples' \in [Latencies -> Nat]
  PROVE  Talk'
<1> USE DEF Talk
<1>1. at' \in [Clients -> Places] /\ at' = [at EXCEPT ![c] = place]
  BY DEF Typed, Move
<1>2. Typed'
  BY <1>1 DEF Typed, S!TypeOK, server
<1>3. ASSUME NEW d \in Clients PROVE InTurn(d)' /\ Served(d)'
  <2>1. CASE d = c
    <3>1. Served(d)
      BY DEF Dialogues
    <3>2. Served(d)'
      BY <3>1 DEF Served, server
    <3>3. at'[d] = place
      BY <1>1, <2>1 DEF Typed
    <3> QED
      BY <2>1, <3>2, <3>3 DEF InTurn
  <2>2. CASE d # c
    <3>1. at'[d] = at[d]
      BY <1>1, <2>2 DEF Typed
    <3> QED
      BY <3>1, Unmoved DEF server
  <2> QED
    BY <2>1, <2>2
<1>4. Dialogues'
  BY <1>3 DEF Dialogues
<1>5. Weighted'
  BY DEF Weighted, server
<1> QED
  BY <1>2, <1>4, <1>5

LEMMA FailTalks ==
  ASSUME Talk, NEW c \in Clients, Fail(c)
  PROVE  Talk'
<1>1. "failed" \in Places /\ Move(c, "failed")
  BY DEF Places, Fail, Finish
<1>2. errors' \in Nat /\ successes' \in Nat /\ samples' \in [Latencies -> Nat]
  BY DEF Fail, Talk, Typed
<1>3. phase' \in {"running", "reported", "crashed"} /\ stopFlag' \in BOOLEAN
  BY DEF Fail, Talk, Typed
<1> QED
  BY <1>1, <1>2, <1>3, MoveTalks DEF Fail, InRequest

(* Asking adds a type of the table to what the server got. *)
LEMMA AskTalks ==
  ASSUME Typed, Weighted, NEW c \in Clients, NEW t, Chosen(t),
         S!Ask(c, t)
  PROVE  /\ link[c] = "open" /\ asked'[c] = Append(asked[c], t)
         /\ \A d \in Clients \ {c} : asked'[d] = asked[d]
         /\ UNCHANGED <<link, answers>>
         /\ S!TypeOK' /\ Weighted'
<1>1. t \in Range(Kinds)
  BY ChosenIsKind
<1>2. asked \in [Clients -> Seq(Range(Kinds))]
  BY ServerTyped
<1>3. /\ link[c] = "open" /\ asked' = [asked EXCEPT ![c] = Append(@, t)]
      /\ UNCHANGED <<up, link, answers>>
  BY DEF S!Ask
<1>4. /\ asked'[c] = Append(asked[c], t)
      /\ \A d \in Clients \ {c} : asked'[d] = asked[d]
  BY <1>2, <1>3
<1>5. asked' \in [Clients -> Seq(Range(Kinds))]
  BY <1>1, <1>2, <1>3
<1>6. S!TypeOK'
  BY <1>3, <1>5 DEF Typed, S!TypeOK
<1>7. ASSUME NEW n \in DOMAIN asked'[c]
      PROVE  Chosen(asked'[c][n])
  <2>1. asked[c] \in Seq(Range(Kinds))
    BY <1>2
  <2>2. /\ n \in 1 .. Len(asked[c]) + 1
        /\ n # Len(asked[c]) + 1 =>
             asked'[c][n] = asked[c][n] /\ n \in DOMAIN asked[c]
        /\ asked'[c][Len(asked[c]) + 1] = t
    BY <1>1, <1>4, <2>1, AppendProperties
  <2>3. CASE n = Len(asked[c]) + 1
    BY <2>2, <2>3
  <2>4. CASE n # Len(asked[c]) + 1
    BY <2>2, <2>4 DEF Weighted
  <2> QED
    BY <2>3, <2>4
<1>8. Weighted'
  BY <1>4, <1>7 DEF Weighted
<1> QED
  BY <1>3, <1>4, <1>6, <1>8

(* A client starts its next request, or leaves. *)
LEMMA SendTalks ==
  ASSUME Talk, NEW c \in Clients, at[c] \in {"connected", "counted"},
         SendRequest(c), UNCHANGED <<phase, got, stopFlag, successes, errors>>,
         samples' \in [Latencies -> Nat]
  PROVE  Talk'
<1>1. CASE stopFlag
  <2>1. Move(c, "finished") /\ UNCHANGED <<rng, requested, server>>
    BY <1>1 DEF SendRequest, Finish
  <2>2. phase' \in {"running", "reported", "crashed"} /\ stopFlag' \in BOOLEAN
        /\ successes' \in Nat /\ errors' \in Nat
    BY DEF Talk, Typed
  <2> QED
    BY <2>1, <2>2, MoveTalks DEF Places, InRequest
<1>2. CASE ~stopFlag
  <2>1. PICK r \in NextRequest(rng[c]) :
          /\ rng' = [rng EXCEPT ![c] = r.rng]
          /\ IF link[c] = "open" THEN S!Ask(c, r.type) ELSE UNCHANGED server
    BY <1>2 DEF SendRequest
  <2>2. /\ requested' = [requested EXCEPT ![c] = @ + 1]
        /\ at' = [at EXCEPT ![c] = "writing"]
    BY <1>2 DEF SendRequest, Move
  <2>3. rng[c] \in Rng
    BY DEF Talk, Typed
  <2>4. r.rng \in Rng /\ Chosen(r.type)
    BY <2>3, RequestIsChosen
  <2>5. /\ requested' \in [Clients -> Nat] /\ requested'[c] = requested[c] + 1
        /\ at' \in [Clients -> Places] /\ at'[c] = "writing"
        /\ rng' \in [Clients -> Rng]
    BY <2>1, <2>2, <2>4 DEF Talk, Typed, Places
  <2>6. \A d \in Clients \ {c} : requested'[d] = requested[d] /\ at'[d] = at[d]
    BY <2>2 DEF Talk, Typed
  <2>7. /\ S!TypeOK' /\ Weighted' /\ UNCHANGED <<link, answers>>
        /\ \A d \in Clients \ {c} : asked'[d] = asked[d]
        /\ \/ link[c] = "open" /\ asked'[c] = Append(asked[c], r.type)
           \/ link[c] # "open" /\ asked'[c] = asked[c]
    <3>1. CASE link[c] = "open"
      BY <2>1, <2>4, <3>1, AskTalks DEF Talk
    <3>2. CASE link[c] # "open"
      BY <2>1, <3>2 DEF Talk, Typed, Weighted, S!TypeOK, server
    <3> QED
      BY <3>1, <3>2
  <2>8. Typed'
    BY <2>5, <2>7 DEF Talk, Typed
  <2>9. InTurn(c)'
    <3>1. got[c] = requested[c]
      BY DEF Talk, Dialogues, InTurn
    <3> QED
      BY <2>5, <3>1 DEF InTurn, InRequest, Talk, Typed
  <2>10. Served(c)'
    <3>1. Served(c) /\ requested[c] \in Nat
      BY DEF Talk, Dialogues, Typed
    <3>2. asked[c] \in Seq(Range(Kinds)) /\ answers[c] \in Seq(S!Answer)
      BY ServerTyped DEF Talk
    <3>3. r.type \in Range(Kinds)
      BY <2>4, ChosenIsKind
    <3>4. CASE link[c] = "open" /\ asked'[c] = Append(asked[c], r.type)
      <4>1. /\ Len(asked'[c]) = Len(asked[c]) + 1
            /\ \A n \in 1 .. Len(asked[c]) : asked'[c][n] = asked[c][n]
        BY <3>2, <3>3, <3>4, AppendProperties
      <4>2. Len(asked[c]) \in Nat /\ Len(answers[c]) \in Nat
        BY <3>2, LenProperties
      <4>3. Len(asked[c]) = requested[c] /\ Len(answers[c]) <= Len(asked[c])
        BY <3>1, <3>4 DEF Served
      <4>4. \A n \in 1 .. Len(answers[c]) :
              answers[c][n].type \in {ResponseType(asked'[c][n]), kError}
        <5> TAKE n \in 1 .. Len(answers[c])
        <5>1. n \in 1 .. Len(asked[c])
          BY <4>2, <4>3
        <5>2. asked'[c][n] = asked[c][n]
          BY <4>1, <5>1
        <5> QED
          BY <3>1, <5>2 DEF Served
      <4> QED
        BY <2>5, <2>7, <4>1, <4>2, <4>3, <4>4 DEF Served
    <3>5. CASE link[c] # "open" /\ asked'[c] = asked[c]
      <4>1. Len(asked[c]) \in Nat
        BY <3>2, LenProperties
      <4> QED
        BY <2>5, <2>7, <3>1, <3>5, <4>1 DEF Served
    <3> QED
      BY <2>7, <3>4, <3>5
  <2>11. \A d \in Clients \ {c} : InTurn(d)' /\ Served(d)'
    BY <2>6, <2>7, Unmoved DEF Talk
  <2> QED
    BY <2>7, <2>8, <2>9, <2>10, <2>11 DEF Talk, Dialogues
<1> QED
  BY <1>1, <1>2

LEMMA ConnectTalks ==
  ASSUME Talk, NEW c \in Clients, Connect(c)
  PROVE  Talk'
<1>1. /\ at' = [at EXCEPT ![c] = "connected"] /\ at[c] = "connecting"
      /\ link' = [link EXCEPT ![c] = "open"] /\ link[c] = "new"
      /\ UNCHANGED <<up, asked, answers, phase, rng, requested, got, stopFlag,
                     successes, errors, samples>>
  BY DEF Connect, Completes, Move, S!Open, metrics
<1>2. /\ at' \in [Clients -> Places] /\ at'[c] = "connected"
      /\ link' \in [Clients -> {"new", "open", "closed"}] /\ link'[c] = "open"
      /\ \A d \in Clients \ {c} : at'[d] = at[d] /\ link'[d] = link[d]
  BY <1>1, ServerTyped DEF Talk, Typed, Places
<1>3. Typed'
  BY <1>1, <1>2 DEF Talk, Typed, S!TypeOK
<1>4. requested[c] = 0 /\ Len(asked[c]) = 0
  <2>1. asked[c] \in Seq(Range(Kinds))
    BY ServerTyped DEF Talk
  <2>2. Len(asked[c]) \in Nat
    BY <2>1, LenProperties
  <2>3. requested[c] = 0 /\ Len(asked[c]) <= requested[c]
    BY <1>1 DEF Talk, Dialogues, InTurn, Served
  <2> QED
    BY <2>2, <2>3
<1>5. got[c] = requested[c]
  BY <1>1, <1>4 DEF Talk, Dialogues, InTurn
<1>6. InTurn(c)' /\ Served(c)'
  BY <1>1, <1>2, <1>4, <1>5 DEF Talk, Dialogues, InTurn, Served, InRequest
<1>7. \A d \in Clients \ {c} : InTurn(d)' /\ Served(d)'
  BY <1>1, <1>2, Unmoved DEF Talk
<1> QED
  BY <1>1, <1>3, <1>6, <1>7 DEF Talk, Dialogues, Weighted

LEMMA ReadTalks ==
  ASSUME Talk, NEW c \in Clients, AnswerRead(c)
  PROVE  Talk'
<1>1. /\ at' = [at EXCEPT ![c] = "counted"] /\ at[c] \in InRequest
      /\ got' = [got EXCEPT ![c] = @ + 1] /\ successes' = successes + 1
      /\ UNCHANGED <<up, link, asked, answers, phase, rng, requested, stopFlag,
                     errors, samples>>
  BY DEF AnswerRead, HeaderArrived, Completes, Move, InRequest, server
<1>2. /\ at' \in [Clients -> Places] /\ at'[c] = "counted"
      /\ got' \in [Clients -> Nat] /\ got'[c] = got[c] + 1
      /\ \A d \in Clients \ {c} : at'[d] = at[d] /\ got'[d] = got[d]
  BY <1>1 DEF Talk, Typed, Places
<1>3. Typed'
  BY <1>1, <1>2 DEF Talk, Typed, S!TypeOK
<1>4. InTurn(c)' /\ Served(c)'
  <2>1. got[c] = requested[c] - 1 /\ requested[c] \in Nat
    BY <1>1 DEF Talk, Typed, Dialogues, InTurn
  <2>2. InTurn(c)'
    BY <1>1, <1>2, <2>1 DEF InTurn, InRequest
  <2>3. Served(c)
    BY DEF Talk, Dialogues
  <2> QED
    BY <1>1, <2>2, <2>3 DEF Served
<1>5. \A d \in Clients \ {c} : InTurn(d)' /\ Served(d)'
  BY <1>1, <1>2, Unmoved DEF Talk
<1> QED
  BY <1>1, <1>3, <1>4, <1>5 DEF Talk, Dialogues, Weighted

(* Service and the load generator mean the same type of answer. *)
LEMMA SameResponse ==
  ASSUME NEW t \in 1 .. 5
  PROVE  S!ResponseType(t) = ResponseType(t) /\ ResponseType(t) \in S!UInt16
<1>1. t \in Nat /\ t + HighBit \in Nat /\ t + HighBit <= S!MaxUInt16
  BY DEF HighBit, S!MaxUInt16
<1>2. ResponseType(t) = t + HighBit /\ S!ResponseType(t) = t + HighBit
  BY <1>1 DEF ResponseType, HighBit, S!ResponseType, S!HighBit
<1>3. S!MaxUInt16 \in Nat
  BY DEF S!MaxUInt16
<1>4. t + HighBit \in S!UInt16
  BY <1>1, <1>3 DEF S!UInt16
<1> QED
  BY <1>2, <1>4

(* The server's answer is of the type its request asks for, or an error. *)
LEMMA AnswersTalk ==
  ASSUME Talk, NEW c \in Clients, Answers(c)
  PROVE  Talk'
<1> DEFINE n == Len(answers[c]) + 1
<1>1. /\ asked \in [Clients -> Seq(Range(Kinds))]
      /\ answers \in [Clients -> Seq(S!Answer)]
  BY ServerTyped DEF Talk
<1>2. PICK a \in S!AnswersTo(asked[c][n]) :
        answers' = [answers EXCEPT ![c] = Append(@, a)]
  BY DEF Answers, S!Reply
<1>3. /\ Len(answers[c]) < Len(asked[c])
      /\ UNCHANGED <<up, link, asked, phase, at, rng, requested, got, stopFlag,
                     successes, errors, samples>>
  BY DEF Answers, S!Reply, client, metrics
<1>4. Len(asked[c]) \in Nat /\ Len(answers[c]) \in Nat
  BY <1>1, LenProperties
<1>5. asked[c][n] \in Range(Kinds)
  BY <1>1, <1>3, <1>4, ElementOfSeq
<1>6. a \in S!Answer /\ a.type \in {ResponseType(asked[c][n]), kError}
  <2>1. asked[c][n] \in 1 .. 5
    BY <1>5 DEF Range, Kinds, kSqlQuery, kBuyOrder, kSellOrder, kGetPosition,
                kGetPriceHistory
  <2>2. /\ S!ResponseType(asked[c][n]) = ResponseType(asked[c][n])
        /\ ResponseType(asked[c][n]) \in S!UInt16
    BY <2>1, SameResponse
  <2>4. S!kError = kError /\ kError \in S!UInt16
    BY DEF S!kError, kError, S!UInt16, S!MaxUInt16
  <2>3. /\ a.type \in {S!kError, S!ResponseType(asked[c][n])}
        /\ a.order \in OrderIds \cup {NoOrder}
        /\ a = [type |-> a.type, order |-> a.order]
    BY <1>2 DEF S!AnswersTo
  <2> QED
    BY <2>2, <2>3, <2>4 DEF S!Answer
<1> HIDE DEF n
<1>7. /\ answers' \in [Clients -> Seq(S!Answer)]
      /\ answers'[c] = Append(answers[c], a)
      /\ \A d \in Clients \ {c} : answers'[d] = answers[d]
  BY <1>1, <1>2, <1>6
<1>8. Typed'
  BY <1>3, <1>7 DEF Talk, Typed, S!TypeOK
<1>9. /\ Len(answers'[c]) = n /\ answers'[c][n] = a
      /\ \A k \in 1 .. Len(answers[c]) : answers'[c][k] = answers[c][k]
  BY <1>1, <1>6, <1>7, AppendProperties DEF n
<1>10. Served(c)'
  <2>1. Served(c)
    BY DEF Talk, Dialogues
  <2>2. ASSUME NEW k \in 1 .. n
        PROVE  answers'[c][k].type \in {ResponseType(asked[c][k]), kError}
    <3>1. CASE k = n
      BY <1>6, <1>9, <3>1
    <3>2. CASE k # n
      <4>1. k \in 1 .. Len(answers[c])
        BY <1>4, <3>2 DEF n
      <4> QED
        BY <1>9, <2>1, <4>1 DEF Served
    <3> QED
      BY <3>1, <3>2
  <2>3. n <= Len(asked[c])
    BY <1>3, <1>4 DEF n
  <2> QED
    BY <1>3, <1>9, <2>1, <2>2, <2>3 DEF Served
<1>11. InTurn(c)'
  BY <1>3 DEF Talk, Dialogues, InTurn
<1>12. \A d \in Clients \ {c} : InTurn(d)' /\ Served(d)'
  BY <1>3, <1>7, Unmoved DEF Talk
<1> QED
  BY <1>3, <1>8, <1>10, <1>11, <1>12 DEF Talk, Dialogues, Weighted

LEMMA HangsUpTalks ==
  ASSUME Talk, HangsUp
  PROVE  Talk'
<1>1. UNCHANGED <<asked, answers, phase, at, rng, requested, got, stopFlag,
                  successes, errors, samples>>
  BY DEF HangsUp, S!Shutdown, S!Hangup, client, metrics
<1>2. link \in [Clients -> {"new", "open", "closed"}] /\ up \in BOOLEAN
  BY ServerTyped DEF Talk
<1>3. /\ link' \in [Clients -> {"new", "open", "closed"}] /\ up' \in BOOLEAN
      /\ \A d \in Clients : link'[d] = link[d] \/ link'[d] = "closed"
  <2>1. CASE S!Shutdown
    BY <1>2, <2>1 DEF S!Shutdown
  <2>2. CASE \E c \in Clients : S!Hangup(c)
    BY <1>2, <2>2 DEF S!Hangup
  <2> QED
    BY <2>1, <2>2 DEF HangsUp
<1>4. Typed'
  BY <1>1, <1>3 DEF Talk, Typed, S!TypeOK
<1>5. ASSUME NEW d \in Clients PROVE InTurn(d)' /\ Served(d)'
  <2>1. InTurn(d) /\ Served(d)
    BY DEF Talk, Dialogues
  <2>2. link'[d] = "open" => link[d] = "open"
    BY <1>3
  <2> QED
    BY <1>1, <2>1, <2>2 DEF InTurn, Served
<1> QED
  BY <1>1, <1>4, <1>5 DEF Talk, Dialogues, Weighted

(* Steps that leave the clients and the server alone. *)
LEMMA MainTalks ==
  ASSUME Talk, UNCHANGED <<client, server, successes, errors, samples>>,
         phase' \in {"running", "reported", "crashed"}, stopFlag' \in BOOLEAN
  PROVE  Talk'
<1>1. Typed'
  BY DEF Talk, Typed, S!TypeOK, client, server
<1>2. ASSUME NEW d \in Clients PROVE InTurn(d)' /\ Served(d)'
  BY Unmoved DEF Talk, client, server
<1> QED
  BY <1>1, <1>2 DEF Talk, Dialogues, Weighted, client, server

LEMMA InitTalks == Init => Talk
<1> SUFFICES ASSUME Init PROVE Talk
  OBVIOUS
<1>1. S!TypeOK
  BY EmptySeq DEF Init, S!Init, S!TypeOK
<1>2. \A c \in Clients : Seed(c) \in Rng
  BY RandInRange DEF Clients
<1>3. Typed
  BY <1>1, <1>2 DEF Init, Typed, Places
<1>4. \A c \in Clients : asked[c] = <<>> /\ answers[c] = <<>>
  BY DEF Init, S!Init
<1>5. ASSUME NEW c \in Clients PROVE InTurn(c) /\ Served(c)
  BY <1>4 DEF Init, InTurn, Served, InRequest
<1> QED
  BY <1>3, <1>4, <1>5 DEF Talk, Dialogues, Weighted

LEMMA RecordedTalks ==
  ASSUME Talk, NEW c \in Clients, Recorded(c)
  PROVE  Talk'
<1>1. samples' \in [Latencies -> Nat]
  BY DEF Recorded, Talk, Typed
<1> QED
  BY <1>1, SendTalks DEF Recorded, Completes

LEMMA TalkStep ==
  ASSUME Talk, [Next]_vars
  PROVE  Talk'
<1>1. phase \in {"running", "reported", "crashed"} /\ stopFlag \in BOOLEAN
      /\ successes \in Nat /\ errors \in Nat /\ samples \in [Latencies -> Nat]
  BY DEF Talk, Typed
<1>2. ASSUME NEW c \in Clients, ClientStep(c)
      PROVE  Talk'
  <2>1. CASE Resolved(c)
    BY <1>1, <2>1, MoveTalks
       DEF Resolved, Completes, Places, InRequest, metrics, Talk, Dialogues, InTurn
  <2>2. CASE ResolveOrConnectFails(c)
    BY <2>2, FailTalks DEF ResolveOrConnectFails
  <2>3. CASE Connect(c)
    BY <2>3, ConnectTalks
  <2>4. CASE Connected(c)
    BY <1>1, <2>4, SendTalks DEF Connected, Completes, metrics
  <2>5. CASE ConnectedThrow(c)
    BY <1>1, <2>5, MainTalks DEF ConnectedThrow, metrics
  <2>6. CASE Written(c)
    BY <1>1, <2>6, MoveTalks
       DEF Written, Completes, Places, InRequest, metrics, Talk, Dialogues, InTurn
  <2>7. CASE SocketFails(c)
    BY <2>7, FailTalks DEF SocketFails
  <2>8. CASE HeaderRead(c)
    BY <1>1, <2>8, MoveTalks
       DEF HeaderRead, HeaderArrived, Completes, Places, InRequest, metrics,
           Talk, Dialogues, InTurn
  <2>9. CASE AnswerRead(c)
    BY <2>9, ReadTalks
  <2>10. CASE HeaderMalformed(c)
    BY <2>10, FailTalks DEF HeaderMalformed
  <2>11. CASE Recorded(c)
    BY <2>11, RecordedTalks
  <2> QED
    BY <1>2, <2>1, <2>2, <2>3, <2>4, <2>5, <2>6, <2>7, <2>8, <2>9, <2>10,
       <2>11 DEF ClientStep
<1>3. ASSUME NEW c \in Clients, Answers(c)
      PROVE  Talk'
  BY <1>3, AnswersTalk
<1>4. CASE TimerFires
  BY <1>1, <1>4, MainTalks DEF TimerFires, metrics
<1>5. CASE Report
  BY <1>1, <1>5, MainTalks DEF Report, metrics
<1>6. CASE HangsUp
  BY <1>6, HangsUpTalks
<1>7. CASE UNCHANGED vars
  BY <1>1, <1>7, MainTalks DEF vars, metrics
<1> QED
  BY <1>2, <1>3, <1>4, <1>5, <1>6, <1>7 DEF Next, Gone

-----------------------------------------------------------------------------
(* The books.                                                              *)

(* Steps that the books do not notice. *)
LEMMA SameBooks ==
  ASSUME Books, UNCHANGED <<at, requested, inFlight, metrics>>
  PROVE  Books'
BY DEF Books, Lost, At, Size, metrics

(* A move that leaves a client at work, with the request it was busy with. *)
LEMMA MoveBooks ==
  ASSUME Typed, Books, NEW c \in Clients, NEW place \in Places, Move(c, place),
         at[c] \notin {"counted", "failed", "finished"},
         place \notin {"counted", "failed", "finished"},
         at[c] \in InRequest <=> place \in InRequest,
         UNCHANGED <<requested, inFlight, metrics>>
  PROVE  Books'
<1>1. /\ Cardinality(At(InRequest)') = Cardinality(At(InRequest))
      /\ Cardinality(At({"failed"})') = Cardinality(At({"failed"}))
      /\ Cardinality(At({"counted"})') = Cardinality(At({"counted"}))
      /\ Cardinality(At(Over)') = Cardinality(At(Over))
  BY AtMoves DEF Over
<1>2. Cardinality(Lost') = Cardinality(Lost)
  BY LostMoves
<1> QED
  BY <1>1, <1>2 DEF Books, Size, metrics

(* A client that fails with a request open loses it; the one that fails    *)
(* before has none.                                                        *)
LEMMA FailBooks ==
  ASSUME Talk, Books, NEW c \in Clients, Fail(c),
         at[c] \in {"resolving", "connecting"} \cup InRequest
  PROVE  Books'
<1> USE DEF Talk
<1>1. /\ "failed" \in Places /\ Move(c, "failed")
      /\ errors' = errors + 1 /\ inFlight' = inFlight - 1
      /\ UNCHANGED <<requested, successes, samples>>
  BY DEF Places, Fail, Finish
<1>2. /\ Cardinality(At({"failed"})') = Cardinality(At({"failed"})) + 1
      /\ Cardinality(At({"counted"})') = Cardinality(At({"counted"}))
      /\ Cardinality(At(Over)') = Cardinality(At(Over)) + 1
      /\ Cardinality(At(Over)) \in Nat
  BY <1>1, AtMoves DEF Over, InRequest
<1>3. Cardinality(At(InRequest)') + Cardinality(Lost')
        = Cardinality(At(InRequest)) + Cardinality(Lost)
  <2>1. requested' = requested /\ requested[c] \in Nat /\ at[c] # "failed"
    BY <1>1 DEF Typed, InRequest
  <2>2. /\ Cardinality(At(InRequest)) \in Nat
        /\ Cardinality(At(InRequest)') \in Nat
        /\ Cardinality(Lost) \in Nat /\ Cardinality(Lost') \in Nat
    BY <1>1, <2>1, AtMoves, LostMoves
  <2>3. CASE at[c] \in InRequest
    <3>1. requested[c] > 0
      BY <2>1, <2>3 DEF Dialogues, InTurn, Typed
    <3>2. Cardinality(At(InRequest)') = Cardinality(At(InRequest)) - 1
      BY <1>1, <2>3, AtMoves DEF InRequest
    <3>3. Cardinality(Lost') = Cardinality(Lost) + 1
      BY <1>1, <2>1, <3>1, LostMoves
    <3> QED
      BY <2>2, <3>2, <3>3
  <2>4. CASE at[c] \in {"resolving", "connecting"}
    <3>1. requested[c] = 0
      BY <2>4 DEF Dialogues, InTurn
    <3>2. Cardinality(At(InRequest)') = Cardinality(At(InRequest))
      BY <1>1, <2>4, AtMoves DEF InRequest
    <3>3. Cardinality(Lost') = Cardinality(Lost)
      BY <1>1, <2>1, <3>1, LostMoves
    <3> QED
      BY <3>2, <3>3
  <2> QED
    BY <2>3, <2>4
<1>4. /\ Cardinality(At(InRequest)) \in Nat /\ Cardinality(Lost) \in Nat
      /\ Cardinality(At(InRequest)') \in Nat /\ Cardinality(Lost') \in Nat
  BY <1>1, AtMoves, LostMoves DEF InRequest
<1>5. /\ Cardinality(Each(requested))
           = successes + Cardinality(At(InRequest)) + Cardinality(Lost)
      /\ inFlight = NumClients - Cardinality(At(Over))
      /\ errors = Cardinality(At({"failed"}))
      /\ Size(samples) = successes - Cardinality(At({"counted"}))
  BY DEF Books
<1>6. Cardinality(Each(requested))
        = successes + Cardinality(At(InRequest)') + Cardinality(Lost')
  BY <1>3, <1>4, <1>5 DEF Typed
<1>7. inFlight' = NumClients - Cardinality(At(Over)')
  BY <1>1, <1>2, <1>5, LoadGenAssumption
<1>8. errors' = Cardinality(At({"failed"})')
  BY <1>1, <1>2, <1>5
<1>9. Size(samples) = successes - Cardinality(At({"counted"})')
  BY <1>2, <1>5
<1> QED
  BY <1>1, <1>6, <1>7, <1>8, <1>9 DEF Books, Size

(* What sending does to the books, apart from the sample just recorded. *)
LEMMA SendBooks ==
  ASSUME Talk, Books, NEW c \in Clients, at[c] \in {"connected", "counted"},
         SendRequest(c), UNCHANGED <<successes, errors>>
  PROVE  /\ IsFiniteSet(Each(requested'))
         /\ Cardinality(Each(requested'))
              = successes' + Cardinality(At(InRequest)') + Cardinality(Lost')
         /\ errors' = Cardinality(At({"failed"})')
         /\ Cardinality(At({"counted"})) \in Nat
         /\ Cardinality(At({"counted"})')
              = IF at[c] = "counted" THEN Cardinality(At({"counted"})) - 1
                ELSE Cardinality(At({"counted"}))
         /\ inFlight' = NumClients - Cardinality(At(Over)')
<1> USE DEF Talk
<1>1. PICK place \in {"finished", "writing"} : Move(c, place)
  BY DEF SendRequest, Finish
<1>2. place \in Places
  BY DEF Places
<1>3. /\ Cardinality(At({"failed"})') = Cardinality(At({"failed"}))
      /\ Cardinality(At({"counted"})) \in Nat
      /\ Cardinality(At({"counted"})')
           = IF at[c] = "counted" THEN Cardinality(At({"counted"})) - 1
             ELSE Cardinality(At({"counted"}))
  BY <1>1, <1>2, AtMoves
<1>4. at'[c] = place
  BY <1>1 DEF Typed, Move
<1>5. /\ IsFiniteSet(Each(requested))
      /\ Cardinality(Each(requested))
           = successes + Cardinality(At(InRequest)) + Cardinality(Lost)
      /\ inFlight = NumClients - Cardinality(At(Over))
      /\ errors = Cardinality(At({"failed"}))
  BY DEF Books
<1>6. CASE stopFlag
  <2>1. Move(c, "finished") /\ requested' = requested /\ inFlight' = inFlight - 1
    BY <1>6 DEF SendRequest, Finish
  <2>2. "finished" \in Places
    BY DEF Places
  <2>3. /\ Cardinality(At(InRequest)') = Cardinality(At(InRequest))
        /\ Cardinality(At(Over)') = Cardinality(At(Over)) + 1
        /\ Cardinality(At(Over)) \in Nat
    BY <2>1, <2>2, AtMoves DEF InRequest, Over
  <2>4. Cardinality(Lost') = Cardinality(Lost)
    BY <2>1, <2>2, LostMoves
  <2>5. inFlight' = NumClients - Cardinality(At(Over)')
    BY <1>5, <2>1, <2>3, LoadGenAssumption
  <2> QED
    BY <1>3, <1>5, <2>1, <2>3, <2>4, <2>5
<1>7. CASE ~stopFlag
  <2>1. /\ Move(c, "writing") /\ inFlight' = inFlight
        /\ requested' = [requested EXCEPT ![c] = @ + 1]
    BY <1>7 DEF SendRequest
  <2>2. "writing" \in Places
    BY DEF Places
  <2>3. /\ Cardinality(At(InRequest)') = Cardinality(At(InRequest)) + 1
        /\ Cardinality(At(InRequest)) \in Nat
        /\ Cardinality(At(Over)') = Cardinality(At(Over))
    BY <2>1, <2>2, AtMoves DEF InRequest, Over
  <2>4. requested \in [Clients -> Nat] /\ requested' \in [Clients -> Nat]
    BY <2>1 DEF Typed
  <2>5. Cardinality(Lost') = Cardinality(Lost) /\ Cardinality(Lost) \in Nat
    <3>1. \A d \in Clients \ {c} : requested'[d] = requested[d]
      BY <2>1, <2>4
    <3> QED
      BY <2>1, <2>2, <3>1, LostMoves
  <2>6. /\ IsFiniteSet(Each(requested'))
        /\ Cardinality(Each(requested')) = Cardinality(Each(requested)) + 1
    <3>1. /\ IsFiniteSet(Each([requested EXCEPT ![c] = @ + 1]))
          /\ Cardinality(Each([requested EXCEPT ![c] = @ + 1]))
               = Cardinality(Each(requested)) + 1
      BY ONLY <1>5, <2>4, c \in Clients, EachOneMore, Zenon
    <3> QED
      BY ONLY <2>1, <3>1, Zenon
  <2>7. Cardinality(Each(requested'))
          = successes + Cardinality(At(InRequest)') + Cardinality(Lost')
    BY <1>5, <2>3, <2>5, <2>6 DEF Typed
  <2> QED
    BY <1>3, <1>5, <2>1, <2>3, <2>6, <2>7
<1> QED
  BY <1>6, <1>7

LEMMA ReadBooks ==
  ASSUME Talk, Books, NEW c \in Clients, AnswerRead(c)
  PROVE  Books'
<1> USE DEF Talk
<1>1. /\ Move(c, "counted") /\ "counted" \in Places /\ at[c] \in InRequest
      /\ successes' = successes + 1
      /\ UNCHANGED <<requested, inFlight, errors, samples>>
  BY DEF AnswerRead, HeaderArrived, Completes, InRequest, Places
<1>2. /\ Cardinality(At(InRequest)') = Cardinality(At(InRequest)) - 1
      /\ Cardinality(At(InRequest)) \in Nat
      /\ Cardinality(At({"failed"})') = Cardinality(At({"failed"}))
      /\ Cardinality(At({"counted"})') = Cardinality(At({"counted"})) + 1
      /\ Cardinality(At({"counted"})) \in Nat
      /\ Cardinality(At(Over)') = Cardinality(At(Over))
  BY <1>1, AtMoves DEF InRequest, Over
<1>3. Cardinality(Lost') = Cardinality(Lost) /\ Cardinality(Lost) \in Nat
  BY <1>1, LostMoves DEF InRequest
<1>4. /\ Cardinality(Each(requested))
           = successes + Cardinality(At(InRequest)) + Cardinality(Lost)
      /\ Size(samples) = successes - Cardinality(At({"counted"}))
      /\ successes \in Nat
  BY DEF Books, Typed
<1>5. Cardinality(Each(requested))
        = successes' + Cardinality(At(InRequest)') + Cardinality(Lost')
  BY <1>1, <1>2, <1>3, <1>4
<1>6. Size(samples) = successes' - Cardinality(At({"counted"})')
  BY <1>1, <1>2, <1>4
<1> QED
  BY <1>1, <1>2, <1>5, <1>6 DEF Books, Size

LEMMA ConnectedBooks ==
  ASSUME Talk, Books, NEW c \in Clients, Connected(c)
  PROVE  Books'
<1>1. /\ at[c] = "connected" /\ SendRequest(c)
      /\ UNCHANGED <<successes, errors, samples>>
  BY DEF Connected, Completes, metrics
<1>2. /\ IsFiniteSet(Each(requested'))
      /\ Cardinality(Each(requested'))
           = successes' + Cardinality(At(InRequest)') + Cardinality(Lost')
      /\ errors' = Cardinality(At({"failed"})')
      /\ Cardinality(At({"counted"})') = Cardinality(At({"counted"}))
      /\ inFlight' = NumClients - Cardinality(At(Over)')
  BY <1>1, SendBooks
<1> QED
  BY <1>1, <1>2 DEF Books, Size

LEMMA RecordedBooks ==
  ASSUME Talk, Books, NEW c \in Clients, Recorded(c)
  PROVE  Books'
<1>1. /\ at[c] = "counted" /\ SendRequest(c) /\ UNCHANGED <<successes, errors>>
  BY DEF Recorded, Completes
<1>2. /\ IsFiniteSet(Each(requested'))
      /\ Cardinality(Each(requested'))
           = successes' + Cardinality(At(InRequest)') + Cardinality(Lost')
      /\ errors' = Cardinality(At({"failed"})')
      /\ Cardinality(At({"counted"})) \in Nat
      /\ Cardinality(At({"counted"})') = Cardinality(At({"counted"})) - 1
      /\ inFlight' = NumClients - Cardinality(At(Over)')
  BY <1>1, SendBooks
<1>3. PICK us \in Latencies : samples' = [samples EXCEPT ![us] = @ + 1]
  BY DEF Recorded
<1>4. samples \in [Latencies -> Nat] /\ samples' \in [Latencies -> Nat]
  BY <1>3 DEF Talk, Typed
<1>5. /\ IsFiniteSet(Each(samples'))
      /\ Cardinality(Each(samples')) = Cardinality(Each(samples)) + 1
  <2>1. IsFiniteSet(Each(samples))
    BY DEF Books
  <2>2. /\ IsFiniteSet(Each([samples EXCEPT ![us] = @ + 1]))
        /\ Cardinality(Each([samples EXCEPT ![us] = @ + 1]))
             = Cardinality(Each(samples)) + 1
    BY ONLY <1>4, <2>1, us \in Latencies, EachOneMore, Zenon
  <2> QED
    BY ONLY <1>3, <2>2, Zenon
<1>6. Cardinality(Each(samples)) = successes - Cardinality(At({"counted"}))
      /\ successes \in Nat
  BY DEF Books, Size, Talk, Typed
<1>7. Cardinality(Each(samples')) = successes' - Cardinality(At({"counted"})')
  BY <1>1, <1>2, <1>5, <1>6
<1> QED
  BY <1>2, <1>5, <1>7 DEF Books, Size

LEMMA InitBooks == Init => Books
<1> SUFFICES ASSUME Init PROVE Books
  OBVIOUS
<1>1. Each(requested) = {} /\ Each(samples) = {}
  BY EachOfNone DEF Init
<1>2. \A X : X \cap {"resolving"} = {} => At(X) = {}
  BY DEF Init, At
<1>3. /\ At(InRequest) = {} /\ At({"failed"}) = {} /\ At({"counted"}) = {}
      /\ At(Over) = {}
  BY <1>2 DEF InRequest, Over
<1>4. Lost = {}
  BY <1>3 DEF Lost
<1>5. IsFiniteSet({}) /\ Cardinality({}) = 0
  BY FS_EmptySet
<1>6. NumClients \in Nat
  BY LoadGenAssumption
<1> QED
  BY <1>1, <1>3, <1>4, <1>5, <1>6 DEF Init, Books, Size

LEMMA BooksStep ==
  ASSUME Talk, Books, [Next]_vars
  PROVE  Books'
<1> USE DEF Talk
<1>1. ASSUME NEW c \in Clients, ClientStep(c)
      PROVE  Books'
  <2>1. CASE Resolved(c)
    BY <2>1, MoveBooks DEF Resolved, Completes, Places, InRequest
  <2>2. CASE ResolveOrConnectFails(c)
    BY <2>2, FailBooks DEF ResolveOrConnectFails, Completes
  <2>3. CASE Connect(c)
    BY <2>3, MoveBooks DEF Connect, Completes, Places, InRequest
  <2>4. CASE Connected(c)
    BY <2>4, ConnectedBooks
  <2>5. CASE ConnectedThrow(c)
    BY <2>5, SameBooks DEF ConnectedThrow, client
  <2>6. CASE Written(c)
    BY <2>6, MoveBooks DEF Written, Completes, Places, InRequest
  <2>7. CASE SocketFails(c)
    BY <2>7, FailBooks DEF SocketFails, Completes
  <2>8. CASE HeaderRead(c)
    BY <2>8, MoveBooks
       DEF HeaderRead, HeaderArrived, Completes, Places, InRequest
  <2>9. CASE AnswerRead(c)
    BY <2>9, ReadBooks
  <2>10. CASE HeaderMalformed(c)
    BY <2>10, FailBooks DEF HeaderMalformed, HeaderArrived, Completes, InRequest
  <2>11. CASE Recorded(c)
    BY <2>11, RecordedBooks
  <2> QED
    BY <1>1, <2>1, <2>2, <2>3, <2>4, <2>5, <2>6, <2>7, <2>8, <2>9, <2>10,
       <2>11 DEF ClientStep
<1>2. ASSUME NEW c \in Clients, Answers(c)
      PROVE  Books'
  BY <1>2, SameBooks DEF Answers, client
<1>3. CASE TimerFires
  BY <1>3, SameBooks DEF TimerFires, client
<1>4. CASE Report
  BY <1>4, SameBooks DEF Report, client
<1>5. CASE HangsUp
  BY <1>5, SameBooks DEF HangsUp, client
<1>6. CASE UNCHANGED vars
  BY <1>6, SameBooks DEF vars, client
<1> QED
  BY <1>1, <1>2, <1>3, <1>4, <1>5, <1>6 DEF Next, Gone

-----------------------------------------------------------------------------
(* The report.                                                             *)

LEMMA ReportedStep ==
  ASSUME Reported, [Next]_vars
  PROVE  Reported'
<1>1. CASE phase # "reported" /\ ~Report
  <2>1. phase' # "reported"
    <3>1. ASSUME NEW c \in Clients, ClientStep(c) PROVE phase' # "reported"
      BY <1>1, <3>1
         DEF ClientStep, Resolved, ResolveOrConnectFails, Fail, Connect,
             Connected, ConnectedThrow, Written, SocketFails, HeaderRead,
             AnswerRead, HeaderMalformed, Recorded
    <3>2. ASSUME NEW c \in Clients, Answers(c) PROVE phase' # "reported"
      BY <1>1, <3>2 DEF Answers
    <3>3. CASE TimerFires \/ HangsUp \/ UNCHANGED vars
      BY <1>1, <3>3 DEF TimerFires, HangsUp, vars
    <3> QED
      BY <1>1, <3>1, <3>2, <3>3 DEF Next, Gone
  <2> QED
    BY <2>1 DEF Reported
<1>2. CASE phase = "reported" /\ ~Report
  <2>1. UNCHANGED vars
    <3>1. ASSUME NEW c \in Clients PROVE ~ClientStep(c) /\ ~Answers(c)
      BY <1>2
         DEF ClientStep, Resolved, ResolveOrConnectFails, Connect, Connected,
             ConnectedThrow, Written, SocketFails, HeaderRead, AnswerRead,
             HeaderMalformed, HeaderArrived, Recorded, Completes, Answers
    <3>2. ~TimerFires /\ ~HangsUp
      BY <1>2 DEF TimerFires, HangsUp
    <3> QED
      BY <1>2, <3>1, <3>2 DEF Next, Gone
  <2> QED
    BY <2>1 DEF Reported, vars, client, metrics, NoWorkLeft, At
<1>3. CASE Report
  BY <1>3 DEF Report, Reported, client, metrics, NoWorkLeft, At
<1> QED
  BY <1>1, <1>2, <1>3

(* The invariant of the load generator (see TestInv): types, turns and     *)
(* answers, the books, and the report.                                     *)
THEOREM TestInvariance == Spec => []TestInv
<1>1. Init => TestInv
  BY InitTalks, InitBooks DEF Init, Talk, Reported, TestInv
<1>2. TestInv /\ [Next]_vars => TestInv'
  BY TalkStep, BooksStep, ReportedStep DEF Talk, TestInv
<1> QED
  BY <1>1, <1>2, PTL DEF Spec

(* Every variable of the load generator stays in its type; in particular   *)
(* in_flight never wraps, because no client finishes twice                 *)
(* (client_session.cpp:178).                                               *)
THEOREM TypeAlwaysCorrect == Spec => []TypeOK
<1>1. TestInv => TypeOK
  <2> SUFFICES ASSUME TestInv PROVE TypeOK
    OBVIOUS
  <2>1. inFlight = NumClients - Cardinality(At(Over))
    BY DEF TestInv, Books
  <2>2. /\ Cardinality(At(Over)) \in Nat /\ Cardinality(At(Over)) <= NumClients
        /\ NumClients \in Nat
    BY ClientsCounted, LoadGenAssumption
  <2>3. inFlight \in 0 .. NumClients
    BY <2>1, <2>2
  <2> QED
    BY <2>3 DEF TestInv, Typed, TypeOK
<1> QED
  BY <1>1, TestInvariance, PTL

(* The books balance at every moment, through failures at any point of a   *)
(* client's loop (client_session.cpp:112-183, metrics_collector.cpp:13-22).*)
THEOREM EveryRequestAlwaysCounted == Spec => []EveryRequestCounted
<1>1. TestInv => EveryRequestCounted
  BY DEF TestInv, Books, Lost, EveryRequestCounted
<1> QED
  BY <1>1, TestInvariance, PTL

(* A client always reads the answer to the request it made last            *)
(* (client_session.cpp:129-175).                                           *)
THEOREM AnswerAlwaysOwn == Spec => []OwnAnswer
<1>1. TestInv => OwnAnswer
  <2> SUFFICES ASSUME TestInv, NEW c \in Clients
               PROVE  /\ at[c] \in InRequest => got[c] = requested[c] - 1
                      /\ at[c] \in {"connected", "counted"} =>
                           got[c] = requested[c]
                      /\ Len(answers[c]) <= requested[c]
                      /\ at[c] \in {"readHeader", "readBody"}
                         /\ got[c] < Len(answers[c]) =>
                           answers[c][requested[c]].type
                             \in {ResponseType(asked[c][requested[c]]), kError}
    BY DEF OwnAnswer
  <2>1. InTurn(c) /\ Served(c) /\ got[c] \in Nat /\ requested[c] \in Nat
    BY DEF TestInv, Dialogues, Typed
  <2>2. Len(asked[c]) \in Nat /\ Len(answers[c]) \in Nat
    <3>1. asked[c] \in Seq(Range(Kinds)) /\ answers[c] \in Seq(S!Answer)
      BY ServerTyped DEF TestInv
    <3> QED
      BY <3>1, LenProperties
  <2>3. Len(answers[c]) <= requested[c]
    BY <2>1, <2>2 DEF Served
  <2>4. ASSUME at[c] \in {"readHeader", "readBody"}, got[c] < Len(answers[c])
        PROVE  requested[c] \in 1 .. Len(answers[c])
    BY <2>1, <2>2, <2>3, <2>4 DEF InTurn, InRequest
  <2> QED
    BY <2>1, <2>3, <2>4 DEF InTurn, Served
<1> QED
  BY <1>1, TestInvariance, PTL

(* A step of a client after the timer brings it nearer to its end. *)
LEMMA StepIsNearer ==
  ASSUME Typed, stopFlag, NEW c \in Clients, ClientStep(c)
  PROVE  /\ requested' = requested
         /\ \/ at' = at
            \/ \E place \in Places :
                 /\ at' = [at EXCEPT ![c] = place]
                 /\ StepsLeft[place] < StepsLeft[at[c]]
<1>1. CASE \/ Resolved(c) \/ Connect(c) \/ Written(c) \/ HeaderRead(c)
           \/ AnswerRead(c)
  <2>1. /\ requested' = requested
        /\ \/ at[c] = "resolving" /\ Move(c, "connecting")
           \/ at[c] = "connecting" /\ Move(c, "connected")
           \/ at[c] = "writing" /\ Move(c, "readHeader")
           \/ at[c] = "readHeader" /\ Move(c, "readBody")
           \/ at[c] \in {"readHeader", "readBody"} /\ Move(c, "counted")
    BY <1>1 DEF Resolved, Connect, Written, HeaderRead, AnswerRead,
       HeaderArrived, Completes
  <2> QED
    BY <2>1 DEF Move, StepsLeft, Places
<1>2. CASE ResolveOrConnectFails(c) \/ SocketFails(c) \/ HeaderMalformed(c)
  <2>1. /\ requested' = requested /\ Move(c, "failed")
        /\ at[c] \in {"resolving", "connecting", "writing", "readHeader", "readBody"}
    BY <1>2 DEF ResolveOrConnectFails, SocketFails, HeaderMalformed,
       HeaderArrived, InRequest, Fail, Finish, Completes
  <2> QED
    BY <2>1 DEF Move, StepsLeft, Places
<1>3. CASE Connected(c) \/ Recorded(c)
  <2>1. /\ requested' = requested /\ Move(c, "finished")
        /\ at[c] \in {"connected", "counted"}
    BY <1>3 DEF Connected, Recorded, SendRequest, Finish, Completes
  <2> QED
    BY <2>1 DEF Move, StepsLeft, Places
<1>4. CASE ConnectedThrow(c)
  BY <1>4 DEF ConnectedThrow, client
<1> QED
  BY <1>1, <1>2, <1>3, <1>4 DEF ClientStep

(* Once the timer has fired no request is made, and each client is over    *)
(* after four steps of its own at most (client_session.cpp:112-183): what  *)
(* remains for the end of a test is that a step comes.                     *)
THEOREM TimerAlwaysDrains == Spec => TimerDrains
<1> DEFINE Nearer == stopFlag =>
             /\ requested' = requested
             /\ \A c \in Clients :
                  at'[c] # at[c] => StepsLeft[at'[c]] < StepsLeft[at[c]]
<1>1. ASSUME Typed, [Next]_vars PROVE Nearer
  <2>1. SUFFICES ASSUME stopFlag
                 PROVE  /\ requested' = requested
                        /\ \A c \in Clients : at'[c] # at[c] =>
                             StepsLeft[at'[c]] < StepsLeft[at[c]]
    OBVIOUS
  <2>2. ASSUME NEW c \in Clients, ClientStep(c)
        PROVE  Nearer
    BY <1>1, <2>1, <2>2, StepIsNearer DEF Typed
  <2>3. CASE \/ \E c \in Clients : Answers(c)
             \/ Report \/ HangsUp \/ UNCHANGED vars
    BY <2>3 DEF Answers, Report, HangsUp, vars, client
  <2> QED
    BY <1>1, <2>1, <2>2, <2>3 DEF Next, TimerFires, Gone
<1>2. TestInv /\ [Next]_vars => [Nearer]_vars
  BY <1>1 DEF TestInv
<1> QED
  BY <1>2, TestInvariance, PTL DEF Spec, TimerDrains

(* With weights that are not all zero, a type of weight zero is never      *)
(* asked for, whatever the weights are (client_session.cpp:63-108).        *)
THEOREM WeightsAlwaysRespected == Spec => []WeightsRespected
<1>1. TestInv => WeightsRespected
  BY DEF TestInv, Weighted, Chosen, WeightsRespected
<1> QED
  BY <1>1, TestInvariance, PTL

(* The report is of the whole test (main.cpp:96-110). *)
THEOREM ReportAlwaysComplete == Spec => []ReportComplete
<1>1. TestInv => ReportComplete
  <2> SUFFICES ASSUME TestInv, phase = "reported"
               PROVE  /\ inFlight = 0
                      /\ report.count = Size(samples)
                      /\ report.errors = Cardinality(At({"failed"}))
                      /\ report.count <= Cardinality(Each(requested))
                      /\ Cardinality(Each(requested))
                           <= report.count + report.errors
    BY DEF ReportComplete
  <2>1. At(Over) = Clients /\ report = Compute(successes, errors, samples)
    BY DEF TestInv, Reported, NoWorkLeft
  <2>2. \A c \in Clients : at[c] \in Over
    BY <2>1 DEF At
  <2>3. At(InRequest) = {} /\ At({"counted"}) = {}
    BY <2>2 DEF At, Over, InRequest
  <2>4. Cardinality(At(InRequest)) = 0 /\ Cardinality(At({"counted"})) = 0
    BY <2>3, FS_EmptySet
  <2>5. report.count = successes /\ report.errors = errors
    BY <2>1 DEF Compute
  <2>6. /\ Cardinality(Lost) \in Nat /\ Cardinality(At({"failed"})) \in Nat
        /\ Cardinality(Lost) <= Cardinality(At({"failed"}))
    <3>1. Lost \subseteq At({"failed"}) /\ IsFiniteSet(At({"failed"}))
      BY ClientsCounted DEF Lost
    <3> QED
      BY <3>1, FS_Subset, FS_CardinalityType
  <2>7. inFlight = 0
    BY <2>1, ClientsCounted, LoadGenAssumption DEF TestInv, Books
  <2>8. Size(samples) = successes /\ successes \in Nat
    BY <2>4 DEF TestInv, Books, Typed
  <2>9. /\ Cardinality(Each(requested)) = successes + Cardinality(Lost)
        /\ errors = Cardinality(At({"failed"}))
    BY <2>4, <2>6, <2>8 DEF TestInv, Books
  <2> QED
    BY <2>5, <2>6, <2>7, <2>8, <2>9
<1> QED
  BY <1>1, TestInvariance, PTL

(* A report that counts a request has its sample. *)
LEMMA SomeSamples ==
  ASSUME TestInv, phase = "reported", report.count > 0
  PROVE  /\ Size(samples) \in Nat /\ Size(samples) # 0
         /\ report.count = Size(samples)
<1>1. At(Over) = Clients /\ report.count = successes /\ successes \in Nat
  BY DEF TestInv, Reported, NoWorkLeft, Compute, Typed
<1>2. At({"counted"}) = {}
  BY <1>1 DEF At, Over
<1>3. Cardinality(At({"counted"})) = 0
  BY <1>2, FS_EmptySet
<1>4. Size(samples) = successes
  BY <1>1, <1>3 DEF TestInv, Books
<1> QED
  BY <1>1, <1>4

(* The report's latencies are in their order, for every number of samples, *)
(* however they repeat (metrics_collector.cpp:56-63).                      *)
THEOREM LatenciesAlwaysOrdered == Spec => []LatenciesOrdered
<1>1. TestInv => LatenciesOrdered
  <2> SUFFICES ASSUME TestInv, phase = "reported", report.count > 0
               PROVE  /\ report.min <= report.p50 /\ report.p50 <= report.p90
                      /\ report.p90 <= report.p99 /\ report.p99 <= report.max
    BY DEF LatenciesOrdered
  <2> DEFINE n == Size(samples)
  <2>1. report = Compute(successes, errors, samples)
    BY DEF TestInv, Reported
  <2>2. n \in Nat /\ n # 0
    BY SomeSamples
  <2>3. /\ report.min = Min(Occurring(samples))
        /\ report.p50 = Sorted(samples, PercentileIndex(50, n))
        /\ report.p90 = Sorted(samples, PercentileIndex(90, n))
        /\ report.p99 = Sorted(samples, PercentileIndex(99, n))
        /\ report.max = Max(Occurring(samples))
    BY <2>1, <2>2 DEF Compute, Percentile
  <2>4. /\ samples \in [Latencies -> Nat] /\ IsFiniteSet(Each(samples))
        /\ Latencies \subseteq Nat /\ IsFiniteSet(Latencies)
    BY LoadGenAssumption DEF TestInv, Typed, Books
  <2> HIDE DEF n
  <2> DEFINE a == PercentileIndex(50, n)
             b == PercentileIndex(90, n)
             c == PercentileIndex(99, n)
  <2>5. /\ a \in Nat /\ b \in Nat /\ c \in Nat
        /\ a <= b /\ b <= c /\ c < n
    BY <2>2, IndicesOrdered
  <2>6. b < n
    BY <2>2, <2>5
  <2> HIDE DEF a, b, c
  <2>7. /\ Min(Occurring(samples)) <= Sorted(samples, a)
        /\ Sorted(samples, a) <= Sorted(samples, b)
    BY <2>2, <2>4, <2>5, <2>6, SortedOrdered DEF n
  <2>8. /\ Sorted(samples, b) <= Sorted(samples, c)
        /\ Sorted(samples, c) <= Max(Occurring(samples))
    BY <2>2, <2>4, <2>5, SortedOrdered DEF n
  <2> QED
    BY <2>3, <2>7, <2>8 DEF a, b, c
<1> QED
  BY <1>1, TestInvariance, PTL

(* A percentile of the report is never too low by more than what one sample *)
(* makes out, for every number of samples (metrics_collector.cpp:56-63).   *)
THEOREM PercentilesAlwaysReached == Spec => []PercentilesReached
<1>1. TestInv => PercentilesReached
  <2> DEFINE n == Size(samples)
  <2> SUFFICES ASSUME TestInv, phase = "reported", report.count > 0
               PROVE  /\ 100 * UpTo(samples, report.p50) > 50 * (report.count - 1)
                      /\ 100 * UpTo(samples, report.p90) > 90 * (report.count - 1)
                      /\ 100 * UpTo(samples, report.p99) > 99 * (report.count - 1)
    BY DEF PercentilesReached
  <2>1. report = Compute(successes, errors, samples)
    BY DEF TestInv, Reported
  <2>2. n \in Nat /\ n # 0 /\ report.count = n
    BY SomeSamples
  <2>3. /\ report.p50 = Sorted(samples, PercentileIndex(50, n))
        /\ report.p90 = Sorted(samples, PercentileIndex(90, n))
        /\ report.p99 = Sorted(samples, PercentileIndex(99, n))
    BY <2>1, <2>2 DEF Compute, Percentile
  <2>4. /\ samples \in [Latencies -> Nat] /\ IsFiniteSet(Each(samples))
        /\ Latencies \subseteq Nat /\ IsFiniteSet(Latencies)
    BY LoadGenAssumption DEF TestInv, Typed, Books
  <2>5. ASSUME NEW p \in {50, 90, 99}
        PROVE  LET k == UpTo(samples, Sorted(samples, PercentileIndex(p, n)))
               IN k \in Nat /\ p * (n - 1) < 100 * k
    <3> DEFINE i == PercentileIndex(p, n)
               k == UpTo(samples, Sorted(samples, i))
    <3> HIDE DEF n
    <3>1. i \in Nat /\ i < n
      BY <2>2, IndicesOrdered
    <3> HIDE DEF i
    <3>2. k \in Nat /\ i < k
      <4>1. i \in Nat /\ i <= i /\ i < Size(samples) /\ Size(samples) # 0
        BY <2>2, <3>1 DEF n
      <4> QED
        BY <2>4, <4>1, SortedOrdered
    <3> HIDE DEF k
    <3>3. p * (n - 1) < 100 * k
      BY <2>2, <3>2, IndexCut DEF i
    <3> QED
      BY <3>2, <3>3 DEF i, k
  <2> HIDE DEF n
  <2>6. ASSUME NEW p \in {50, 90, 99}
        PROVE  100 * UpTo(samples, Sorted(samples, PercentileIndex(p, n)))
                 > p * (n - 1)
    <3> DEFINE k == UpTo(samples, Sorted(samples, PercentileIndex(p, n)))
    <3>1. k \in Nat /\ p * (n - 1) < 100 * k
      BY <2>5
    <3> HIDE DEF k
    <3>2. 100 * k > p * (n - 1)
      BY <2>2, <3>1
    <3> QED
      BY <3>2 DEF k
  <2> QED
    BY <2>2, <2>3, <2>6
<1> QED
  BY <1>1, TestInvariance, PTL

(* The mean latency of the report lies between its smallest and its        *)
(* largest (metrics_collector.cpp:52-54).                                  *)
THEOREM MeanAlwaysWithin == Spec => []MeanWithin
<1>1. TestInv => MeanWithin
  <2> SUFFICES ASSUME TestInv, phase = "reported", report.count > 0
               PROVE  /\ report.min * report.count <= report.sum
                      /\ report.sum <= report.max * report.count
    BY DEF MeanWithin
  <2>1. report = Compute(successes, errors, samples)
    BY DEF TestInv, Reported
  <2>2. /\ Size(samples) # 0 /\ report.count = Size(samples)
    BY SomeSamples
  <2>3. /\ report.min = Min(Occurring(samples))
        /\ report.sum = Sum(samples)
        /\ report.max = Max(Occurring(samples))
    BY <2>1, <2>2 DEF Compute
  <2>4. /\ samples \in [Latencies -> Nat] /\ IsFiniteSet(Each(samples))
        /\ Latencies \subseteq Nat /\ IsFiniteSet(Latencies)
    BY LoadGenAssumption DEF TestInv, Typed, Books
  <2> QED
    BY <2>2, <2>3, <2>4, SumBetween
<1> QED
  BY <1>1, TestInvariance, PTL

-----------------------------------------------------------------------------
(* The low bit of the generator.                                           *)

(* The lowest bit of the generator's state alternates. *)
LEMMA LowBitAlternates ==
  ASSUME NEW x \in Int
  PROVE  NextRand(x) % 2 = (x + 1) % 2
<1>1. /\ RandSize \in {2, 4, 8, 16, 32, 64, 128, 256, 512, 1024, 2048, 4096,
                       8192, 16384, 32768, 65536}
  BY ScenarioAssumption
<1>2. \A y \in Int : (y % RandSize) % 2 = y % 2
  BY <1>1
<1>3. x * 32557 + 33103 \in Int /\ (x * 32557 + 33103) % 2 = (x + 1) % 2
  OBVIOUS
<1> QED
  BY <1>2, <1>3 DEF NextRand, Multiplier, Increment

(* Where the total is even, so is the modulus up to which a pick is known. *)
LEMMA EvenModulus ==
  ASSUME Total % 2 = 0
  PROVE  Modulus \in Nat /\ Modulus > 0 /\ Modulus % 2 = 0
<1> DEFINE Common == {m \in 1 .. RandSize : RandSize % m = 0 /\ Total % m = 0}
<1>1. RandSize \in Nat /\ RandSize > 0 /\ RandSize % 2 = 0
  BY ScenarioAssumption
<1>2. Total \in Nat /\ Total > 0
  <2>1. Weight \in [1 .. 5 -> Int]
    BY ScenarioAssumption
  <2>2. SumOfWeights \in Int
    BY <2>1 DEF SumOfWeights
  <2> QED
    BY <2>2 DEF Total
<1>3. IsFiniteSet(Common) /\ Common \subseteq Nat /\ 1 \in Common
  <2>1. IsFiniteSet(1 .. RandSize)
    BY <1>1, FS_Interval
  <2>2. Common \subseteq 1 .. RandSize
    OBVIOUS
  <2>3. 1 \in Common
    BY <1>1, <1>2
  <2>4. IsFiniteSet(Common)
    BY <2>1, <2>2, FS_Subset
  <2> QED
    BY <2>3, <2>4
<1>4. Modulus \in Common /\ \A m \in Common : m <= Modulus
  BY <1>3, GreatestOf DEF Modulus
<1> DEFINE M == Modulus
<1>5. M \in Nat /\ M > 0 /\ RandSize % M = 0 /\ Total % M = 0
  BY <1>4
<1>6. ASSUME M % 2 # 0 PROVE FALSE
  <2>1. ASSUME NEW n \in Nat, n > 0, n % 2 = 0, n % M = 0
        PROVE  n % (2 * M) = 0 /\ 2 * M <= n
    BY <1>5, <1>6, <2>1, OddDivisor
  <2>2. 2 * M \in Common
    BY <1>1, <1>2, <1>5, <2>1
  <2>3. 2 * M <= M
    BY <1>4, <2>2
  <2> QED
    BY <1>5, <2>3
<1> QED
  BY <1>5, <1>6

(* A query or a position takes two draws, an order four, a price history   *)
(* three: only the last leaves the low bit of the state another.           *)
LEMMA RequestParity ==
  ASSUME NEW x \in Rng, NEW r \in NextRequest(x), r.type # kGetPriceHistory
  PROVE  r.rng % 2 = x % 2
<1> DEFINE first  == NextRand(x)
           second == NextRand(first)
           third  == NextRand(second)
           fourth == NextRand(third)
<1>1. x \in Int
  BY ScenarioAssumption DEF Rng
<1>2. first \in Int /\ first % 2 = (x + 1) % 2
  BY <1>1, RandInRange, LowBitAlternates
<1>3. second \in Int /\ second % 2 = (first + 1) % 2
  BY <1>2, RandInRange, LowBitAlternates
<1>4. third \in Int /\ third % 2 = (second + 1) % 2
  BY <1>3, RandInRange, LowBitAlternates
<1>5. fourth \in Int /\ fourth % 2 = (third + 1) % 2
  BY <1>4, RandInRange, LowBitAlternates
<1>6. PICK p \in Picks(first) :
        /\ r.type = KindOf(p)
        /\ r.rng = IF r.type \in OrderTypes THEN fourth
                   ELSE IF r.type = kGetPriceHistory THEN third ELSE second
  BY DEF NextRequest
<1>7. r.rng \in {second, fourth}
  BY <1>6
<1> HIDE DEF first, second, third, fourth
<1>8. second % 2 = x % 2
  BY <1>1, <1>2, <1>3
<1>9. fourth % 2 = second % 2
  BY <1>3, <1>4, <1>5
<1> QED
  BY <1>7, <1>8, <1>9

(* Price histories are never chosen. *)
NoHistories == SumOfWeights > 0 /\ Weight[5] <= 0

ParityKept == NoHistories => \A c \in Clients : rng[c] % 2 = Seed(c) % 2

LEMMA RngStep ==
  ASSUME [Next]_vars
  PROVE  \/ UNCHANGED rng
         \/ \E c \in Clients : \E r \in NextRequest(rng[c]) :
              rng' = [rng EXCEPT ![c] = r.rng]
<1>1. ASSUME NEW c \in Clients, SendRequest(c)
      PROVE  \/ UNCHANGED rng
             \/ \E r \in NextRequest(rng[c]) : rng' = [rng EXCEPT ![c] = r.rng]
  BY <1>1 DEF SendRequest
<1>2. ASSUME NEW c \in Clients, ClientStep(c)
      PROVE  UNCHANGED rng \/ SendRequest(c)
  BY <1>2
     DEF ClientStep, Resolved, ResolveOrConnectFails, Fail, Connect, Connected,
         ConnectedThrow, Written, SocketFails, HeaderRead, AnswerRead,
         HeaderMalformed, Recorded, client
<1>3. ASSUME NEW c \in Clients, Answers(c) PROVE UNCHANGED rng
  BY <1>3 DEF Answers, client
<1>4. CASE TimerFires \/ Report \/ HangsUp \/ UNCHANGED vars
  BY <1>4 DEF TimerFires, Report, HangsUp, vars, client
<1> QED
  BY <1>1, <1>2, <1>3, <1>4 DEF Next, Gone

LEMMA ParityStep ==
  ASSUME Typed, ParityKept, [Next]_vars
  PROVE  ParityKept'
<1> SUFFICES ASSUME NoHistories, NEW d \in Clients
             PROVE  rng'[d] % 2 = Seed(d) % 2
  BY DEF ParityKept, NoHistories, SumOfWeights, Clients, Seed, SeedFactor
<1>1. rng[d] % 2 = Seed(d) % 2
  BY DEF ParityKept
<1>2. CASE UNCHANGED rng
  BY <1>1, <1>2
<1>3. CASE \E c \in Clients : \E r \in NextRequest(rng[c]) :
             rng' = [rng EXCEPT ![c] = r.rng]
  <2>1. PICK c \in Clients : \E r \in NextRequest(rng[c]) :
               rng' = [rng EXCEPT ![c] = r.rng]
    BY <1>3
  <2>2. PICK r \in NextRequest(rng[c]) : rng' = [rng EXCEPT ![c] = r.rng]
    BY <2>1
  <2>3. rng \in [Clients -> Rng]
    BY DEF Typed
  <2>4. Chosen(r.type)
    BY <2>3, RequestIsChosen
  <2>5. r.type # kGetPriceHistory
    <3>1. PICK i \in DOMAIN Kinds : Kinds[i] = r.type /\ Weight[i] > 0
      BY <2>4 DEF Chosen, NoHistories
    <3>2. i # 5
      <4>1. Weight \in [1 .. 5 -> Int]
        BY ScenarioAssumption
      <4> QED
        BY <3>1, <4>1 DEF NoHistories
    <3> QED
      BY <3>1, <3>2 DEF Kinds, kSqlQuery, kBuyOrder, kSellOrder, kGetPosition,
                        kGetPriceHistory
  <2>6. r.rng % 2 = rng[c] % 2
    BY <2>3, <2>5, RequestParity
  <2>7. CASE d = c
    BY <1>1, <2>2, <2>3, <2>6, <2>7
  <2>8. CASE d # c
    BY <1>1, <2>2, <2>3, <2>8
  <2> QED
    BY <2>7, <2>8
<1> QED
  BY <1>2, <1>3, RngStep

(* Every pick a client makes is odd, or every one is even. *)
PicksAlike ==
  NoHistories /\ Total % 2 = 0 =>
    \A c \in Clients : \A p \in Picks(NextRand(rng[c])) :
      p % 2 = NextRand(Seed(c)) % 2

(* Why a mix is not kept (client_session.hpp:98): where price histories    *)
(* have no weight and the total of the weights is even, half of all picks  *)
(* never come up for a client, however long the test is.                   *)
THEOREM PicksAlwaysAlike == Spec => []PicksAlike
<1>1. Init => ParityKept
  BY DEF Init, ParityKept
<1>2. TestInv /\ ParityKept /\ [Next]_vars => ParityKept'
  BY ParityStep DEF TestInv
<1>3. TestInv /\ ParityKept => PicksAlike
  <2> SUFFICES ASSUME TestInv, ParityKept, NoHistories, Total % 2 = 0,
                      NEW c \in Clients, NEW p \in Picks(NextRand(rng[c]))
               PROVE  p % 2 = NextRand(Seed(c)) % 2
    BY DEF PicksAlike
  <2> DEFINE x == NextRand(rng[c])
  <2>1. rng[c] \in Int /\ x \in Int /\ x % 2 = (rng[c] + 1) % 2
    <3>1. rng[c] \in Int
      BY ScenarioAssumption DEF TestInv, Typed, Rng
    <3> QED
      BY <3>1, RandInRange, LowBitAlternates
  <2>2. Seed(c) \in Int /\ NextRand(Seed(c)) % 2 = (Seed(c) + 1) % 2
    <3>1. c \in Int
      BY LoadGenAssumption DEF Clients
    <3>2. Seed(c) \in Int
      BY <3>1, RandInRange
    <3> QED
      BY <3>2, LowBitAlternates
  <2>3. rng[c] % 2 = Seed(c) % 2
    BY DEF ParityKept
  <2>4. p \in Int /\ p % Modulus = x % Modulus
    <3>1. Total \in Int
      <4>1. Weight \in [1 .. 5 -> Int]
        BY ScenarioAssumption
      <4> QED
        BY <4>1 DEF Total, SumOfWeights
    <3> QED
      BY <3>1 DEF Picks
  <2>5. p % 2 = x % 2
    <3> HIDE DEF x
    <3>1. Modulus \in Nat /\ Modulus > 0 /\ Modulus % 2 = 0
      BY EvenModulus
    <3> QED
      BY <2>1, <2>4, <3>1, SameParity
  <2> HIDE DEF x
  <2> QED
    BY <2>1, <2>2, <2>3, <2>5
<1> QED
  BY <1>1, <1>2, <1>3, TestInvariance, PTL DEF Spec

=============================================================================
