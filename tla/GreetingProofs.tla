----------------------------- MODULE GreetingProofs -----------------------------
(***************************************************************************)
(* The parser inverts the format for every greeting of 16-bit dimensions.  *)
(***************************************************************************)
EXTENDS Greeting, SequenceTheorems, TLAPS

\* A 16-bit value is its two bytes.
LEMMA TwoBytes ==
  ASSUME NEW w \in Uint16
  PROVE  /\ w \div 256 \in Byte /\ w % 256 \in Byte
         /\ 256 * (w \div 256) + (w % 256) = w
<1>1. w \in Int /\ 0 <= w /\ w <= 65535
  BY DEF Uint16
<1>2. 256 * (w \div 256) + (w % 256) = w
  BY <1>1
<1>3. w \div 256 \in 0 .. 255 /\ w % 256 \in 0 .. 255
  BY <1>1
<1>4. QED BY <1>2, <1>3 DEF Byte

\* What follows the first six bytes does not change them.
LEMMA Prefix ==
  ASSUME NEW S, NEW m \in Seq(S), NEW rest \in Seq(S), Len(m) = 6
  PROVE  Len(m \o rest) >= 6 /\ \A i \in 1 .. 6 : (m \o rest)[i] = m[i]
<1> DEFINE b == m \o rest
<1>1. /\ Len(b) = Len(m) + Len(rest)
      /\ \A i \in 1 .. Len(m) + Len(rest) :
            b[i] = IF i <= Len(m) THEN m[i] ELSE rest[i - Len(m)]
  BY ConcatProperties, Zenon
<1>2. Len(rest) \in Nat
  OBVIOUS
<1> HIDE DEF b
<1>3. Len(b) >= 6 /\ \A i \in 1 .. 6 : b[i] = m[i]
  BY <1>1, <1>2
<1> USE DEF b
<1>4. QED BY <1>3

\* The parser sees of a message that begins with the greeting of p what p
\* says, and rejects it exactly when the configuration does not allow p.
THEOREM ParseInvertsFormat ==
  ASSUME NEW g \in MediaConfig, NEW p \in MediaProps, NEW rest \in Seq(Byte)
  PROVE  ParseClientGreeting(g, MakeClientGreeting(p) \o rest)
            = IF Allowed(g, p) THEN p ELSE ParseGreetingError
<1> DEFINE m == MakeClientGreeting(p)
           b == m \o rest
<1>1. /\ m \in Seq(Byte) /\ Len(m) = 6
      /\ m[1] = p.type /\ m[6] = p.fps
      /\ m[2] = p.width \div 256 /\ m[3] = p.width % 256
      /\ m[4] = p.height \div 256 /\ m[5] = p.height % 256
  BY TwoBytes DEF MakeClientGreeting, MediaProps
<1> HIDE DEF m
<1>2. Len(b) >= 6 /\ \A i \in 1 .. 6 : b[i] = m[i]
  BY <1>1, Prefix
<1> HIDE DEF b
<1>3. get_byte_2(b, 2) = p.width /\ get_byte_2(b, 4) = p.height
  <2>1. p.width \in Uint16 /\ p.height \in Uint16
    BY DEF MediaProps
  <2>2. b[2] = p.width \div 256 /\ b[3] = p.width % 256
    BY <1>1, <1>2
  <2>3. b[4] = p.height \div 256 /\ b[5] = p.height % 256
    BY <1>1, <1>2
  <2>4. get_byte_2(b, 2) = 256 * b[2] + b[3] /\ get_byte_2(b, 4) = 256 * b[4] + b[5]
    BY DEF get_byte_2
  <2>5. QED BY <2>1, <2>2, <2>3, <2>4, TwoBytes
<1>4. [type |-> b[1], width |-> get_byte_2(b, 2), height |-> get_byte_2(b, 4), fps |-> b[6]] = p
  BY <1>1, <1>2, <1>3 DEF MediaProps
<1>5. Allowed(g, p) <=>
        ~ \/ b[1] >= count_
          \/ g.dimensions # {} /\ <<get_byte_2(b, 2), get_byte_2(b, 4)>> \notin g.dimensions
          \/ b[1] = video /\ (b[6] = 0 \/ b[6] > g.maxFps)
  <2>1. b[1] = p.type /\ b[6] = p.fps /\ p.type \in Nat /\ p.fps \in Nat /\ g.maxFps \in Nat
    <3>1. p.type \in Byte /\ p.fps \in Byte
      BY DEF MediaProps
    <3>2. g.maxFps \in Byte
      BY DEF MediaConfig
    <3>3. b[1] = p.type /\ b[6] = p.fps
      BY <1>1, <1>2
    <3>4. \A x \in Byte : x \in Nat
      BY DEF Byte
    <3>5. QED BY <3>1, <3>2, <3>3, <3>4
  <2>2. p.type \in {image, video} <=> ~ b[1] >= count_
    BY <2>1 DEF image, video, count_
  <2>3. (p.type = video => p.fps \in 1 .. g.maxFps)
          <=> ~ (b[1] = video /\ (b[6] = 0 \/ b[6] > g.maxFps))
    BY <2>1
  <2>4. (g.dimensions = {} \/ <<p.width, p.height>> \in g.dimensions)
          <=> ~ (/\ g.dimensions # {}
                 /\ <<get_byte_2(b, 2), get_byte_2(b, 4)>> \notin g.dimensions)
    BY <1>3
  <2>5. QED BY <2>2, <2>3, <2>4 DEF Allowed
<1>6. ParseClientGreeting(g, b) = IF Allowed(g, p) THEN p ELSE ParseGreetingError
  BY <1>2, <1>4, <1>5 DEF ParseClientGreeting
<1> USE DEF b, m
<1>7. QED BY <1>6

-------------------------------------------------------------------------------
\* What arrived is the client's greeting, whole or short, and the result is
\* what the parser makes of it.
GInv ==
    /\ config \in MediaConfig
    /\ prop \in MediaProps
    /\ \/ sent = <<>>
       \/ \E rest \in Seq(Byte) : sent = MakeClientGreeting(prop) \o rest
       \/ sent = SubSeq(MakeClientGreeting(prop), 1, 5)
    /\ result = NotParsed \/ (sent # <<>> /\ result = ParseClientGreeting(config, sent))

\* A whole greeting is never too short, whatever follows it.
LEMMA GreetingLength ==
  ASSUME NEW p \in MediaProps, NEW rest \in Seq(Byte)
  PROVE  Len(MakeClientGreeting(p) \o rest) >= 6
<1>1. MakeClientGreeting(p) \in Seq(Byte) /\ Len(MakeClientGreeting(p)) = 6
  BY TwoBytes DEF MakeClientGreeting, MediaProps
<1>2. QED BY <1>1, Prefix

\* The greeting without its last byte is.
LEMMA ShortLength ==
  ASSUME NEW p \in MediaProps
  PROVE  Len(SubSeq(MakeClientGreeting(p), 1, 5)) = 5
<1>1. MakeClientGreeting(p) \in Seq(Byte) /\ Len(MakeClientGreeting(p)) = 6
  BY TwoBytes DEF MakeClientGreeting, MediaProps
<1>2. QED BY <1>1

\* Every result of the model is the one the documentation asks for.
THEOREM EveryGreetingParsedAsMeant == GreetingSpec => []ParsedAsMeant
<1>1. GreetingInit => GInv
  BY GreetingAssumption DEF GreetingInit, GInv, MediaProps
<1>2. GInv /\ [GreetingNext]_greetingVars => GInv'
  <2> SUFFICES ASSUME GInv, [GreetingNext]_greetingVars PROVE GInv'
    OBVIOUS
  <2>1. CASE SendGreeting
    <3>1. result = NotParsed
      BY <2>1 DEF GInv, SendGreeting
    <3>2. \E rest \in Seq(Byte) : sent' = MakeClientGreeting(prop) \o rest
      <4>1. <<>> \in Seq(Byte) /\ <<255>> \in Seq(Byte)
        BY DEF Byte
      <4>2. QED BY <2>1, <4>1 DEF SendGreeting
    <3>3. QED BY <2>1, <3>1, <3>2 DEF GInv, SendGreeting
  <2>2. CASE SendTooFew
    BY <2>2 DEF GInv, SendTooFew
  <2>3. CASE ParseGreeting
    BY <2>3 DEF GInv, ParseGreeting
  <2>4. CASE UNCHANGED greetingVars
    BY <2>4 DEF GInv, greetingVars
  <2>5. QED BY <2>1, <2>2, <2>3, <2>4 DEF GreetingNext
<1>3. GInv => ParsedAsMeant
  <2> SUFFICES ASSUME GInv, result # NotParsed PROVE
          result = IF Allowed(config, prop) /\ Len(sent) >= 6 THEN prop ELSE ParseGreetingError
    BY DEF ParsedAsMeant
  <2>1. config \in MediaConfig /\ prop \in MediaProps
        /\ sent # <<>> /\ result = ParseClientGreeting(config, sent)
    BY DEF GInv
  <2>2. ASSUME NEW rest \in Seq(Byte), sent = MakeClientGreeting(prop) \o rest
        PROVE  result = IF Allowed(config, prop) /\ Len(sent) >= 6 THEN prop ELSE ParseGreetingError
    <3>1. Len(sent) >= 6
      BY <2>1, <2>2, GreetingLength
    <3>2. ParseClientGreeting(config, sent) = IF Allowed(config, prop) THEN prop ELSE ParseGreetingError
      BY <2>1, <2>2, ParseInvertsFormat
    <3>3. QED BY <2>1, <3>1, <3>2
  <2>3. CASE sent = SubSeq(MakeClientGreeting(prop), 1, 5)
    <3>1. Len(sent) = 5
      BY <2>1, <2>3, ShortLength
    <3>2. QED BY <2>1, <3>1 DEF ParseClientGreeting
  <2>4. QED BY <2>1, <2>2, <2>3 DEF GInv
<1>4. QED BY <1>1, <1>2, <1>3, PTL DEF GreetingSpec
===============================================================================
