-------------------------------- MODULE Greeting --------------------------------
(***************************************************************************)
(* The client greeting (src/src/net/communication.cpp): six bytes          *)
(*     <media type: 1> <width: 2> <height: 2> <fps: 1>                     *)
(* that ParseClientGreeting turns into a media::MediaProp or rejects by    *)
(* the server's media::MediaConfig.  A behaviour is one greeting: a client *)
(* puts its properties into bytes, as the tests do (src/test/net/          *)
(* communicationTests.cpp:17), and the server parses what arrives.         *)
(***************************************************************************)
EXTENDS Integers, Sequences

CONSTANTS
    Widths, Heights, Rates,   \* what clients ask for, as bytes or pairs of bytes
    TypeBytes,                \* the values of the media type byte
    Configs                   \* the server configurations

Byte   == 0 .. 255
Uint16 == 0 .. 65535

\* enum class MediaType, by value; count_ is 2.
image  == 0
video  == 1
count_ == 2

MediaProps  == [type : Byte, width : Uint16, height : Uint16, fps : Byte]
Dimensions  == SUBSET (Uint16 \X Uint16)
MediaConfig == [dimensions : Dimensions, maxFps : Byte]

ASSUME GreetingAssumption ==
    /\ Widths \subseteq Uint16 /\ Heights \subseteq Uint16
    /\ Rates \subseteq Byte /\ TypeBytes \subseteq Byte
    /\ Configs \subseteq MediaConfig

\* What ParseGreetingError stands for, and no result yet.
ParseGreetingError == [error |-> "ParseGreetingError"]
NotParsed          == [error |-> "none"]

-------------------------------------------------------------------------------
\* The client (MakeClientGreeting of the tests): high byte first.
MakeClientGreeting(prop) ==
    << prop.type, prop.width \div 256, prop.width % 256,
       prop.height \div 256, prop.height % 256, prop.fps >>

get_byte_2LowFirst(bytes, i) == 256 * bytes[i + 1] + bytes[i]   \* slip: the other order

(***************************************************************************)
(* get_byte_2 at offset i.  The order in which the operands of | fetch     *)
(* their byte is unspecified in C++; compilers fetch the left one first.   *)
(***************************************************************************)
get_byte_2(bytes, i) == 256 * bytes[i] + bytes[i + 1]

ParseClientGreeting(config, bytes) ==
    IF Len(bytes) < 6 THEN ParseGreetingError
    ELSE LET type   == bytes[1]
             width  == get_byte_2(bytes, 2)
             height == get_byte_2(bytes, 4)
             fps    == bytes[6]
         IN  IF \/ type >= count_
                \/ config.dimensions # {} /\ <<width, height>> \notin config.dimensions
                \/ type = video /\ (fps = 0 \/ fps > config.maxFps)
             THEN ParseGreetingError
             ELSE [type |-> type, width |-> width, height |-> height, fps |-> fps]

-------------------------------------------------------------------------------
VARIABLES
    config,     \* the server's configuration
    prop,       \* what the client streams
    sent,       \* the bytes that arrive in the one read
    result      \* what the parser makes of them

greetingVars == <<config, prop, sent, result>>

GreetingInit ==
    /\ config \in Configs
    /\ prop \in [type : TypeBytes, width : Widths, height : Heights, fps : Rates]
    /\ sent = <<>>
    /\ result = NotParsed

\* The parser is given the greeting alone or, as a test does, more.
SendGreeting ==
    /\ sent = <<>>
    /\ \E stream \in {<<>>, <<255>>} : sent' = MakeClientGreeting(prop) \o stream
    /\ UNCHANGED <<config, prop, result>>

\* Or one byte too few.
SendTooFew ==
    /\ sent = <<>>
    /\ sent' = SubSeq(MakeClientGreeting(prop), 1, 5)
    /\ UNCHANGED <<config, prop, result>>

ParseGreeting ==
    /\ sent # <<>> /\ result = NotParsed
    /\ result' = ParseClientGreeting(config, sent)
    /\ UNCHANGED <<config, prop, sent>>

GreetingNext == SendGreeting \/ SendTooFew \/ ParseGreeting

GreetingSpec == GreetingInit /\ [][GreetingNext]_greetingVars

-------------------------------------------------------------------------------
\* What the configuration allows, by the documentation of MediaConfig:
\* "Media dimensions which are allowed. Leave empty to allow all dimensions",
\* "Maximum fps for videos"; the tests add that a video has some.
Allowed(g, p) ==
    /\ p.type \in {image, video}
    /\ g.dimensions = {} \/ <<p.width, p.height>> \in g.dimensions
    /\ p.type = video => p.fps \in 1 .. g.maxFps

\* The server sees the properties the client meant, exactly when they are
\* allowed and complete; what follows the greeting does not matter.
ParsedAsMeant ==
    result # NotParsed =>
        result = IF Allowed(config, prop) /\ Len(sent) >= 6 THEN prop ELSE ParseGreetingError
===============================================================================
