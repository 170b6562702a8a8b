---------------------------- MODULE RapiProtocol ----------------------------
(***************************************************************************)
(* The serial protocol between the client (a WiFi gateway) and the station: *)
(* frames on a noisy line, their checksum and sequence id, one answer per   *)
(* frame, and the $AT notifications that keep the client's view current.    *)
(*                                                                          *)
(* The line carries symbols: the characters that delimit ($, ^, CR), and one*)
(* symbol each for the text of a command, its sequence id and its checksum. *)
(* Noise loses a symbol or turns it into another.  The checksum is taken to *)
(* be ideal: errors that cancel each other are left out.  No frame has as   *)
(* many arguments as tokens[] holds.                                        *)
(***************************************************************************)
EXTENDS Integers, Sequences, SequencesExt

CONSTANTS
    Texts,          \* the commands the client sends
    Forms,          \* its frames: <<with sequence id, with checksum>>
    Noise,          \* what a damaged symbol becomes: "lost", "bad", "soc", "eoc", "mark"
    BufLen,         \* ESRAPI_BUFLEN, in symbols
    MaxFrames,      \* bound: frames the client sends
    MaxDamages      \* bound: symbols the line damages

ASSUME RapiAssumption ==
    /\ Texts \subseteq {"FD", "FE", "FS", "GS"} /\ Forms \subseteq BOOLEAN \X BOOLEAN
    /\ Noise \subseteq {"lost", "bad", "soc", "eoc", "mark"}
    /\ {BufLen, MaxFrames, MaxDamages} \subseteq Nat /\ BufLen >= 6

VARIABLES
    buffer,         \* buffer[] up to bufCnt; <<>> while buffer[0] # SOC
    seqId,          \* curReceivedSeqId; 0 is INVALID_SEQUENCE_ID
    told,           \* evseStateSent and vFlagsSent: what the last $AT said
    \* the station
    state, conn, relay,
    \* environment
    ev,             \* the level the vehicle puts on the pilot
    wire,           \* the symbols on the line
    frames,         \* the frames the client sent; the sequence id is the index
    damages,
    \* history
    answers         \* the $OK with a sequence id, whether a checksum was verified

station == <<state, conn, relay, ev>>
line == <<wire, frames, damages>>
vars == <<buffer, seqId, told, state, conn, relay, ev, wire, frames, damages, answers>>

Symbol(kind, text, n) == [kind |-> kind, text |-> text, n |-> n]

Content(f, n) ==
    <<Symbol("text", f.text, n)>> \o (IF f.id THEN <<Symbol("id", "", n)>> ELSE <<>>)

FrameOf(f, n) ==
    <<Symbol("soc", "", n)>> \o Content(f, n)
      \o (IF f.sum THEN <<Symbol("mark", "", n), Symbol("sum", "", n)>> ELSE <<>>)
      \o <<Symbol("eoc", "", n)>>

\* Whose frame a symbol belongs to shows only in its sequence id.
SameSymbol(s, t) == s.kind = t.kind /\ s.text = t.text /\ (s.kind = "id" => s.n = t.n)
SameContent(s, t) == Len(s) = Len(t) /\ \A i \in DOMAIN s : SameSymbol(s[i], t[i])

Init ==
    /\ buffer = <<>> /\ seqId = 0 /\ told = [state |-> "UNKNOWN", conn |-> FALSE]
    /\ state = "UNKNOWN" /\ conn = FALSE /\ relay = FALSE /\ ev = "none"
    /\ wire = <<>> /\ frames = <<>> /\ damages = 0 /\ answers = <<>>

-----------------------------------------------------------------------------
(* $AT.                                                                     *)

\* A state the pilot does not confirm yet is not worth a message.
Consistent(s, c) ==
    /\ s # "UNKNOWN" /\ (s = "A" => ~c) /\ (s \in {"B", "C"} => c)

\* RapiSendEvseState() in the state a handler leaves behind.
RapiSendEvseState ==
    told' = IF Consistent(state', conn') THEN [state |-> state', conn |-> conn'] ELSE told

NotTold == UNCHANGED told

-----------------------------------------------------------------------------
(* The station.                                                             *)

Resting == {"SLEEPING", "DISABLED"}

Enable == state' = IF state \in Resting THEN "UNKNOWN" ELSE state
Sleep == state' = "SLEEPING"
Disable == state' = "DISABLED"

\* What a command does to the station; the commands that read it do nothing.
Execute(text) ==
    /\ CASE text = "FD" -> Disable
         [] text = "FE" -> Enable
         [] text = "FS" -> Sleep
         [] OTHER       -> UNCHANGED state
    /\ relay' = (relay /\ text # "FD")

\* The front panel: Sleep() notifies at once, Enable() does not.
ButtonSleep == state # "SLEEPING" /\ Sleep /\ UNCHANGED <<conn, relay, ev>> /\ RapiSendEvseState
ButtonWake == state \in Resting /\ Enable /\ UNCHANGED <<conn, relay, ev>> /\ NotTold

NextStates ==
    {state, "UNKNOWN", "FAULT"} \union (IF ev = "none" THEN {"A"} ELSE {"B"})
      \union (IF ev = "charge" THEN {"C"} ELSE {})

\* In the grace period of a sleep a vehicle that leaves is not reported.
UpdateAsleep ==
    /\ state = "SLEEPING" /\ conn' = (ev # "none") /\ UNCHANGED <<state, ev>>
    /\ IF relay THEN NotTold /\ relay' \in IF ev = "charge" THEN BOOLEAN ELSE {FALSE}
       ELSE UNCHANGED relay /\ IF conn' # conn THEN RapiSendEvseState ELSE NotTold

UpdateAwake ==
    /\ state \notin Resting /\ conn' = (ev # "none")
    /\ state' \in NextStates
    /\ relay' = IF state' = state THEN relay ELSE state' = "C"
    /\ RapiSendEvseState /\ UNCHANGED ev

VehicleActs ==
    /\ ev' \in {"none", "ready", "charge"} \ {ev}
    /\ UNCHANGED <<state, conn, relay, told>>

Station ==
    /\ ButtonSleep \/ ButtonWake \/ UpdateAsleep \/ UpdateAwake \/ VehicleActs
    /\ UNCHANGED <<buffer, seqId, line, answers>>

-----------------------------------------------------------------------------
(* The line.                                                                *)

\* The client does not wait for the answer to its last frame.
ClientSends ==
    /\ wire = <<>> /\ Len(frames) < MaxFrames
    /\ \E text \in Texts, form \in Forms :
         LET f == [text |-> text, id |-> form[1], sum |-> form[2], intact |-> TRUE]
         IN  /\ frames' = Append(frames, f)
             /\ wire' = FrameOf(f, Len(frames) + 1)
    /\ UNCHANGED <<buffer, seqId, told, station, damages, answers>>

LineDamages ==
    /\ wire # <<>> /\ damages < MaxDamages /\ damages' = damages + 1
    /\ frames' = [frames EXCEPT ![Head(wire).n].intact = FALSE]
    /\ \E k \in Noise :
         /\ k # Head(wire).kind
         /\ wire' = IF k = "lost" THEN Tail(wire)
                    ELSE [wire EXCEPT ![1] = Symbol(k, "", @.n)]
    /\ UNCHANGED <<buffer, seqId, told, station, answers>>

-----------------------------------------------------------------------------
(* The receiver.                                                            *)

reset == buffer' = <<>>

\* Faulty variant: the buffer is kept.
ResetKept == UNCHANGED buffer
Reset == reset

\* tokenize(): the text before the mark, if there is one, and its checksum.
IsMark(text, m) == text[m].kind = "mark" /\ \A i \in 1 .. m - 1 : text[i].kind # "mark"
Marked(text) == \E m \in DOMAIN text : IsMark(text, m)
Mark(text) == CHOOSE m \in DOMAIN text : IsMark(text, m)
Args(text) == IF Marked(text) THEN SubSeq(text, 1, Mark(text) - 1) ELSE text

Verified(text) ==
    LET m == Mark(text)
    IN  /\ Marked(text) /\ m < Len(text) /\ text[m + 1].kind = "sum"
        /\ SameContent(Args(text), Content(frames[text[m + 1].n], text[m + 1].n))

\* Without a mark nothing is compared.
Tokenized(text) == ~Marked(text) \/ Verified(text)

\* The sequence id is the last token, unless it is the only one.
IdPlaces(args) == {i \in 2 .. Len(args) : args[i].kind = "id"}
LastId(args) == {i \in IdPlaces(args) : \A j \in IdPlaces(args) : j <= i}
SequenceIds(args) ==
    IF args = <<>> THEN 0 .. Len(frames)    \* the rest of buffer[] is read
    ELSE IF IdPlaces(args) = {} THEN {0} ELSE {args[i].n : i \in LastId(args)}

\* A damaged text can be any command, or none.
TextsOf(args) ==
    IF args # <<>> /\ args[1].kind = "text" THEN {args[1].text}
    ELSE IF args # <<>> /\ args[1].kind = "bad" THEN Texts \union {"none"} ELSE {"none"}

\* Faulty variant: the notification after a command is forgotten.
NotifyNever == NotTold

Notify == RapiSendEvseState

\* processCmd(): it executes, answers, forgets the frame and notifies.
ProcessCmd(text) ==
    \E t \in TextsOf(Args(text)), q \in SequenceIds(Args(text)) :
        /\ seqId' = q
        /\ Execute(t)
        /\ answers' = IF q # 0 /\ t # "none"
                      THEN Append(answers, [id |-> q, text |-> t, verified |-> Verified(text)])
                      ELSE answers
        /\ Reset /\ Notify

\* $NK without an id.
Reject ==
    /\ reset /\ seqId' = 0
    /\ UNCHANGED <<told, state, relay, answers>>

Arrives(kinds) ==
    /\ wire # <<>> /\ Head(wire).kind \in kinds /\ wire' = Tail(wire)
    /\ UNCHANGED <<conn, ev, frames, damages>>

Quiet == UNCHANGED <<seqId, told, state, relay, answers>>

Others == {"text", "id", "mark", "sum", "bad", "eoc"}
Collecting == buffer # <<>>
Full == Len(buffer) >= BufLen

\* Faulty variant: a $ within a frame is a character like others.
StartsFrameOnce == ~Collecting

StartsFrame == TRUE

ReceiveSoc ==
    /\ Arrives({"soc"}) /\ Quiet
    /\ buffer' = IF StartsFrame THEN <<Head(wire)>> ELSE Append(buffer, Head(wire))

ReceiveIgnored == Arrives(Others) /\ ~Collecting /\ UNCHANGED buffer /\ Quiet

ReceiveStored ==
    /\ Arrives(Others \ {"eoc"}) /\ Collecting /\ ~Full
    /\ buffer' = Append(buffer, Head(wire)) /\ Quiet

ReceiveOverflow == Arrives(Others) /\ Collecting /\ Full /\ reset /\ Quiet

ReceiveEoc ==
    /\ Arrives({"eoc"}) /\ Collecting /\ ~Full
    /\ IF Tokenized(Tail(buffer)) THEN ProcessCmd(Tail(buffer)) ELSE Reject

\* doCmd(), one character at a time.
Receive == ReceiveSoc \/ ReceiveIgnored \/ ReceiveStored \/ ReceiveOverflow \/ ReceiveEoc

Next == Station \/ ClientSends \/ LineDamages \/ Receive

Spec == Init /\ [][Next]_vars

-----------------------------------------------------------------------------
\* A client that sends a sequence id and a checksum can rely on $OK: the station did
\* what the frame of that id asked for, once, and in the order of the frames, whatever
\* the line did to them.
AnswersMatch ==
    \A i \in DOMAIN answers : answers[i].verified =>
        /\ frames[answers[i].id].text = answers[i].text
        /\ \A j \in 1 .. i - 1 : answers[j].verified => answers[j].id < answers[i].id

\* However the frames before it were mutilated, a frame that arrives intact is executed
\* and answered with its own id.
HeardAfterNoise ==
    [][\A n \in DOMAIN frames :
         wire # <<>> /\ wire' = Tail(wire) /\ damages' = damages
           /\ Head(wire).kind = "eoc" /\ Head(wire).n = n /\ frames[n].intact /\ frames[n].id
         => /\ answers' # answers /\ Last(answers').id = n
            /\ Last(answers').text = frames[n].text]_vars

\* The client knows the state of the station as soon as the pilot confirms it, whoever
\* changed it: a command, the front panel, or a pass of Update().
ClientKnowsState == Consistent(state, conn) => told.state = state

\* ... and whether a vehicle is connected.
ClientKnowsVehicle == Consistent(state, conn) /\ state # "DISABLED" => told.conn = conn
=============================================================================
