--------------------------- MODULE GatewayProofs ---------------------------
(***************************************************************************)
(* The invariants of Gateway, for every terminal size, menu length and     *)
(* number of bytes on the wire.                                            *)
(***************************************************************************)
EXTENDS Gateway, SequenceTheorems, TLAPS

\* Nothing has been written yet: the checks before the answer, and a direct connection
\* until its target has been dialled.
Unanswered ==
    \/ proxy \in {"limit", "disk", "read", "auth"}
    \/ proxy \in {"authorize", "dial"} /\ ~handoff

\* The inductive part: the CLI is answered exactly when the handler is past its checks;
\* the menu is only reached after an answer; a deadline belongs to one of two reads; the
\* guard's flag is right since it last looked.
Phases ==
    /\ (wire = <<>>) <=> Unanswered
    /\ handoff => proxy \notin {"limit", "disk", "read", "auth"}
    /\ proxy = "menu" => handoff
    /\ deadline => proxy \in {"read", "drain", "closed"}
    /\ full /\ ticked => reject

IInv == TypeOK /\ OneStatusByte /\ CursorInRange /\ Phases

-----------------------------------------------------------------------------
(* What is written and what is read.                                       *)

\* The wire is well formed and no longer empty.
Answered == wire \in Written /\ wire # <<>> /\ OneStatusByte

\* Text never comes first, and never looks like a status byte.
LEMMA WriteText ==
    ASSUME Answered, Write("text")
    PROVE  Answered'
BY DEF Answered, OneStatusByte, Write, Written

\* A status byte on an unused connection is the first thing on it.
LEMMA WriteStatus ==
    ASSUME wire = <<>>, NEW x \in {"ready", "deny"}, Write(x)
    PROVE  Answered'
BY DEF Answered, OneStatusByte, Write, Written

\* A wire nobody writes to stays as it is.
LEMMA NotWritten ==
    ASSUME OneStatusByte, wire \in Written, UNCHANGED wire
    PROVE  OneStatusByte' /\ wire' \in Written
BY DEF OneStatusByte

\* A denial keeps to the protocol wherever it is made, if the caller says truly whether
\* the CLI has been answered.
LEMMA Denial ==
    ASSUME NEW i \in BOOLEAN, IF i THEN Answered ELSE wire = <<>>, deny(i)
    PROVE  Answered' /\ proxy' = IF i THEN "anyKey" ELSE "closed"
BY WriteText, WriteStatus DEF deny

\* So does an acknowledgement.
LEMMA Acknowledgement ==
    ASSUME NEW i \in BOOLEAN, IF i THEN Answered ELSE wire = <<>>, ackReady(i)
    PROVE  Answered'
BY WriteText, WriteStatus DEF ackReady

\* What is left of the bytes is still bytes.
LEMMA SuffixIsBytes ==
    ASSUME NEW q \in Traffic, NEW n \in 0..Len(q)
    PROVE  SubSeq(q, n + 1, Len(q)) \in Traffic
<1> DEFINE B == 0..255
<1>1. q \in Seq(B) /\ Len(q) \in Nat /\ n \in Nat
  BY DEF Traffic
<1> HIDE DEF B
<1>2. \A i \in (n + 1)..Len(q) : q[i] \in B
  BY <1>1
<1>3. SubSeq(q, n + 1, Len(q)) \in Seq(B)
  BY <1>1, <1>2, SubSeqProperties
<1> QED
  BY <1>3 DEF Traffic, B

\* readKey takes at least one byte and no more than there are.
LEMMA ReadKeyLeavesBytes ==
    ASSUME inbox \in Traffic, NEW key, readKey(key)
    PROVE  inbox' \in Traffic
<1>1. PICK n \in More : inbox' = SubSeq(inbox, n + 2, Len(inbox))
  BY DEF readKey
<1>2. Len(inbox) \in Nat \ {0}
  BY DEF Traffic, readKey
<1>3. n + 1 \in 0..Len(inbox) /\ n + 2 = (n + 1) + 1
  BY <1>2 DEF More
<1> QED
  BY <1>1, <1>3, SuffixIsBytes

-----------------------------------------------------------------------------
\* A new connection is in order.
LEMMA InitInductive == Init => IInv
<1> SUFFICES ASSUME Init PROVE IInv
  OBVIOUS
<1>1. wire \in Written /\ inbox \in Traffic
  BY DEF Init, Written, Traffic
<1>2. TypeOK
  <2>1. servers \in 0..MaxServers /\ index \in Nat
    BY BoundsAssumption DEF Init
  <2> QED
    BY <1>1, <2>1 DEF Init, TypeOK, Places
<1>3. OneStatusByte
  BY DEF Init, OneStatusByte
<1>4. CursorInRange /\ Phases
  BY DEF Init, CursorInRange, Phases, Unanswered
<1> QED
  BY <1>2, <1>3, <1>4 DEF IInv

\* A step of the handler that leaves the menu, the guard and the client alone, or leaves
\* the menu for good, has only the wire, the bytes and its place to account for.
LEMMA Moved ==
    ASSUME IInv, UNCHANGED <<target, admin, handoff, servers, index, client, full, reject, ticked>>,
           silent' \in BOOLEAN, deadline' \in BOOLEAN, inbox' \in Traffic,
           proxy' \in Places \ {"menu"},
           wire' \in Written, OneStatusByte', Phases'
    PROVE  IInv'
BY DEF IInv, TypeOK, CursorInRange

\* The handler's steps that take nothing from the connection but the request.
LEMMA ServeStep ==
    ASSUME IInv,
           RateLimit \/ ReadRequestFails \/ ReadRequest \/ Authenticate \/ Authorize \/ Dial
             \/ OpenAudit \/ SessionFailed \/ MenuReadFails \/ SessionEnds \/ Drain
    PROVE  IInv'
<1>1. /\ wire \in Written /\ OneStatusByte /\ inbox \in Traffic /\ proxy \in Places
      /\ handoff \in BOOLEAN /\ silent \in BOOLEAN /\ deadline \in BOOLEAN
      /\ wire # <<>> => Answered
  BY DEF IInv, TypeOK, Answered
<1>2. Phases
  BY DEF IInv
<1>3. CASE RateLimit
  <2>1. wire' \in Written /\ OneStatusByte'
    BY <1>1, <1>2, <1>3, Denial, NotWritten DEF RateLimit, Answered, Phases, Unanswered
  <2>2. Phases' /\ proxy' \in Places \ {"menu"}
    BY <1>1, <1>2, <1>3, Denial, NotWritten DEF RateLimit, Answered, Phases, Unanswered, Places, conn, disk
  <2> QED
    BY <1>1, <1>3, <2>1, <2>2, Moved DEF RateLimit, conn, menu, disk
<1>4. CASE ReadRequestFails
  <2>1. wire' \in Written /\ OneStatusByte'
    BY <1>1, <1>2, <1>4, Denial DEF ReadRequestFails, Answered, Phases, Unanswered
  <2>2. Phases' /\ proxy' \in Places \ {"menu"}
    BY <1>1, <1>2, <1>4, Denial DEF ReadRequestFails, Answered, Phases, Unanswered, Places, conn, disk
  <2> QED
    BY <1>1, <1>4, <2>1, <2>2, Moved DEF ReadRequestFails, conn, menu, disk
<1>5. CASE ReadRequest
  <2>1. wire' \in Written /\ OneStatusByte'
    BY <1>1, <1>2, <1>5, NotWritten DEF ReadRequest, Answered, Phases, Unanswered
  <2>2. Phases' /\ proxy' \in Places \ {"menu"}
    BY <1>1, <1>2, <1>5, NotWritten DEF ReadRequest, Answered, Phases, Unanswered, Places, conn, disk
  <2> QED
    BY <1>1, <1>5, <2>1, <2>2, Moved DEF ReadRequest, conn, menu, disk
<1>6. CASE Authenticate
  <2>1. wire' \in Written /\ OneStatusByte'
    BY <1>1, <1>2, <1>6, Denial, Acknowledgement, NotWritten DEF Authenticate, Answered, Phases, Unanswered
  <2>2. Phases' /\ proxy' \in Places \ {"menu"}
    BY <1>1, <1>2, <1>6, Denial, Acknowledgement, NotWritten DEF Authenticate, Answered, Phases, Unanswered, Places, conn, disk
  <2> QED
    BY <1>1, <1>6, <2>1, <2>2, Moved DEF Authenticate, conn, menu, disk
<1>7. CASE Authorize
  <2>1. wire' \in Written /\ OneStatusByte'
    BY <1>1, <1>2, <1>7, Denial, NotWritten DEF Authorize, Answered, Phases, Unanswered
  <2>2. Phases' /\ proxy' \in Places \ {"menu"}
    BY <1>1, <1>2, <1>7, Denial, NotWritten DEF Authorize, Answered, Phases, Unanswered, Places, conn, disk
  <2> QED
    BY <1>1, <1>7, <2>1, <2>2, Moved DEF Authorize, conn, menu, disk
<1>8. CASE Dial
  <2>1. wire' \in Written /\ OneStatusByte'
    BY <1>1, <1>2, <1>8, Denial, Acknowledgement DEF Dial, Answered, Phases, Unanswered
  <2>2. Phases' /\ proxy' \in Places \ {"menu"}
    BY <1>1, <1>2, <1>8, Denial, Acknowledgement DEF Dial, Answered, Phases, Unanswered, Places, conn, disk
  <2> QED
    BY <1>1, <1>8, <2>1, <2>2, Moved DEF Dial, conn, menu, disk
<1>9. CASE OpenAudit
  <2>1. wire' \in Written /\ OneStatusByte'
    BY <1>1, <1>2, <1>9, NotWritten DEF OpenAudit, Answered, Phases, Unanswered
  <2>2. Phases' /\ proxy' \in Places \ {"menu"}
    BY <1>1, <1>2, <1>9, NotWritten DEF OpenAudit, Answered, Phases, Unanswered, Places, conn, disk
  <2> QED
    BY <1>1, <1>9, <2>1, <2>2, Moved DEF OpenAudit, conn, menu, disk
<1>10. CASE SessionFailed
  <2>1. wire' \in Written /\ OneStatusByte'
    BY <1>1, <1>2, <1>10, WriteText, NotWritten DEF SessionFailed, Answered, Phases, Unanswered
  <2>2. Phases' /\ proxy' \in Places \ {"menu"}
    BY <1>1, <1>2, <1>10, WriteText, NotWritten DEF SessionFailed, Answered, Phases, Unanswered, Places, conn, disk
  <2> QED
    BY <1>1, <1>10, <2>1, <2>2, Moved DEF SessionFailed, conn, menu, disk
<1>11. CASE MenuReadFails
  <2>1. wire' \in Written /\ OneStatusByte'
    BY <1>1, <1>2, <1>11, NotWritten DEF MenuReadFails, Answered, Phases, Unanswered
  <2>2. Phases' /\ proxy' \in Places \ {"menu"}
    BY <1>1, <1>2, <1>11, NotWritten DEF MenuReadFails, Answered, Phases, Unanswered, Places, conn, disk
  <2> QED
    BY <1>1, <1>11, <2>1, <2>2, Moved DEF MenuReadFails, conn, menu, disk
<1>12. CASE SessionEnds
  <2>1. wire' \in Written /\ OneStatusByte'
    BY <1>1, <1>2, <1>12, NotWritten DEF SessionEnds, Answered, Phases, Unanswered
  <2>2. Phases' /\ proxy' \in Places \ {"menu"}
    BY <1>1, <1>2, <1>12, NotWritten DEF SessionEnds, Answered, Phases, Unanswered, Places, conn, disk
  <2> QED
    BY <1>1, <1>12, <2>1, <2>2, Moved DEF SessionEnds, conn, menu, disk
<1>13. CASE Drain
  <2>1. wire' \in Written /\ OneStatusByte'
    BY <1>1, <1>2, <1>13, NotWritten DEF Drain, Answered, Phases, Unanswered
  <2>2. Phases' /\ proxy' \in Places \ {"menu"}
    BY <1>1, <1>2, <1>13, NotWritten DEF Drain, Answered, Phases, Unanswered, Places, conn, disk
  <2> QED
    BY <1>1, <1>13, <2>1, <2>2, Moved DEF Drain, conn, menu, disk
<1> QED
  BY <1>3, <1>4, <1>5, <1>6, <1>7, <1>8, <1>9, <1>10, <1>11, <1>12, <1>13

\* The handler's steps that read keys, draw the menu or look at the guard.
LEMMA MenuStep ==
    ASSUME IInv,
           CheckDisk \/ SessionReads \/ ConsoleReturns \/ QueryServers \/ MenuMove
             \/ MenuChoose \/ MenuIgnores \/ AnyKey
    PROVE  IInv'
<1>1. /\ wire \in Written /\ OneStatusByte /\ inbox \in Traffic /\ proxy \in Places
      /\ handoff \in BOOLEAN /\ silent \in BOOLEAN /\ deadline \in BOOLEAN
      /\ wire # <<>> => Answered
  BY DEF IInv, TypeOK, Answered
<1>2. Phases
  BY DEF IInv
<1>3. CASE CheckDisk
  <2>1. wire' \in Written /\ OneStatusByte'
    BY <1>1, <1>2, <1>3, Denial, NotWritten DEF CheckDisk, Answered, Phases, Unanswered
  <2>2. Phases' /\ proxy' \in Places \ {"menu"}
    BY <1>1, <1>2, <1>3, Denial, NotWritten
    DEF CheckDisk, Answered, Phases, Unanswered, Places, conn, disk
  <2> QED
    BY <1>1, <1>3, <2>1, <2>2, Moved DEF CheckDisk, conn, menu, disk
<1>4. CASE SessionReads
  <2>1. Answered /\ inbox' \in Traffic
    <3>1. Tail(inbox) \in Traffic
      BY <1>1, <1>4, HeadTailProperties DEF SessionReads, Traffic
    <3> QED
      BY <1>1, <1>2, <1>4, <3>1 DEF SessionReads, Phases, Unanswered
  <2>2. Answered'
    BY <1>4, <2>1, WriteText DEF SessionReads
  <2>3. Phases' /\ proxy' \in Places \ {"menu"}
    BY <1>1, <1>2, <1>4, <2>2 DEF SessionReads, Answered, Phases, Unanswered, conn, disk
  <2> QED
    BY <1>1, <1>4, <2>1, <2>2, <2>3, Moved DEF SessionReads, Answered, conn, menu, disk
<1>5. CASE ConsoleReturns
  <2>1. Answered /\ inbox' \in Traffic
    BY <1>1, <1>2, <1>5, SuffixIsBytes DEF ConsoleReturns, Phases, Unanswered
  <2>2. Answered'
    BY <1>5, <2>1, WriteText DEF ConsoleReturns
  <2>3. Phases' /\ proxy' \in Places \ {"menu"}
    BY <1>1, <1>2, <1>5, <2>2 DEF ConsoleReturns, Answered, Phases, Unanswered, Places, conn, disk
  <2> QED
    BY <1>1, <1>5, <2>1, <2>2, <2>3, Moved DEF ConsoleReturns, Answered, conn, menu, disk
<1>6. CASE QueryServers
  <2>1. Answered'
    BY <1>1, <1>2, <1>6, WriteText DEF QueryServers, Phases, Unanswered
  <2>2. Phases' /\ proxy' \in Places
    BY <1>1, <1>2, <1>6, <2>1 DEF QueryServers, Answered, Phases, Unanswered, Places, disk
  <2>3. TypeOK'
    BY <1>1, <1>6, <2>1, <2>2 DEF QueryServers, IInv, TypeOK, Answered, menu, disk
  <2>4. CursorInRange'
    BY <1>6, BoundsAssumption DEF QueryServers, CursorInRange, Entries
  <2> QED
    BY <2>1, <2>2, <2>3, <2>4 DEF IInv, Answered
<1>7. CASE MenuMove
  <2>1. inbox' \in Traffic
    BY <1>1, <1>7, ReadKeyLeavesBytes DEF MenuMove
  <2>2. wire' \in Written /\ OneStatusByte'
    BY <1>1, <1>7, NotWritten DEF MenuMove
  <2>3. Entries \in Nat /\ index \in Nat
    BY BoundsAssumption DEF IInv, TypeOK, Entries
  <2>4. index' \in Nat /\ CursorInRange'
    BY <1>7, <2>3 DEF MenuMove, IInv, CursorInRange, Entries, conn
  <2>5. TypeOK'
    BY <1>1, <1>7, <2>1, <2>2, <2>4 DEF MenuMove, IInv, TypeOK, conn, disk
  <2>6. Phases'
    BY <1>2, <1>7 DEF MenuMove, Phases, Unanswered, conn, disk
  <2> QED
    BY <2>2, <2>4, <2>5, <2>6 DEF IInv
<1>8. CASE MenuChoose
  <2>1. Answered /\ inbox' \in Traffic
    BY <1>1, <1>2, <1>8, ReadKeyLeavesBytes DEF MenuChoose, Phases, Unanswered
  <2>2. Answered'
    BY <1>8, <2>1, WriteText DEF MenuChoose
  <2>3. proxy' \in {"closed", "console", "authorize"} /\ proxy = "menu"
    BY <1>8 DEF MenuChoose
  <2>4. proxy = "menu" => handoff
    BY <1>2 DEF Phases
  <2>5. Phases'
    BY <1>1, <1>2, <1>8, <2>2, <2>3, <2>4 DEF MenuChoose, Answered, Phases, Unanswered, conn, disk
  <2> QED
    BY <1>1, <1>8, <2>1, <2>2, <2>3, <2>5, Moved DEF MenuChoose, Answered, Places, conn, menu, disk
<1>9. CASE MenuIgnores
  <2>1. inbox' \in Traffic
    BY <1>1, <1>9, ReadKeyLeavesBytes DEF MenuIgnores
  <2>2. wire' \in Written /\ OneStatusByte'
    BY <1>1, <1>9, NotWritten DEF MenuIgnores
  <2>3. TypeOK'
    BY <1>1, <1>9, <2>1, <2>2 DEF MenuIgnores, IInv, TypeOK, conn, menu, disk
  <2>4. CursorInRange' /\ Phases'
    BY <1>2, <1>9 DEF MenuIgnores, IInv, CursorInRange, Entries, Phases, Unanswered, conn, menu, disk
  <2> QED
    BY <2>2, <2>3, <2>4 DEF IInv
<1>10. CASE AnyKey
  <2>1. inbox' \in Traffic
    BY <1>1, <1>10, ReadKeyLeavesBytes DEF AnyKey
  <2>2. wire' \in Written /\ OneStatusByte'
    BY <1>1, <1>10, NotWritten DEF AnyKey
  <2>3. Phases' /\ proxy' \in Places \ {"menu"}
    BY <1>1, <1>2, <1>10 DEF AnyKey, Phases, Unanswered, Places, conn, disk
  <2> QED
    BY <1>1, <1>10, <2>1, <2>2, <2>3, Moved DEF AnyKey, conn, menu, disk
<1> QED
  BY <1>3, <1>4, <1>5, <1>6, <1>7, <1>8, <1>9, <1>10

\* What is typed are bytes.
LEMMA TypeSends ==
    ASSUME Type
    PROVE  \E s \in Traffic : Send(s)
<1>1. PICK k \in {<<Esc, 91, 65>>, <<Esc, 91, 66>>, <<13>>, <<3>>, <<97>>} :
        Send(k)
  BY DEF Type
<1>2. /\ <<27, 91, 65>> \in Seq(0..255) /\ <<27, 91, 66>> \in Seq(0..255)
      /\ <<13>> \in Seq(0..255) /\ <<3>> \in Seq(0..255) /\ <<97>> \in Seq(0..255)
  OBVIOUS
<1>3. k \in Seq(0..255)
  BY <1>2, ZenonT(40) DEF Esc
<1> QED
  BY <1>1, <1>3, Zenon DEF Traffic

\* A width or a height is split into two bytes.
LEMMA Remainder == \A n \in Nat : n % 256 \in 0..255
BY SMT

(* Division with remainder by the size of a byte.                          *)
LEMMA Quotient == \A n \in Nat : n \div 256 \in Int /\ n = 256 * (n \div 256) + (n % 256)
BY SMT

(* Both halves of a terminal's dimension are bytes.                        *)
LEMMA Split == \A n \in Dim : Hi(n) \in 0..255 /\ Lo(n) \in 0..255
<1> SUFFICES ASSUME NEW n \in Dim PROVE Hi(n) \in 0..255 /\ Lo(n) \in 0..255
  OBVIOUS
<1>1. n \in Nat /\ n < 65536
  BY DEF Dim
<1>2. Hi(n) \in Int /\ n = 256 * Hi(n) + Lo(n)
  BY <1>1, Quotient, SMT DEF Hi, Lo
<1>3. Lo(n) \in 0..255
  BY <1>1, Remainder, SMT DEF Lo
<1> QED
  BY <1>1, <1>2, <1>3, SMTT(30)

\* A resize message consists of bytes.
LEMMA ResizeSends ==
    ASSUME SendWindowChange
    PROVE  \E s \in Traffic : Send(s)
<1>1. PICK size \in Sizes :
        Send(<<2, Hi(size.w), Lo(size.w), Hi(size.h), Lo(size.h)>>)
  BY DEF SendWindowChange
<1>2. size.w \in Dim /\ size.h \in Dim
  BY SizesAssumption
<1>3. \A a, b, c, d \in 0..255 : <<2, a, b, c, d>> \in Seq(0..255)
  OBVIOUS
<1>4. <<2, Hi(size.w), Lo(size.w), Hi(size.h), Lo(size.h)>> \in Seq(0..255)
  BY <1>2, <1>3, Split, ZenonT(40)
<1> QED
  BY <1>1, <1>4, Zenon DEF Traffic

\* The CLI's steps, the guard's and the partition's.
LEMMA OtherStep ==
    ASSUME IInv, Cli \/ Type \/ SendWindowChange \/ Quit \/ Tick \/ DiskChanges \/ UNCHANGED vars
    PROVE  IInv'
<1>1. wire \in Written /\ OneStatusByte /\ inbox \in Traffic
  BY DEF IInv, TypeOK
<1>2. CASE Cli \/ Quit \/ UNCHANGED vars
  <2>1. UNCHANGED <<proxy, conn, menu, deadline, wire, inbox, disk>>
    BY <1>2 DEF Cli, SendConnectRequest, WaitReady, PipeEnds, Quit, vars
  <2>2. client' \in {"send", "wait", "pipe", "done"}
    BY <1>2 DEF IInv, TypeOK, Cli, SendConnectRequest, WaitReady, PipeEnds, Quit, vars
  <2>3. TypeOK'
    BY <2>1, <2>2 DEF IInv, TypeOK, conn, menu, disk
  <2>4. OneStatusByte'
    BY <1>1, <2>1, NotWritten
  <2>5. CursorInRange' /\ Phases'
    BY <2>1 DEF IInv, CursorInRange, Entries, Phases, Unanswered, conn, menu, disk
  <2> QED
    BY <2>3, <2>4, <2>5 DEF IInv
<1>3. CASE Type \/ SendWindowChange
  <2>1. PICK s \in Traffic : Send(s)
    BY <1>3, TypeSends, ResizeSends
  <2>2. inbox' \in Traffic
    BY <1>1, <2>1 DEF Send, Traffic
  <2>3. UNCHANGED <<proxy, conn, menu, deadline, wire, client, disk>>
    BY <2>1 DEF Send
  <2>4. TypeOK'
    BY <2>2, <2>3 DEF IInv, TypeOK, conn, menu, disk
  <2>5. OneStatusByte'
    BY <1>1, <2>3, NotWritten
  <2>6. CursorInRange' /\ Phases'
    BY <2>3 DEF IInv, CursorInRange, Entries, Phases, Unanswered, conn, menu, disk
  <2> QED
    BY <2>4, <2>5, <2>6 DEF IInv
<1>4. CASE Tick \/ DiskChanges
  <2>1. UNCHANGED <<proxy, conn, menu, deadline, wire, client, inbox>>
    BY <1>4 DEF Tick, DiskChanges
  <2>2. TypeOK'
    BY <1>4, <2>1, ZenonT(40) DEF IInv, TypeOK, conn, menu, Tick, DiskChanges
  <2>3. OneStatusByte'
    BY <1>1, <2>1, NotWritten
  <2>4. CursorInRange'
    BY <2>1 DEF IInv, CursorInRange, Entries, conn, menu
  <2>5. Phases'
    BY <1>4, <2>1 DEF IInv, Phases, Unanswered, conn, Tick, DiskChanges
  <2> QED
    BY <2>2, <2>3, <2>4, <2>5 DEF IInv
<1> QED
  BY <1>2, <1>3, <1>4

-----------------------------------------------------------------------------
\* Everything above is an invariant.
LEMMA InductiveInvariant == Spec => []IInv
<1>1. IInv /\ [Next]_vars => IInv'
  BY ServeStep, MenuStep, OtherStep DEF Next, Handle
<1> QED
  BY <1>1, InitInductive, PTL DEF Spec

\* Every variable keeps its type.
THEOREM TypeCorrect == Spec => []TypeOK
BY InductiveInvariant, PTL DEF IInv

\* The proxy writes exactly one status byte, before anything else (deny and ackReady,
\* from every place that calls them).
THEOREM StatusByteOnce == Spec => []OneStatusByte
BY InductiveInvariant, PTL DEF IInv

\* No menu waits for a key under a deadline that readConnectRequest or Bridge left.
THEOREM MenusWaitQuietly == Spec => []MenuWaitsQuietly
<1>1. IInv => MenuWaitsQuietly
  BY DEF IInv, Phases, MenuWaitsQuietly
<1> QED
  BY <1>1, InductiveInvariant, PTL

\* handleGatewayMenu never indexes past its list.
THEOREM CursorStaysInRange == Spec => []CursorInRange
BY InductiveInvariant, PTL DEF IInv

\* Once the guard has seen a full partition, no connection passes it.
THEOREM GuardIsHonoured == Spec => GuardHolds
<1>1. IInv /\ [Next]_vars => (proxy = "disk" /\ proxy' = "read" => ~(full /\ ticked))
  <2> SUFFICES ASSUME IInv, [Next]_vars, proxy = "disk", proxy' = "read"
               PROVE  ~(full /\ ticked)
    OBVIOUS
  <2>1. CheckDisk
    BY DEF Next, Handle, Cli, vars, RateLimit, ReadRequest, ReadRequestFails, Authenticate,
           Authorize, Dial, OpenAudit, SessionReads, SessionFailed, QueryServers, MenuMove,
           MenuChoose, MenuIgnores, MenuReadFails, AnyKey, SessionEnds, Drain, ConsoleReturns,
           SendConnectRequest, WaitReady, PipeEnds, Type, SendWindowChange, Send, Quit, Tick,
           DiskChanges
  <2> QED
    BY <2>1 DEF CheckDisk, deny, IInv, Phases
<1> QED
  BY <1>1, InductiveInvariant, PTL DEF Spec, GuardHolds
=============================================================================
