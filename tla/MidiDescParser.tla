--------------------------- MODULE MidiDescParser ---------------------------
(***************************************************************************)
(* The parser that looks for MIDI endpoints in a configuration descriptor, *)
(* usbh_midi.cpp, on top of the value parser and the skipper of            *)
(* parsetools.  The descriptor arrives in chunks that end anywhere, and    *)
(* the parser is an automaton that goes on where the last chunk stopped.   *)
(*                                                                         *)
(* A descriptor is a sequence of bytes: its length, its type, and what is  *)
(* left of its fields -- a configuration has its value, an interface has   *)
(* its class and subclass as one number, an endpoint has its address and   *)
(* its attributes.  Other descriptors are passed over.                     *)
(***************************************************************************)
EXTENDS Naturals, Sequences

CONFIGURATION == 2
INTERFACE == 4
ENDPOINT == 5

MIDI == 1                   \* bInterfaceClass and bInterfaceSubClass
BULK == 2                   \* USB_TRANSFER_TYPE_BULK
INTERRUPT == 3

\* bEndpointAddress: the top bit says in; scaled down with the numbers.
DirIn == 8
IsIn(address) == address >= DirIn

\* bTransferTypeMask: three for most devices, two for those that
\* setupDeviceSpecific() knows, which then take interrupt endpoints too.
Accepted(novation) == IF novation THEN {BULK, INTERRUPT} ELSE {BULK}

Least(a, b) == IF a < b THEN a ELSE b

\* MidiDescParser(xtractor, modeMidi).  "got" is what has been read of the
\* descriptor at hand, in varBuffer or skipped; "left" is what valParser or
\* theSkipper still waits for, and states 0 to 3 of the code are the length and
\* type, state 4 the rest.  isGoodInterface and confValue have no initial value
\* in the code; an interface and a configuration descriptor come before
\* anything that reads them.
NewParser(modeMidi) ==
  [rest |-> FALSE, got |-> <<>>, left |-> 2, nEPs |-> 0, confValue |-> 0,
   isGoodInterface |-> FALSE, isMidiSearch |-> modeMidi]

\* valParser.Parse() and theSkipper.Skip(): as much as the chunk has.
Read(p, chunk) ==
  LET n == Least(p.left, Len(chunk))
  IN [p EXCEPT !.got = @ \o SubSeq(chunk, 1, n), !.left = @ - n]

Remaining(p, chunk) == SubSeq(chunk, Least(p.left, Len(chunk)) + 1, Len(chunk))

\* Mutant: the endpoints of an interface that follows a MIDI one are taken.
AfterHeaderKeeping(p) == [p EXCEPT !.rest = TRUE, !.left = p.got[1] - 2]

\* The length and the type are there: the rest of the descriptor is next.
AfterHeader(p) ==
  [p EXCEPT !.rest = TRUE, !.left = p.got[1] - 2,
            !.isGoodInterface = @ /\ p.got[2] # INTERFACE]

\* EndpointXtract(): which of the driver's two endpoints the descriptor in the
\* buffer fills, "none" when its transfer type is not accepted.
Direction(p, novation) ==
  IF p.got[4] \notin Accepted(novation) THEN "none"
  ELSE IF IsIn(p.got[3]) THEN "in" ELSE "out"

\* The interface in the buffer is one to take endpoints from: a MIDI streaming
\* one, or any when the search for one failed.
GoodInterface(p) == p.isMidiSearch => p.got[3] = MIDI

TakesEndpoint(p, novation) ==
  /\ p.got[2] = ENDPOINT
  /\ p.isGoodInterface /\ p.nEPs < 2
  /\ Direction(p, novation) # "none"

EndpointXtract(p, ep, novation) ==
  IF TakesEndpoint(p, novation)
  THEN [ep EXCEPT ![Direction(p, novation)] = p.got[3] % DirIn]
  ELSE ep

\* What a complete descriptor changes.
AfterDescriptor(p, novation) ==
  LET q == [p EXCEPT !.rest = FALSE, !.got = <<>>, !.left = 2]
  IN CASE p.got[2] = CONFIGURATION -> [q EXCEPT !.confValue = p.got[3]]
       [] p.got[2] = INTERFACE /\ GoodInterface(p) ->
            [q EXCEPT !.isGoodInterface = TRUE,
                      !.nEPs = IF @ < 2 THEN 0 ELSE @]
       [] TakesEndpoint(p, novation) -> [q EXCEPT !.nEPs = @ + 1]
       [] OTHER -> q

\* ParseDescriptor() up to the end of the part it is in, or of the chunk: the
\* parser, the driver's endpoints and what is left of the chunk.
ParseDescriptor(p, ep, novation, chunk) ==
  LET q == Read(p, chunk)
      left == Remaining(p, chunk)
  IN IF q.left > 0 THEN <<q, ep, left>>
     ELSE IF ~q.rest THEN <<AfterHeader(q), ep, left>>
     ELSE <<AfterDescriptor(q, novation), EndpointXtract(q, ep, novation), left>>

=============================================================================
