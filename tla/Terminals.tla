----------------------------- MODULE Terminals -----------------------------
(***************************************************************************)
(* Terminals in the browser: TerminalManager and GhostTerminal             *)
(* (src/services/terminal.py).  A terminal is a shell behind a descriptor, *)
(* a reader that polls the descriptor for output and a writer that passes  *)
(* on what the client types.  gather ends at the first exception of the    *)
(* two, and cancels neither.                                               *)
(*                                                                         *)
(* External: the kernel, which gives out the lowest free descriptor, hangs *)
(* up the shell when it is closed and refuses input once the shell is      *)
(* gone; and the endpoint, which has its socket closed when create_session *)
(* is over.  To send on a socket that is closed raises.                    *)
(***************************************************************************)
EXTENDS Naturals, Sequences

CONSTANTS
  TerminalSessions,   \* session ids
  Descriptors,        \* file descriptors
  MaxTerminals        \* bound on the terminals ever created

ASSUME TerminalConstants == MaxTerminals \in Nat /\ Descriptors \subseteq Nat

VARIABLES
  listed,     \* TerminalManager.sessions: the terminal of each session, or 0
  terminals,  \* every GhostTerminal that was started
  opened,     \* the terminal whose pty each descriptor is, or 0
  printed,    \* terminals whose shell printed what nobody has read
  taken       \* history: terminal -> what its reader took of others' output

terminalVars == <<listed, terminals, opened, printed, taken>>

----------------------------------------------------------------------------
TerminalInit ==
  /\ listed = [s \in TerminalSessions |-> 0]
  /\ terminals = <<>>
  /\ opened = [f \in Descriptors |-> 0]
  /\ printed = {}
  /\ taken = <<>>

Running(t) == terminals[t].state = "running"

FreeDescriptors == {f \in Descriptors : opened[f] = 0}

\* create_session, and start up to gather.  A terminal the session has already
\* goes on, but is not listed any more.
CreateTerminal(s) ==
  /\ Len(terminals) < MaxTerminals
  /\ LET t == Len(terminals) + 1 IN
     \E f \in FreeDescriptors :
       /\ \A g \in FreeDescriptors : f <= g
       /\ terminals' = Append(terminals, [session |-> s, fd |-> f, state |-> "running", shell |-> TRUE,
                                          client |-> TRUE, reads |-> TRUE, refused |-> FALSE])
       /\ opened' = [opened EXCEPT ![f] = t]
       /\ listed' = [listed EXCEPT ![s] = t]
       /\ taken' = Append(taken, 0)
  /\ UNCHANGED printed

\* pty.fork raises: create_session does too, and what it listed stays.
ForkFails(s) ==
  /\ Len(terminals) < MaxTerminals
  /\ terminals' = Append(terminals, [session |-> s, fd |-> 0, state |-> "failed", shell |-> FALSE,
                                     client |-> FALSE, reads |-> FALSE, refused |-> FALSE])
  /\ listed' = [listed EXCEPT ![s] = Len(terminals) + 1]
  /\ taken' = Append(taken, 0)
  /\ UNCHANGED <<opened, printed>>

\* gather raised: start closes the descriptor and waits for the shell to be gone.
\* Then the entry of the session goes, whose terminal it may be; if there is none
\* the KeyError ends create_session as well.
EndTerminal(t, refused, reads) ==
  /\ terminals' = [terminals EXCEPT ![t].state = "ended", ![t].shell = FALSE, ![t].client = FALSE,
                                    ![t].refused = refused, ![t].reads = reads]
  /\ opened' = [opened EXCEPT ![terminals[t].fd] = 0]
  /\ listed' = [listed EXCEPT ![terminals[t].session] = 0]

\* What the reader of t takes from the descriptor it remembers is the output of
\* terminal u.
Takes(t, u) ==
  /\ terminals[t].reads
  /\ u = opened[terminals[t].fd] /\ u \in printed
  /\ printed' = printed \ {u}
  /\ taken' = IF u = t THEN taken ELSE [taken EXCEPT ![t] = @ + 1]

\* It is sent.
ReadAndSend(t, u) ==
  /\ Takes(t, u)
  /\ terminals[t].client
  /\ UNCHANGED <<listed, terminals, opened>>

\* A variant whose reader goes on after any exception.
SendRaisesAndReadsOn(t, u) ==
  /\ Takes(t, u)
  /\ ~ terminals[t].client
  /\ UNCHANGED <<listed, terminals, opened>>

\* The client is gone: sending raises what the reader does not catch.
SendRaises(t, u) ==
  /\ Takes(t, u)
  /\ ~ terminals[t].client
  /\ IF Running(t) THEN EndTerminal(t, FALSE, FALSE)
     ELSE /\ terminals' = [terminals EXCEPT ![t].reads = FALSE]
          /\ UNCHANGED <<listed, opened>>

\* The client types when the shell is gone: os.write raises.  The reader, which
\* catches the OSErrors of a descriptor that is closed, is left behind.
WriteRaises(t) ==
  /\ Running(t) /\ terminals[t].client
  /\ ~ terminals[t].shell
  /\ EndTerminal(t, TRUE, TRUE)
  /\ printed' = printed \ {t}
  /\ UNCHANGED taken

\* iter_bytes ends, and with it the writer; gather awaits the reader.
ClientLeaves(t) ==
  /\ Running(t) /\ terminals[t].client
  /\ terminals' = [terminals EXCEPT ![t].client = FALSE]
  /\ UNCHANGED <<listed, opened, printed, taken>>

ShellPrints(t) ==
  /\ terminals[t].shell
  /\ printed' = printed \cup {t}
  /\ UNCHANGED <<listed, terminals, opened, taken>>

\* What it printed can still be read; after that reading raises an OSError, which
\* the reader ignores.
ShellExits(t) ==
  /\ terminals[t].shell
  /\ terminals' = [terminals EXCEPT ![t].shell = FALSE]
  /\ UNCHANGED <<listed, opened, printed, taken>>

TerminalNext ==
  \/ \E s \in TerminalSessions : CreateTerminal(s) \/ ForkFails(s)
  \/ \E t \in DOMAIN terminals :
       \/ \E u \in DOMAIN terminals : ReadAndSend(t, u) \/ SendRaises(t, u)
       \/ WriteRaises(t) \/ ClientLeaves(t) \/ ShellPrints(t) \/ ShellExits(t)

TerminalSpec == TerminalInit /\ [][TerminalNext]_terminalVars

----------------------------------------------------------------------------
\* A reader that was left behind polls a number that soon is the descriptor of
\* another terminal.  What it takes there is lost, but it is once only, since its
\* own client is gone and sending ends it; no other reader ever takes anything.
\* And nothing else is left of a terminal that ended: its shell is gone and no
\* descriptor is open, so that every shell belongs to a terminal that runs.
OthersLoseLittle ==
  /\ \A t \in DOMAIN terminals : taken[t] <= 1 /\ (taken[t] = 1 => terminals[t].refused)
  /\ \A t \in DOMAIN terminals :
       /\ Running(t) <=> \E f \in Descriptors : opened[f] = t
       /\ terminals[t].shell => Running(t)
=============================================================================
