--------------------------------- MODULE Sh ---------------------------------
(***************************************************************************)
(* The shell (sh.c) under init (init.c): a line is read, a child parses it *)
(* and runs it with fork(), pipe(), dup(), close(), open(), exec() and     *)
(* wait().                                                                 *)
(*                                                                         *)
(* An action is one system call of one process.  A process is the calls it *)
(* has yet to make, its descriptors and its parent; runcmd(), which never  *)
(* returns, gives the calls of a command.  Every program that is run is    *)
(* cat (cat.c), reading descriptor 0 and writing descriptor 1.             *)
(***************************************************************************)
EXTENDS ShParse

CONSTANTS NPROC,         \* processes; the first is init
          NOFILE,        \* descriptors of a process
          Lines,         \* the lines parsecmd() is tried on
          Typed,         \* bound: the lines one of which is typed and run
          Source         \* bound: bytes a program gets from the console or a file

ASSUME ShAssumption == NPROC \in Nat /\ NPROC > 1 /\ NOFILE \in Nat /\ NOFILE > 3 /\ Source \in Nat

VARIABLES proc,          \* the processes
          full,          \* the pipes whose buffer is full; it holds one byte
          line,          \* buf; or None before anything is typed
          cmd,           \* the tree parsecmd() returned
          forkFailed     \* ghost: some fork() of the shell has failed

vars == <<proc, full, line, cmd, forkFailed>>

Pid   == 1..NPROC
initp == 1
None  == <<"none">>
Tty   == <<"console">>
NoCmd == [type |-> "none"]
Closed == [d \in 0..(NOFILE - 1) |-> None]
NoProc == [st |-> "unused", parent |-> 0, code |-> <<>>, fd |-> Closed, var |-> <<>>, at |-> <<>>]

-----------------------------------------------------------------------------
(* runcmd(): the calls of a command.  A place in the tree is the path to it, *)
(* and a pipe is called by the place of its pipecmd.                        *)

\* fork1(), the child to make these calls, the last of which runs the place at
ForkTo(at, calls) == <<"fork", at, calls>>
RunIt(c, at)      == <<"runcmd", c, at>>

NotClosed(fd, end) == <<<<"close", fd>>, <<"dupp", end>>, <<"closep", 3 - end>>>>   \* mutant
PipeEnds(fd, end) == <<<<"close", fd>>, <<"dupp", end>>, <<"closep", 1>>, <<"closep", 2>>>>

RunExec(c, at)  == IF c.argv = <<>> THEN <<<<"exit">>>> ELSE <<<<"exec">>, <<"exit">>>>
RunRedir(c, at) == <<<<"close", IF c.mode = "<" THEN 0 ELSE 1>>, <<"open", c.file>>,
                     RunIt(c.cmd, Append(at, "redir"))>>
RunList(c, at)  == <<ForkTo(Append(at, "first"), <<RunIt(c.left, Append(at, "first"))>>),
                     <<"wait">>, RunIt(c.right, Append(at, "second"))>>
Sides(c, at) ==
    <<<<"pipe", at>>,
      ForkTo(Append(at, "left"), Append(PipeEnds(1, 2), RunIt(c.left, Append(at, "left")))),
      ForkTo(Append(at, "right"), Append(PipeEnds(0, 1), RunIt(c.right, Append(at, "right"))))>>
OneWait(c, at) ==                                                       \* mutant
    Sides(c, at) \o <<<<"closep", 1>>, <<"closep", 2>>, <<"wait">>, <<"exit">>>>
KeepsEnds(c, at) == Sides(c, at) \o <<<<"wait">>, <<"wait">>, <<"exit">>>>   \* mutant
RunPipe(c, at)  ==
    Sides(c, at) \o <<<<"closep", 1>>, <<"closep", 2>>, <<"wait">>, <<"wait">>, <<"exit">>>>
RunBack(c, at)  == <<ForkTo(Append(at, "back"), <<RunIt(c.cmd, Append(at, "back"))>>), <<"exit">>>>

RunCmd(c, at) == CASE c.type = "EXEC"  -> RunExec(c, at)
                   [] c.type = "REDIR" -> RunRedir(c, at)
                   [] c.type = "LIST"  -> RunList(c, at)
                   [] c.type = "PIPE"  -> RunPipe(c, at)
                   [] c.type = "BACK"  -> RunBack(c, at)

\* A process that is to make these calls next; one that comes to a command
\* goes on with the calls of that command.
Doing(r, calls) ==
    IF calls[1][1] = "runcmd"
    THEN [r EXCEPT !.code = RunCmd(calls[1][2], calls[1][3]), !.at = calls[1][3]]
    ELSE [r EXCEPT !.code = calls]
Then1(r) == Doing(r, Tail(r.code))

\* main() of sh.c and of init.c
ShMain   == <<<<"console">>, <<"getcmd">>>>
RunLine  == <<ForkTo(<<"line">>, <<<<"parse">>>>), <<"wait">>, <<"getcmd">>>>
InitMain == <<ForkTo(<<>>, ShMain), <<"waitsh">>>>

Init ==
    /\ proc = [p \in Pid |-> IF p # initp THEN NoProc
                   ELSE [NoProc EXCEPT !.st = "used", !.code = InitMain,
                                       !.fd = [@ EXCEPT ![0] = Tty, ![1] = Tty, ![2] = Tty]]]
    /\ full = {} /\ line = None /\ cmd = NoCmd /\ forkFailed = FALSE

-----------------------------------------------------------------------------

Calls(p, name) == proc[p].st = "used" /\ proc[p].code[1][1] = name
Arg(p)         == proc[p].code[1][2]
Children(p)    == {q \in Pid : proc[q].st # "unused" /\ proc[q].parent = p}
Free(fd)       == {d \in DOMAIN fd : fd[d] = None}

\* Some process has the end e ("r" or "w") of the pipe open
IsOpen(ps, e, pipe) == \E q \in Pid : \E d \in DOMAIN Closed : ps[q].fd[d] = <<e, pipe>>
\* What is in a pipe goes with its last descriptor
Kept(ps) == {i \in full : IsOpen(ps, "r", i) \/ IsOpen(ps, "w", i)}

\* p goes on to its next call as r
Goes(p, r) == proc' = [proc EXCEPT ![p] = Then1(r)]

\* exit(): every descriptor is closed, the children are init's
Exits(p) == proc' = [q \in Pid |->
                       IF q = p THEN [NoProc EXCEPT !.st = "zombie", !.parent = proc[p].parent]
                       ELSE IF proc[q].parent = p THEN [proc[q] EXCEPT !.parent = initp]
                       ELSE proc[q]]
Exit(p) == /\ Calls(p, "exit") /\ Exits(p) /\ full' = Kept(proc')
           /\ UNCHANGED <<line, cmd, forkFailed>>

Fork(p) ==
    /\ Calls(p, "fork")
    /\ \E q \in Pid :
         /\ proc[q].st = "unused" /\ \A x \in 1..(q - 1) : proc[x].st # "unused"
         /\ proc' = [proc EXCEPT
              ![p] = Then1([proc[p] EXCEPT !.var = IF p = initp THEN <<q>> ELSE @]),
              ![q] = Doing([proc[p] EXCEPT !.parent = p, !.at = Arg(p)], proc[p].code[1][3])]
    /\ UNCHANGED <<full, line, cmd, forkFailed>>

\* fork1() when fork() fails, for want of a process or of memory: panic("fork")
ForkFails(p) ==
    /\ Calls(p, "fork") /\ p # initp
    /\ Exits(p) /\ full' = Kept(proc') /\ forkFailed' = TRUE
    /\ UNCHANGED <<line, cmd>>

\* wait(0): any child that has exited.  Every wait() here follows a fork() whose
\* child nothing else has reaped, so that it never returns for want of children.
Wait(p) ==
    /\ Calls(p, "wait")
    /\ \E q \in Children(p) :
         /\ proc[q].st = "zombie"
         /\ proc' = [proc EXCEPT ![p] = Then1(@), ![q] = NoProc]
    /\ UNCHANGED <<full, line, cmd, forkFailed>>

\* init waits for its shell, and reaps what has lost its parent meanwhile.
WaitSh(p) ==
    /\ Calls(p, "waitsh")
    /\ \E q \in Children(p) :
         /\ proc[q].st = "zombie"
         /\ proc' = [proc EXCEPT ![p].code = IF proc[p].var = <<q>> THEN InitMain ELSE @,
                                 ![q] = NoProc]
    /\ UNCHANGED <<full, line, cmd, forkFailed>>

Close(p) ==
    /\ \/ Calls(p, "close") /\ Goes(p, [proc[p] EXCEPT !.fd[Arg(p)] = None])
       \/ Calls(p, "closep") /\ Goes(p, [proc[p] EXCEPT !.fd[proc[p].var[Arg(p)]] = None])
    /\ full' = Kept(proc') /\ UNCHANGED <<line, cmd, forkFailed>>

\* dup(p[0]) or dup(p[1])
Dup(p) ==
    /\ Calls(p, "dupp") /\ Free(proc[p].fd) # {}
    /\ Goes(p, [proc[p] EXCEPT !.fd[Min(Free(proc[p].fd))] = proc[p].fd[proc[p].var[Arg(p)]]])
    /\ UNCHANGED <<full, line, cmd, forkFailed>>

\* open() of a redirection; it may fail
Open(p) ==
    /\ Calls(p, "open")
    /\ \/ Goes(p, [proc[p] EXCEPT !.fd[Min(Free(proc[p].fd))] = <<"file", Arg(p)>>])
       \/ Exits(p)
    /\ full' = Kept(proc') /\ UNCHANGED <<line, cmd, forkFailed>>

\* pipe(p), or panic("pipe")
MakePipe(p) ==
    /\ Calls(p, "pipe")
    /\ \/ LET f == Free(proc[p].fd)
              r == Min(f)
              w == Min(f \ {r})
          IN  /\ Cardinality(f) >= 2
              /\ Goes(p, [proc[p] EXCEPT !.fd[r] = <<"r", Arg(p)>>, !.fd[w] = <<"w", Arg(p)>>,
                                         !.var = <<r, w>>])
       \/ Exits(p)
    /\ full' = Kept(proc') /\ UNCHANGED <<line, cmd, forkFailed>>

\* exec(): the program takes the descriptors over, or exec() returns.
ExecCall(p) ==
    /\ Calls(p, "exec")
    /\ \/ proc' = [proc EXCEPT ![p].code = <<<<"read", Source>>>>, ![p].var = <<>>]
       \/ Goes(p, proc[p])
    /\ UNCHANGED <<full, line, cmd, forkFailed>>

\* sh opens the console until descriptors 0 to 2 are in use.
OpenConsole(p) ==
    /\ Calls(p, "console")
    /\ Goes(p, [proc[p] EXCEPT !.fd = [d \in DOMAIN Closed |->
                                         IF d < 3 /\ @[d] = None THEN Tty ELSE @[d]]])
    /\ UNCHANGED <<full, line, cmd, forkFailed>>

\* getcmd(): a line, or the end of the input.  A line that begins with "cd "
\* starts no process: main() calls chdir() and asks for the next.
GetCmd(p) ==
    /\ Calls(p, "getcmd")
    /\ \/ /\ line = None
          /\ line' \in Typed
          /\ proc' = [proc EXCEPT ![p].code = RunLine]
       \/ /\ line # None /\ Exits(p) /\ UNCHANGED line
    /\ UNCHANGED <<full, cmd, forkFailed>>

Parsed == [l \in Typed |-> ParseCmd(l)]

\* The child's parsecmd() and the start of its runcmd()
ParseIt(p) ==
    /\ Calls(p, "parse")
    /\ cmd' = Parsed[line]
    /\ IF cmd' = Wrong THEN Exits(p)
       ELSE proc' = [proc EXCEPT ![p] = Doing(@, <<RunIt(cmd', <<"line">>)>>)]
    /\ UNCHANGED <<full, line, forkFailed>>

-----------------------------------------------------------------------------
(* cat: read(0), then write(1) of what was read, until the end of the input *)
(* or until nobody reads what it writes.                                    *)

In(p)  == proc[p].fd[0]
Out(p) == proc[p].fd[1]

CatRead(p) ==
    /\ Calls(p, "read")
    /\ \/ /\ In(p)[1] = "r" /\ In(p)[2] \in full
          /\ full' = full \ {In(p)[2]}
          /\ proc' = [proc EXCEPT ![p].code = <<<<"write", Arg(p)>>>>]
       \/ /\ In(p)[1] = "r" /\ In(p)[2] \notin full /\ ~IsOpen(proc, "w", In(p)[2])
          /\ Exits(p) /\ full' = Kept(proc')
       \/ /\ In(p)[1] # "r" /\ Arg(p) > 0
          /\ proc' = [proc EXCEPT ![p].code = <<<<"write", Arg(p) - 1>>>>] /\ UNCHANGED full
       \/ /\ In(p)[1] # "r" /\ Arg(p) = 0
          /\ Exits(p) /\ full' = Kept(proc')
    /\ UNCHANGED <<line, cmd, forkFailed>>

CatWrite(p) ==
    /\ Calls(p, "write")
    /\ \/ /\ Out(p)[1] = "w" /\ Out(p)[2] \notin full /\ IsOpen(proc, "r", Out(p)[2])
          /\ full' = full \cup {Out(p)[2]}
          /\ proc' = [proc EXCEPT ![p].code = <<<<"read", Arg(p)>>>>]
       \/ /\ Out(p)[1] = "w" /\ ~IsOpen(proc, "r", Out(p)[2])
          /\ Exits(p) /\ full' = Kept(proc')
       \/ /\ Out(p)[1] # "w"
          /\ proc' = [proc EXCEPT ![p].code = <<<<"read", Arg(p)>>>>] /\ UNCHANGED full
    /\ UNCHANGED <<line, cmd, forkFailed>>

-----------------------------------------------------------------------------

Step(p) == \/ Exit(p) \/ Fork(p) \/ ForkFails(p) \/ Wait(p) \/ WaitSh(p) \/ Close(p) \/ Dup(p)
           \/ Open(p) \/ MakePipe(p) \/ ExecCall(p) \/ OpenConsole(p) \/ GetCmd(p) \/ ParseIt(p)
           \/ CatRead(p) \/ CatWrite(p)

Next == \E p \in Pid : Step(p)

\* As long as some process can run, the scheduler runs one (Proc).  Nothing more
\* is assumed of it: only a shell that is at its prompt goes on for ever.
Spec == Init /\ [][Next]_vars /\ WF_vars(Next)

-----------------------------------------------------------------------------
(* Properties.                                                              *)

Used(p)      == proc[p].st = "used"
Prompting(p) == Calls(p, "getcmd")
IsProgram(p) == Used(p) /\ proc[p].code[1][1] \in {"read", "write"}
Place(p)       == proc[p].at
\* p runs in the background of the command that is n steps down its path
Background(p, n) == \E m \in (n + 1)..Len(Place(p)) : Place(p)[m] = "back"

\* The tree that parsecmd() makes in the line, once nulterminate() has cut the
\* line into strings, is the meaning of what was typed.
ParsesTheLine == /\ cmd # NoCmd => cmd = Meaning(line)
                 /\ line = None => \A l \in Lines : ParseCmd(l) = Meaning(l)

\* The second command of a list does not begin before every process of the first
\* has ended, and the prompt does not come back before the line has, but for what
\* was put in the background: the one wait() or the two of runcmd() wait for the
\* right processes.  A fork() that fails may leave the left side of a pipe behind.
CommandsInOrder ==
    \/ forkFailed
    \/ /\ \A p, q \in Pid : \A n \in 1..Len(Place(q)) :
             /\ Used(p) /\ Used(q) /\ Place(q)[n] = "second" /\ Len(Place(p)) >= n
             /\ SubSeq(Place(p), 1, n) = Append(SubSeq(Place(q), 1, n - 1), "first")
             => Background(p, n)
       /\ \A p, q \in Pid :
             Prompting(p) /\ Used(q) /\ Place(q) # <<>> => Background(q, 1)

\* The command n steps down a path
RECURSIVE Node(_, _, _)
Node(c, at, n) == IF n = 0 THEN c
                  ELSE LET d == Node(c, at, n - 1)
                       IN  CASE at[n] \in {"first", "left"}   -> d.left
                             [] at[n] \in {"second", "right"} -> d.right
                             [] OTHER                         -> d.cmd
\* The innermost redirection or pipe around the program at a path that says what
\* its descriptor d is
Wiring(path, d, modes, side, end) ==
    LET at == Tail(path)
        Redirects(n) == at[n] = "redir" /\ Node(cmd, at, n - 1).mode \in modes
        by == {n \in 1..Len(at) : Redirects(n) \/ at[n] = side}
    IN  IF by = {} THEN Tty
        ELSE IF Redirects(Max(by)) THEN <<"file", Node(cmd, at, Max(by) - 1).file>>
        ELSE <<end, SubSeq(path, 1, Max(by))>>

\* A program starts with the descriptors its command line gives it and no others:
\* it has no end of a pipe that would keep a reader from the end of its input, and
\* dup() and open() have found the numbers just closed.
Wired ==
    \A p \in Pid : IsProgram(p) =>
        proc[p].fd = [d \in DOMAIN Closed |->
            CASE d = 0 -> Wiring(Place(p), 0, {"<"}, "right", "r")
              [] d = 1 -> Wiring(Place(p), 1, {">", ">>"}, "left", "w")
              [] d = 2 -> Tty
              [] OTHER -> None]

\* The shell comes back for the next line: no process waits for ever for a child,
\* for the end of a pipe that a waiting process has open, or for room in a pipe
\* that nobody will read.
PromptComesBack == []<>(\E p \in Pid : Prompting(p))
=============================================================================
