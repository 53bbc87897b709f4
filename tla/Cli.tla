-------------------------------- MODULE Cli --------------------------------
(***************************************************************************)
(* The clients of the command line interface (cli/tcp.c, cli/telnet.c and  *)
(* cli_process_cmd of cli/cli.c).  All of them live in one context, so a   *)
(* step is one call of a read, write or accept handler.  What a client     *)
(* cannot take at once waits in xmit_buf and xmit_queue; a client that     *)
(* leaves is kept until they are empty.  A telnet client edits a line and  *)
(* recalls the commands of earlier clients (history).                      *)
(*                                                                         *)
(* A command line is its length and its cursor.  A tcp client sends lines, *)
(* a telnet client characters.  An entry of a client's history is its      *)
(* scratch line, a command of its own, or a pointer to a global entry.     *)
(***************************************************************************)
EXTENDS Integers, Sequences, FiniteSets

CONSTANTS
    CliClients,
    LineSize,        \* RECV_BUF_SIZE
    HistoryLen,      \* conf_history_len
    MaxXmit,         \* bound: buffers that wait for a client
    CliScenarios     \* [kind, passwd, clients, chars, sends, events, loaded, reload]: tcp or telnet,
                     \* password set, the clients, the characters, what write() may do, the
                     \* number of reads and accepts, history entries from the file, whether
                     \* the password is removed by a reload

VARIABLE cli

NoClient == [on |-> FALSE, auth |-> FALSE, disc |-> FALSE, xmit |-> 0, rd |-> FALSE, wr |-> FALSE, cpu |-> FALSE,
             len |-> 0, pos |-> 0, pos2 |-> 0, mode |-> "text", first |-> "none", hist |-> <<>>, hpos |-> 1]

Scratch == [type |-> "scratch", id |-> 0, sz |-> 0]
-----------------------------------------------------------------------------
(* Sending.  r is what write() does: it takes all, would block, or fails.  *)

telnet_send(g, c, r) ==
    IF g.cl[c].disc THEN g
    ELSE IF g.cl[c].xmit > 0 THEN [g EXCEPT !.cl[c].xmit = @ + 1]
    ELSE IF r = "again" THEN [g EXCEPT !.cl[c].xmit = 1, !.cl[c].wr = TRUE]
    ELSE IF r = "fail" THEN [g EXCEPT !.cl[c].disc = TRUE]
    ELSE g

\* The commands of the client become the newest entries, the oldest go.
RECURSIVE Kept(_, _)
Kept(g, own) ==
    IF own = <<>> THEN g
    ELSE LET e == own[Len(own)]
             full == g.hlen = HistoryLen
             rest == IF full THEN Tail(g.history) ELSE g.history
         IN Kept([g EXCEPT !.history = Append(rest, [id |-> e.id, sz |-> e.sz]), !.hlen = IF full THEN @ ELSE @ + 1],
                 SubSeq(own, 1, Len(own) - 1))

disconnect(g, c) ==
    [Kept(g, SelectSeq(g.cl[c].hist, LAMBDA e : e.type = "own"))
       EXCEPT !.cl[c] = NoClient, !.ru = IF g.sc.kind = "telnet" THEN @ - 1 ELSE @]

\* What is left to send goes first.
DisconnSoft(g, c) ==
    IF g.cl[c].xmit > 0 THEN [g EXCEPT !.cl[c].rd = FALSE, !.cl[c].disc = TRUE] ELSE disconnect(g, c)
-----------------------------------------------------------------------------
(* Commands: they answer, fail, or ask for the end (CLI_CMD_EXIT).         *)

cli_process_cmd(g, c, res, r) ==
    IF res = "exit" THEN [g EXCEPT !.cl[c].disc = TRUE, !.early = @ \/ ~g.cl[c].auth]
    ELSE [telnet_send(g, c, r) EXCEPT !.early = @ \/ ~g.cl[c].auth]

\* conf_cli_passwd is NULL after a reload without a password.
WrongPassword(g, c) == [g EXCEPT !.cl[c].disc = TRUE]
Compared(g) == [g EXCEPT !.crash = @ \/ ~g.passwd]

\* A line of a tcp client: not terminated and too long, or complete.
cln_read_tcp(g, c, line, r) ==
    IF line = "eof" THEN DisconnSoft(g, c)
    ELSE IF line = "error" THEN g
    ELSE IF line = "part" THEN IF g.cl[c].len + 1 = LineSize - 1 THEN disconnect(g, c) ELSE [g EXCEPT !.cl[c].len = @ + 1]
    ELSE IF g.cl[c].auth
    THEN LET done == cli_process_cmd(g, c, line, r)
         IN IF done.cl[c].disc THEN DisconnSoft(done, c) ELSE [done EXCEPT !.cl[c].len = 0]
    ELSE IF line = "ok" THEN [Compared(g) EXCEPT !.cl[c].auth = TRUE, !.cl[c].len = 0]
    ELSE disconnect(Compared(g), c)
-----------------------------------------------------------------------------
(* The telnet editor.                                                      *)

\* The entry may point to a global one that was freed since.
load_history(g, c, hpos, r) ==
    LET e == g.cl[c].hist[hpos]
    IN [telnet_send(g, c, r) EXCEPT
          !.cl[c].hpos = hpos, !.cl[c].len = e.sz, !.cl[c].pos = e.sz,
          !.stale = @ \/ (e.type = "ref" /\ \A i \in DOMAIN g.history : g.history[i].id # e.id)]

EscUp(g, c, r) ==
    LET h == IF g.cl[c].hpos = 1 THEN [g EXCEPT !.cl[c].hist[1].sz = g.cl[c].len] ELSE g
    IN IF g.cl[c].hpos = Len(g.cl[c].hist) THEN h ELSE load_history(h, c, g.cl[c].hpos + 1, r)
EscDown(g, c, r) == IF g.cl[c].hpos = 1 THEN g ELSE load_history(g, c, g.cl[c].hpos - 1, r)
EscLeft(g, c, r) == IF g.cl[c].pos = 0 THEN g ELSE [telnet_send(g, c, r) EXCEPT !.cl[c].pos = @ - 1]
EscRight(g, c, r) == IF g.cl[c].pos = g.cl[c].len THEN g ELSE [telnet_send(g, c, r) EXCEPT !.cl[c].pos = @ + 1]

Remember(g, c) ==
    [g EXCEPT !.cl[c].hist = <<Head(@), [type |-> "own", id |-> g.nid, sz |-> g.cl[c].len]>> \o Tail(@),
              !.cl[c].hpos = 1, !.nid = @ + 1]

Prompt(g, c, r) == IF g.cl[c].disc THEN g ELSE [telnet_send(g, c, r) EXCEPT !.cl[c].pos = 0, !.cl[c].len = 0]

\* res: whether the password is right, or what comes of the command.
EnterLine(g, c, res, r) ==
    IF ~g.cl[c].auth
    THEN IF res = "ok" THEN Prompt([Compared(g) EXCEPT !.cl[c].auth = TRUE], c, r)
         ELSE WrongPassword(telnet_send(Compared(g), c, r), c)
    ELSE IF g.cl[c].len = 0 THEN Prompt(g, c, r)
    ELSE Prompt(cli_process_cmd(Remember(g, c), c, res, r), c, r)

Printable(g, c, r) ==
    IF g.cl[c].len = LineSize - 1 THEN g
    ELSE [telnet_send(g, c, r) EXCEPT !.cl[c].pos = @ + 1, !.cl[c].len = @ + 1]
Delete(g, c, r) ==
    IF g.cl[c].pos = 0 THEN g ELSE [telnet_send(g, c, r) EXCEPT !.cl[c].pos = @ - 1, !.cl[c].len = @ - 1]

\* Behind the line, as far as there is room; else the client is freed.
Sequel(g, c, x, r) ==
    LET k == g.cl[c].pos2 + 1 - g.cl[c].len
        first == IF k = 1 THEN x ELSE g.cl[c].first
        on == [g EXCEPT !.cl[c].pos2 = @ + 1, !.cl[c].first = first]
        text == [on EXCEPT !.cl[c].mode = "text", !.cl[c].first = "none"]
    IN IF g.cl[c].mode = "tel"
       THEN CASE first = "will" -> IF k # 2 THEN on ELSE telnet_send(text, c, r)
              [] first = "sb" -> IF x = "se" THEN text ELSE on
              [] OTHER -> text
       ELSE IF k # 2 THEN on
       ELSE IF ~g.cl[c].auth THEN text
       ELSE CASE x = "up" -> EscUp(text, c, r)
              [] x = "down" -> EscDown(text, c, r)
              [] x = "left" -> EscLeft(text, c, r)
              [] x = "right" -> EscRight(text, c, r)
              [] OTHER -> text

telnet_input_char(g, c, x, res, r) ==
    IF x = "cr" THEN EnterLine(g, c, res, r)
    ELSE IF g.cl[c].mode # "text"
    THEN IF g.cl[c].pos2 = LineSize - 1 THEN [disconnect(g, c) EXCEPT !.freed = TRUE] ELSE Sequel(g, c, x, r)
    ELSE CASE x = "iac" -> [g EXCEPT !.cl[c].mode = "tel", !.cl[c].pos2 = g.cl[c].len]
           [] x = "esc" -> [g EXCEPT !.cl[c].mode = "esc", !.cl[c].pos2 = g.cl[c].len]
           [] x = "del" -> Delete(g, c, r)
           [] x = "ctrl-c" -> [g EXCEPT !.cl[c].disc = TRUE]
           [] OTHER -> Printable(g, c, r)

cln_read_telnet(g, c, x, res, r) ==
    IF x = "eof" THEN DisconnSoft(g, c)
    ELSE IF x = "error" THEN g
    ELSE LET done == telnet_input_char(g, c, x, res, r)
         IN IF done.cl[c].disc THEN DisconnSoft(done, c) ELSE done
-----------------------------------------------------------------------------
(* The other handlers.                                                     *)

\* r: nothing more goes out, one buffer goes, all go, or write() fails.
cln_write(g, c, r) ==
    CASE r = "again" -> g
      [] r = "some" -> [g EXCEPT !.cl[c].xmit = IF @ > 1 THEN @ - 1 ELSE @]
      [] r = "fail" -> disconnect(g, c)
      [] r = "all" -> IF g.cl[c].disc THEN disconnect(g, c) ELSE [g EXCEPT !.cl[c].xmit = 0, !.cl[c].wr = FALSE]

\* A telnet client is greeted; only then the CPU usage is collected for it.
Greet(g, c, r) ==
    LET sent == telnet_send(g, c, r)
    IN IF sent.cl[c].disc THEN sent ELSE [sent EXCEPT !.cl[c].cpu = TRUE, !.ru = @ + 1]

serv_read(g, c, r) ==
    LET refs == [i \in DOMAIN g.history |-> LET e == g.history[Len(g.history) + 1 - i]
                                            IN [type |-> "ref", id |-> e.id, sz |-> e.sz]]
        new == [g EXCEPT !.cl[c] = [NoClient EXCEPT !.on = TRUE, !.rd = TRUE, !.auth = ~g.passwd,
                                                    !.hist = IF g.sc.kind = "telnet" THEN <<Scratch>> \o refs ELSE <<>>]]
    IN IF g.sc.kind = "telnet" THEN Greet(new, c, r) ELSE new

RECURSIVE serv_close(_)
serv_close(g) ==
    IF \A c \in CliClients : ~g.cl[c].on THEN [g EXCEPT !.closed = TRUE]
    ELSE serv_close(disconnect(g, CHOOSE c \in CliClients : g.cl[c].on))

load_config(g) == [g EXCEPT !.passwd = FALSE]
-----------------------------------------------------------------------------
\* load_history_file does not count what it loads.
CliInit ==
    \E sc \in CliScenarios :
      cli = [cl |-> [c \in CliClients |-> NoClient], passwd |-> sc.passwd, hlen |-> 0, nid |-> sc.loaded + 1,
             history |-> [i \in 1..sc.loaded |-> [id |-> i, sz |-> 1]], ru |-> 0, closed |-> FALSE, early |-> FALSE,
             crash |-> FALSE, stale |-> FALSE, freed |-> FALSE, n |-> sc.events, sc |-> sc]

Runs(c) == cli.cl[c].on /\ cli.n > 0 /\ ~cli.closed /\ ~cli.crash

ReadTcp(c) ==
    /\ Runs(c) /\ cli.sc.kind = "tcp" /\ cli.cl[c].rd
    /\ \E x \in cli.sc.chars, r \in cli.sc.sends : cli' = cln_read_tcp([cli EXCEPT !.n = @ - 1], c, x, r)

ReadTelnet(c) ==
    /\ Runs(c) /\ cli.sc.kind = "telnet" /\ cli.cl[c].rd /\ cli.cl[c].xmit < MaxXmit
    /\ \E x \in cli.sc.chars, res \in {"ok", "exit"}, r \in cli.sc.sends :
         cli' = cln_read_telnet([cli EXCEPT !.n = @ - 1], c, x, res, r)

WriteClient(c) ==
    /\ Runs(c) /\ cli.cl[c].wr
    /\ \E r \in {"again", "some", "all", "fail"} : cli' = cln_write(cli, c, r)

Accept(c) ==
    /\ c \in cli.sc.clients /\ ~cli.cl[c].on /\ cli.n > 0 /\ ~cli.closed
    /\ \E r \in cli.sc.sends : cli' = serv_read([cli EXCEPT !.n = @ - 1], c, r)

CliNext ==
    \/ \E c \in CliClients : ReadTcp(c) \/ ReadTelnet(c) \/ WriteClient(c) \/ Accept(c)
    \/ ~cli.closed /\ cli' = serv_close(cli)
    \/ cli.sc.reload /\ cli.passwd /\ cli' = load_config(cli)

CliSpec == CliInit /\ [][CliNext]_cli
-----------------------------------------------------------------------------
Present == {c \in CliClients : cli.cl[c].on}

\* What waits to be sent has the write handler enabled, and a client that is
\* no longer read from has something to send, after which it is freed: none is
\* left behind.  No client is left after the server closed.
CliDrains ==
    /\ \A c \in Present : /\ cli.cl[c].wr <=> cli.cl[c].xmit > 0
                          /\ ~cli.cl[c].rd => cli.cl[c].disc /\ cli.cl[c].xmit > 0
    /\ cli.closed => Present = {}

\* The cursor stays within the line and the line within its buffer, whatever
\* is typed, deleted or recalled; the position in the history is an entry, and
\* the first entry is the line being edited, once.  The history keeps the last
\* commands of the clients that left, in order.
CliEditor ==
    /\ \A c \in Present :
         LET cl == cli.cl[c]
         IN /\ cl.pos \in 0..cl.len /\ cl.len < LineSize
            /\ cl.mode # "text" => cl.pos2 < LineSize
            /\ cli.sc.kind = "telnet"
                 => cl.hpos \in DOMAIN cl.hist /\ \A i \in DOMAIN cl.hist : cl.hist[i].type = "scratch" <=> i = 1
    /\ Len(cli.history) <= HistoryLen + cli.sc.loaded

\* No command is executed for a client that did not give the password.
CliAuthorized == ~cli.early

\* Does not hold: a client that leaves frees the oldest global entry, to which
\* the history of another client still points (p_buf).
HistoryAlive == ~cli.stale

\* Does not hold: a telnet sequence that does not fit frees the client, and
\* cln_read looks at it (disconnect) when telnet_input_char has returned.
ClientAlive == ~cli.freed

\* Does not hold: a client that is asked for the password when a reload removes
\* it is compared with NULL.
PasswordIsSet == ~cli.crash

\* Does not hold: a client that could not be greeted stops a collection that
\* was not started for it.
CpuUsageExact == cli.ru = Cardinality({c \in Present : cli.cl[c].cpu})

\* Does not hold: the entries loaded from the file are not in history_len.
HistoryCounted == cli.hlen = Len(cli.history)
=============================================================================
