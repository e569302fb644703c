------------------------------- MODULE Notifier -------------------------------
(***************************************************************************)
(* Notifications: the channels (an address each), the requests that change *)
(* them, those that send a message to a list of channels or test one, and  *)
(* the history they write (plugin/apprise_notify).                         *)
(*                                                                         *)
(* A session sees committed rows.  A row that the session has just read is *)
(* not read again; each entry of the history is committed by itself.       *)
(***************************************************************************)
EXTENDS Naturals, Sequences, FiniteSets

CONSTANTS
  Channels,   \* ids of channels, not used again
  Addresses,  \* what an Apprise URL reaches
  Senders,    \* requests that send or test
  Keepers,    \* requests that change channels or read the history
  Asked,      \* the lists of channels that a request may name
  PageSize,   \* entries on a page of the history
  NoChannel,  \* no row yet; nothing
  GoneChannel \* no row any more

VARIABLES
  channel,    \* channel[c]: its row
  history,    \* plugin_apprise_notify_log, oldest first: whose entry, for which place
              \* of the list, success or failed
  sender,     \* sender[s]: its step, the list, whether it is a test, the place in the
              \* list, the row it holds with the id it is of, and how the sending went
  keeper,     \* keeper[k]: its step, operation, channel, the row it read, what it wants,
              \* and what it counted
  page,       \* page[k]: the entries that the reader shows
  delivered,  \* messages that arrived: whose, for which place, at which address
  had         \* history: had[s]: which addresses enabled channels had since s began

notifyVars == <<channel, history, sender, keeper, page, delivered, had>>

NoticeRow == [url : Addresses, on : BOOLEAN]

\* A list is not empty, nor is a page.
ASSUME NotifierAssumption ==
  /\ PageSize \in Nat \ {0} /\ Asked \subseteq Seq(Channels) \ {<<>>}
  /\ NoChannel # GoneChannel /\ NoChannel \notin Channels
  /\ {NoChannel, GoneChannel} \cap NoticeRow = {}

Entry == [by : Senders, at : Nat, ok : BOOLEAN]
ResetKeeper == [step |-> "new", op |-> "none", on |-> NoChannel, row |-> NoChannel,
                want |-> NoChannel, count |-> 0]
ResetSender == [step |-> "new", list |-> <<>>, test |-> FALSE, at |-> 1, row |-> NoChannel,
                of |-> NoChannel, ok |-> FALSE]
HasRow(c) == channel[c] \in NoticeRow
SwitchedOn(c) == HasRow(c) /\ channel[c].on

NotifyTypeOK ==
  /\ channel \in [Channels -> NoticeRow \cup {NoChannel, GoneChannel}]
  /\ history \in Seq(Entry)
  /\ \A s \in Senders :
       /\ sender[s].step \in {"new", "find", "log", "done", "refused"}
       /\ sender[s].list \in Asked \cup {<<>>} /\ sender[s].row \in NoticeRow \cup {NoChannel}
       /\ sender[s].at \in 1..Len(sender[s].list) + 1
  /\ \A k \in Keepers :
       /\ keeper[k].step \in {"new", "write", "show", "page", "done", "refused"}
       /\ page[k] \in Seq(Entry) /\ Len(page[k]) <= PageSize
  /\ delivered \subseteq [by : Senders, at : Nat, url : Addresses]
  /\ had \in [Senders -> SUBSET (Channels \X Addresses)]

NotifyInit ==
  /\ channel \in [Channels -> NoticeRow \cup {NoChannel}]
  /\ history = <<>> /\ delivered = {}
  /\ sender = [s \in Senders |-> ResetSender] /\ keeper = [k \in Keepers |-> ResetKeeper]
  /\ page = [k \in Keepers |-> <<>>] /\ had = [s \in Senders |-> {}]

Closes(step) == step \in {"done", "refused"}
Running(s) == sender[s].step \notin {"new", "done", "refused"}
HasNow == {<<c, channel[c].url>> : c \in {d \in Channels : SwitchedOn(d)}}

SenderIs(s, w) == sender' = [sender EXCEPT ![s] = w]
KeeperIs(k, w) ==
  keeper' = [keeper EXCEPT ![k] = IF Closes(w.step) THEN [ResetKeeper EXCEPT !.step = w.step] ELSE w]
KeepersRest == UNCHANGED <<channel, keeper, page>>
SendersRest == UNCHANGED <<history, sender, delivered>>

-----------------------------------------------------------------------------
(* Sending.                                                                 *)

\* POST /notify with a list, or /channels/{pk}/test with one.
AskToSend(s, list, test) ==
  /\ sender[s].step = "new" /\ (test => Len(list) = 1)
  /\ SenderIs(s, [ResetSender EXCEPT !.step = "find", !.list = list, !.test = test])
  /\ had' = [had EXCEPT ![s] = HasNow]
  /\ UNCHANGED <<history, delivered>> /\ KeepersRest

\* db.get: the session still has the row while the same id comes again.
RowFor(w, c) ==
  IF w.of = c /\ w.row # NoChannel THEN w.row ELSE IF HasRow(c) THEN channel[c] ELSE NoChannel

\* Mutant: a disabled channel is sent to like the others.
SendAnyway(s) ==
  LET w == sender[s]
      row == RowFor(w, w.list[w.at])
  IN  /\ w.step = "find" /\ row # NoChannel
      /\ SenderIs(s, [w EXCEPT !.row = row, !.of = w.list[w.at], !.step = "log", !.ok = TRUE])
      /\ delivered' = delivered \cup {[by |-> s, at |-> w.at, url |-> row.url]}
      /\ UNCHANGED <<history, had>> /\ KeepersRest

\* A missing or disabled channel fails without a message, a test ends with it.
\* Otherwise the message goes out; a failure may come after it arrived.
SendMessage(s) ==
  LET w == sender[s]
      c == w.list[w.at]
      row == RowFor(w, c)
      up == row # NoChannel /\ row.on
      found == [w EXCEPT !.row = row, !.of = c, !.step = "log", !.ok = FALSE]
      sent == [by |-> s, at |-> w.at, url |-> row.url]
  IN  /\ w.step = "find"
      /\ \/ /\ ~up
            /\ SenderIs(s, IF w.test THEN [w EXCEPT !.step = "refused"] ELSE found)
            /\ UNCHANGED delivered
         \/ up /\ SenderIs(s, found) /\ delivered' \in {delivered, delivered \cup {sent}}
         \/ up /\ SenderIs(s, [found EXCEPT !.ok = TRUE]) /\ delivered' = delivered \cup {sent}
      /\ UNCHANGED <<history, had>> /\ KeepersRest

\* _append_log commits one entry; after the last the request answers.
AppendLog(s) ==
  LET w == sender[s]
  IN  /\ w.step = "log"
      /\ history' = Append(history, [by |-> s, at |-> w.at, ok |-> w.ok])
      /\ SenderIs(s, IF w.at < Len(w.list)
                     THEN [w EXCEPT !.at = @ + 1, !.step = "find", !.ok = FALSE]
                     ELSE [w EXCEPT !.step = "done", !.row = NoChannel, !.of = NoChannel, !.ok = FALSE])
      /\ UNCHANGED <<delivered, had>> /\ KeepersRest

\* The database or the process fails.
SenderDies(s) ==
  /\ Running(s) /\ SenderIs(s, [sender[s] EXCEPT !.step = "refused", !.row = NoChannel,
                                                   !.of = NoChannel, !.ok = FALSE])
  /\ UNCHANGED <<history, delivered, had>> /\ KeepersRest

-----------------------------------------------------------------------------
(* Channels.                                                                *)

\* A channel changes under senders that are under way.
SetChannel(c, row) ==
  /\ channel' = [channel EXCEPT ![c] = row]
  /\ had' = [s \in Senders |-> IF Running(s) /\ row \in NoticeRow /\ row.on
                               THEN had[s] \cup {<<c, row.url>>} ELSE had[s]]

\* A request to change channel c into want.  An update or a deletion reads the row;
\* an address that Apprise does not know has been refused.
AskChannel(k, op, c, want) ==
  LET w == [ResetKeeper EXCEPT !.step = "write", !.op = op, !.on = c, !.want = want,
            !.row = IF HasRow(c) THEN channel[c] ELSE NoChannel]
  IN  /\ keeper[k].step = "new"
      /\ KeeperIs(k, IF op # "create" /\ ~HasRow(c) THEN [w EXCEPT !.step = "refused"] ELSE w)
      /\ UNCHANGED <<channel, page, had>> /\ SendersRest

CreateChannel(k) ==
  LET w == keeper[k]
  IN  /\ w.step = "write" /\ w.op = "create"
      /\ SetChannel(w.on, w.want) /\ KeeperIs(k, [w EXCEPT !.step = "show"])
      /\ UNCHANGED page /\ SendersRest

\* What differs from the row that was read is written, and fails without a row.
Merged(now, w) ==
  [url |-> IF w.want.url # w.row.url THEN w.want.url ELSE now.url,
   on |-> IF w.want.on # w.row.on THEN w.want.on ELSE now.on]

UpdateChannel(k) ==
  LET w == keeper[k]
      c == w.on
  IN  /\ w.step = "write" /\ w.op = "update"
      /\ IF HasRow(c)
         THEN SetChannel(c, Merged(channel[c], w)) /\ KeeperIs(k, [w EXCEPT !.step = "show"])
         ELSE /\ UNCHANGED <<channel, had>>
              /\ KeeperIs(k, [w EXCEPT !.step = IF w.want = w.row THEN "show" ELSE "refused"])
      /\ UNCHANGED page /\ SendersRest

\* A row that is gone already is deleted without complaint.
DeleteChannel(k) ==
  LET w == keeper[k]
  IN  /\ w.step = "write" /\ w.op = "delete"
      /\ SetChannel(w.on, GoneChannel) /\ KeeperIs(k, [w EXCEPT !.step = "done"])
      /\ UNCHANGED page /\ SendersRest

KeeperFails(k) ==
  /\ keeper[k].step = "write" /\ KeeperIs(k, [keeper[k] EXCEPT !.step = "refused"])
  /\ UNCHANGED <<channel, page, had>> /\ SendersRest

\* db.refresh after the commit; the answer fails when the row is gone by then.
ShowChannel(k) ==
  LET w == keeper[k]
  IN  /\ w.step = "show"
      /\ KeeperIs(k, [w EXCEPT !.step = IF HasRow(w.on) THEN "done" ELSE "refused"])
      /\ UNCHANGED <<channel, page, had>> /\ SendersRest

-----------------------------------------------------------------------------
(* The first page of the history, in two reads.                             *)

CountLogs(k) ==
  /\ keeper[k].step = "new"
  /\ KeeperIs(k, [ResetKeeper EXCEPT !.step = "page", !.op = "logs", !.count = Len(history)])
  /\ UNCHANGED <<channel, page, had>> /\ SendersRest

PageLogs(k) ==
  LET n == Len(history)
      size == IF n < PageSize THEN n ELSE PageSize
  IN  /\ keeper[k].step = "page"
      /\ page' = [page EXCEPT ![k] = [i \in 1..size |-> history[n + 1 - i]]]
      /\ keeper' = [keeper EXCEPT ![k].step = "done"]
      /\ UNCHANGED <<channel, had>> /\ SendersRest

Wanted(op) == IF op = "delete" THEN {NoChannel} ELSE NoticeRow

NotifyNext ==
  \/ \E s \in Senders :
       \/ \E list \in Asked, test \in BOOLEAN : AskToSend(s, list, test)
       \/ SendMessage(s) \/ AppendLog(s) \/ SenderDies(s)
  \/ \E k \in Keepers :
       \/ \E c \in Channels :
            \/ \E op \in {"update", "delete"}, want \in NoticeRow \cup {NoChannel} :
                 want \in Wanted(op) /\ AskChannel(k, op, c, want)
            \/ channel[c] = NoChannel /\ (\A q \in Keepers : keeper[q].on # c)
               /\ \E want \in NoticeRow : AskChannel(k, "create", c, want)
       \/ CreateChannel(k) \/ UpdateChannel(k) \/ DeleteChannel(k) \/ ShowChannel(k)
       \/ KeeperFails(k)
       \/ CountLogs(k) \/ PageLogs(k)

NotifySpec == NotifyInit /\ [][NotifyNext]_notifyVars

-----------------------------------------------------------------------------
(* Properties.                                                              *)

EntriesOf(s) == {i \in DOMAIN history : history[i].by = s}
Arrived(s) == {d \in delivered : d.by = s}

\* The history has the entries of each request in the order of its list, one
\* for each channel when it answered; what it calls a success has arrived, and
\* at most one message of a request that died arrived without an entry.
HistoryAccounts ==
  \A s \in Senders : \E n \in 0..Len(sender[s].list) :
    /\ {history[i].at : i \in EntriesOf(s)} = 1..n
    /\ \A i, j \in EntriesOf(s) : i < j => history[i].at < history[j].at
    /\ sender[s].step = "done" => n = Len(sender[s].list)
    /\ \A i \in EntriesOf(s) : history[i].ok => \E d \in Arrived(s) : d.at = history[i].at
    /\ \A d \in Arrived(s) : d.at <= n + 1
    /\ \A d, e \in Arrived(s) : d.at = e.at => d = e

\* A message goes only where the channel pointed, enabled, at some time since
\* the request began.
SentWhereEnabled ==
  \A d \in delivered : <<sender[d.by].list[d.at], d.url>> \in had[d.by]

\* A page shows what was counted at least, as far as it has room, newest first.
PagesFull ==
  \A k \in Keepers : keeper[k].step = "done" /\ keeper[k].op = "logs" =>
    /\ Len(page[k]) >= (IF keeper[k].count < PageSize THEN keeper[k].count ELSE PageSize)
    /\ \A i \in 1..Len(page[k]) - 1 : page[k][i].by = page[k][i + 1].by =>
         page[k][i].at > page[k][i + 1].at

NotifiedAsLogged == HistoryAccounts /\ SentWhereEnabled /\ PagesFull

=============================================================================
