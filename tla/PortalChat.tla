------------------------------ MODULE PortalChat ----------------------------
(***************************************************************************)
(* web-portal's /api/chat: each chat is a generator that runs in a thread  *)
(* between two yields and waits at a yield until the event loop has sent   *)
(* the event and resumes it.  The LLM may call tools for some rounds; when *)
(* it fails the chat falls back to search and lineage cards.  The async    *)
(* handlers (feedback, glossary, drawn lineage) write to the database on   *)
(* the event loop itself, from the same connection pool.                   *)
(***************************************************************************)
EXTENDS Integers, Sequences, FiniteSets

CONSTANTS
  Chats, Writes,   \* requests to /api/chat, requests to the async handlers
  NoWrite,         \* loop, when no handler keeps it
  PoolSize,        \* DB_POOL_SIZE of server.repo's pool
  LlmEnabled,      \* LLM_BASE_URL is set
  MaxRounds,       \* LLM_MAX_TOOL_ROUNDS
  MaxTools,        \* bound: tool calls of one LLM answer
  Faults           \* bound: failures of the LLM and of statements

ASSUME PortalAssumption ==
  /\ Chats \cap Writes = {} /\ NoWrite \notin Writes
  /\ PoolSize \in Nat \ {0} /\ LlmEnabled \in BOOLEAN
  /\ MaxRounds \in Nat /\ MaxTools \in Nat \ {0} /\ Faults \in Nat

VARIABLES
  chat,         \* the generators: where the code is, the event it waits with, ...
  shown,        \* the events each client has received
  ran,          \* history: the tools each chat called, returned or not
  pool,         \* the chats that hold a connection
  loop,         \* the write that keeps the event loop, or NoWrite
  written,      \* the writes that are done
  query_audit,  \* rows of query_audit
  faults        \* failures so far

vars == <<chat, shown, ran, pool, loop, written, query_audit, faults>>

Events == {"meta", "delta", "tool", "notice", "card", "error", "done"}
Ended == {"new", "end", "broken", "closed"}

(* round and tools count in the tool loop; cards are those not yet yielded *)
TypeOK ==
  /\ \A c \in Chats :
       /\ chat[c].at \in Ended \cup {"begin", "llm", "tools", "calling", "connect",
                                    "search", "lineage", "cards", "audit"}
       /\ chat[c].out \in Events \cup {"nothing"}
       /\ chat[c].degraded \in BOOLEAN /\ chat[c].status \in {"ok", "error"}
       /\ chat[c].round \in 0..MaxRounds + 1
       /\ chat[c].tools \in 0..MaxTools /\ chat[c].cards \in 0..2
  /\ shown \in [Chats -> SUBSET Events]
  /\ pool \subseteq Chats /\ Cardinality(pool) <= PoolSize
  /\ loop \in Writes \cup {NoWrite} /\ written \subseteq Writes
  /\ faults \in 0..Faults

Init ==
  /\ chat = [c \in Chats |->
                [at |-> "new", out |-> "nothing", degraded |-> ~LlmEnabled, status |-> "ok",
                 round |-> 0, tools |-> 0, cards |-> 0, trace |-> <<>>]]
  /\ shown = [c \in Chats |-> {}] /\ ran = [c \in Chats |-> <<>>]
  /\ pool = {} /\ loop = NoWrite /\ written = {} /\ query_audit = {} /\ faults = 0

Become(c, record) == chat' = [chat EXCEPT ![c] = record]
Running(c, p) == chat[c].at = p /\ chat[c].out = "nothing"
Fault == faults < Faults /\ faults' = faults + 1
FreeConnection == Cardinality(pool) < PoolSize
Called(c, tool) == ran' = [ran EXCEPT ![c] = Append(@, tool)]
Entry(tool, ok) == [tool |-> tool, ok |-> ok]
elsewhere == <<shown, loop, written, query_audit>>

-----------------------------------------------------------------------------
(* The event loop and the clients. *)

Open(c) ==
  /\ chat[c].at = "new" /\ loop = NoWrite
  /\ Become(c, [chat[c] EXCEPT !.at = "begin"])
  /\ UNCHANGED <<elsewhere, ran, pool, faults>>

Send(c) ==
  /\ chat[c].out # "nothing" /\ loop = NoWrite
  /\ shown' = [shown EXCEPT ![c] = @ \cup {chat[c].out}]
  /\ Become(c, [chat[c] EXCEPT !.out = "nothing"])
  /\ UNCHANGED <<ran, pool, loop, written, query_audit, faults>>

(* The client is gone: the generator is closed at its yield, where only    *)
(* finally blocks still run.                                               *)
Close(c) ==
  /\ chat[c].out # "nothing" /\ loop = NoWrite
  /\ Become(c, [chat[c] EXCEPT !.at = "closed", !.out = "nothing"])
  /\ pool' = pool \ {c}
  /\ UNCHANGED <<elsewhere, ran, faults>>

(* An async handler waits for a connection without leaving the loop.       *)
StartWrite(w) ==
  /\ loop = NoWrite /\ w \notin written
  /\ loop' = w
  /\ UNCHANGED <<chat, shown, ran, pool, written, query_audit, faults>>

EndWrite(w) ==
  /\ loop = w /\ FreeConnection
  /\ loop' = NoWrite /\ written' = written \cup {w}
  /\ UNCHANGED <<chat, shown, ran, pool, query_audit, faults>>

-----------------------------------------------------------------------------
(* gen and llm.run_conversation *)

Begin(c) ==
  /\ Running(c, "begin")
  /\ Become(c, [chat[c] EXCEPT !.out = "meta",
                               !.at = IF chat[c].degraded THEN "connect" ELSE "llm"])
  /\ UNCHANGED <<elsewhere, ran, pool, faults>>

(* _stream_completion: pieces of text, then tool calls or none.            *)
Delta(c) ==
  /\ Running(c, "llm") /\ "delta" \notin shown[c]
  /\ Become(c, [chat[c] EXCEPT !.out = "delta"])
  /\ UNCHANGED <<elsewhere, ran, pool, faults>>

EndStream(c) ==
  /\ Running(c, "llm")
  /\ \/ Become(c, [chat[c] EXCEPT !.at = "audit"])
     \/ \E n \in 1..MaxTools : Become(c, [chat[c] EXCEPT !.at = "tools", !.tools = n])
  /\ UNCHANGED <<elsewhere, ran, pool, faults>>

(* Mutant: cards are only for chats that began without the LLM. *)
LlmFailsToAudit(c) ==
  /\ Running(c, "llm") /\ Fault
  /\ Become(c, [chat[c] EXCEPT !.degraded = TRUE, !.out = "notice", !.at = "audit"])
  /\ UNCHANGED <<elsewhere, ran, pool>>

(* Any exception of run_conversation, also in the middle of an answer.     *)
LlmFails(c) ==
  /\ Running(c, "llm") /\ Fault
  /\ Become(c, [chat[c] EXCEPT !.degraded = TRUE, !.out = "notice", !.at = "connect"])
  /\ UNCHANGED <<elsewhere, ran, pool>>

CallTool(c) ==
  /\ Running(c, "tools") /\ chat[c].tools > 0 /\ FreeConnection
  /\ pool' = pool \cup {c} /\ Called(c, "tool")
  /\ Become(c, [chat[c] EXCEPT !.at = "calling"])
  /\ UNCHANGED <<elsewhere, faults>>

ToolEnds(c, entries) ==
  /\ pool' = pool \ {c}
  /\ Become(c, [chat[c] EXCEPT !.trace = @ \o entries, !.out = "tool", !.at = "tools",
                               !.tools = @ - 1])
  /\ UNCHANGED <<elsewhere, ran>>

(* Mutant: a tool that raises is left out of the trace. *)
ToolReturnsUntraced(c) ==
  /\ Running(c, "calling")
  /\ \/ \E ok \in BOOLEAN : ToolEnds(c, <<Entry("tool", ok)>>) /\ UNCHANGED faults
     \/ ToolEnds(c, <<>>) /\ Fault

(* call_tool gives the connection back, then the call is traced, ok or not *)
ToolReturns(c) ==
  /\ Running(c, "calling")
  /\ \/ \E ok \in BOOLEAN : ToolEnds(c, <<Entry("tool", ok)>>) /\ UNCHANGED faults
     \/ ToolEnds(c, <<Entry("tool", FALSE)>>) /\ Fault

(* Mutant: at the bound the conversation starts over. *)
EndRoundStartsOver(c) ==
  /\ Running(c, "tools") /\ chat[c].tools = 0
  /\ IF chat[c].round < MaxRounds
     THEN Become(c, [chat[c] EXCEPT !.round = @ + 1, !.at = "llm"]) /\ UNCHANGED ran
     ELSE /\ Become(c, [chat[c] EXCEPT !.round = 0, !.at = "llm", !.trace = <<>>])
          /\ ran' = [ran EXCEPT ![c] = <<>>]
  /\ UNCHANGED <<elsewhere, pool, faults>>

(* Mutant: one round more than asked for. *)
EndRoundLate(c) ==
  /\ Running(c, "tools") /\ chat[c].tools = 0
  /\ IF chat[c].round <= MaxRounds
     THEN Become(c, [chat[c] EXCEPT !.round = @ + 1, !.at = "llm"])
     ELSE Become(c, [chat[c] EXCEPT !.round = @ + 1, !.at = "audit", !.out = "delta"])
  /\ UNCHANGED <<elsewhere, ran, pool, faults>>

(* range(LLM_MAX_TOOL_ROUNDS + 1): so many rounds may call tools.          *)
EndRound(c) ==
  /\ Running(c, "tools") /\ chat[c].tools = 0
  /\ IF chat[c].round < MaxRounds
     THEN Become(c, [chat[c] EXCEPT !.round = @ + 1, !.at = "llm"])
     ELSE Become(c, [chat[c] EXCEPT !.round = @ + 1, !.at = "audit", !.out = "delta"])
  /\ UNCHANGED <<elsewhere, ran, pool, faults>>

-----------------------------------------------------------------------------
(* cards.degraded_answer; the connection is kept until the last card.      *)

TakeConnection(c) ==
  /\ Running(c, "connect") /\ FreeConnection
  /\ pool' = pool \cup {c}
  /\ Become(c, [chat[c] EXCEPT !.at = "search"])
  /\ UNCHANGED <<elsewhere, ran, faults>>

(* repo.connect fails: no statement was run and the whole trace stands.    *)
ConnectFails(c) ==
  /\ Running(c, "connect") /\ Fault
  /\ Become(c, [chat[c] EXCEPT !.status = "error", !.out = "error", !.at = "audit"])
  /\ UNCHANGED <<elsewhere, ran, pool>>

(* Nothing found, or ambiguous: two cards; an anchor without table: one.   *)
SearchTerm(c) ==
  LET traced == [chat[c] EXCEPT !.trace = Append(@, Entry("search_term", TRUE))]
  IN  /\ Running(c, "search") /\ Called(c, "search_term")
      /\ \/ \E n \in 1..2 : Become(c, [traced EXCEPT !.at = "cards", !.cards = n])
         \/ Become(c, [traced EXCEPT !.at = "lineage"])
      /\ UNCHANGED <<elsewhere, pool, faults>>

GetLineage(c) ==
  /\ Running(c, "lineage") /\ Called(c, "get_lineage")
  /\ \E ok \in BOOLEAN :
       Become(c, [chat[c] EXCEPT !.trace = Append(@, Entry("get_lineage", ok)),
                                 !.at = "cards", !.cards = 2])
  /\ UNCHANGED <<elsewhere, pool, faults>>

Broken(c) == /\ \/ Running(c, "search") /\ Called(c, "search_term")
                \/ Running(c, "lineage") /\ Called(c, "get_lineage")
             /\ Fault
             /\ Become(c, [chat[c] EXCEPT !.status = "error", !.out = "error", !.at = "audit"])

(* Mutant: the connection is closed after the cards, not in a finally. *)
StatementFailsUnclosed(c) == Broken(c) /\ UNCHANGED <<elsewhere, pool>>

(* _timed traces a call only when it returns. *)
StatementFails(c) == Broken(c) /\ pool' = pool \ {c} /\ UNCHANGED elsewhere

YieldCard(c) ==
  /\ Running(c, "cards") /\ chat[c].cards > 0
  /\ Become(c, [chat[c] EXCEPT !.cards = @ - 1, !.out = "card"])
  /\ UNCHANGED <<elsewhere, ran, pool, faults>>

EndCards(c) ==
  /\ Running(c, "cards") /\ chat[c].cards = 0
  /\ pool' = pool \ {c}
  /\ Become(c, [chat[c] EXCEPT !.at = "audit"])
  /\ UNCHANGED <<elsewhere, ran, faults>>

-----------------------------------------------------------------------------
(* store.write_audit; its exception breaks the stream off. *)

WriteAudit(c) ==
  /\ Running(c, "audit") /\ FreeConnection
  /\ query_audit' = query_audit \cup
       {[chat |-> c, trace |-> chat[c].trace, status |-> chat[c].status]}
  /\ Become(c, [chat[c] EXCEPT !.out = "done", !.at = "end"])
  /\ UNCHANGED <<shown, ran, pool, loop, written, faults>>

AuditFails(c) ==
  /\ Running(c, "audit") /\ Fault
  /\ Become(c, [chat[c] EXCEPT !.at = "broken"])
  /\ UNCHANGED <<elsewhere, ran, pool>>

Thread(c) == \/ Begin(c) \/ Delta(c) \/ EndStream(c) \/ LlmFails(c)
             \/ CallTool(c) \/ ToolReturns(c) \/ EndRound(c)
             \/ TakeConnection(c) \/ ConnectFails(c) \/ SearchTerm(c) \/ GetLineage(c)
             \/ StatementFails(c) \/ YieldCard(c) \/ EndCards(c) \/ WriteAudit(c) \/ AuditFails(c)

Server == \/ \E c \in Chats : Send(c) \/ Thread(c)
          \/ \E w \in Writes : EndWrite(w)

Next == \/ Server
        \/ \E c \in Chats : Open(c) \/ Close(c)
        \/ \E w \in Writes : StartWrite(w)

(* The loop, some thread or the LLM goes on as long as one can.            *)
Spec == Init /\ [][Next]_vars /\ WF_vars(Server)

-----------------------------------------------------------------------------
RowsOf(c) == { row \in query_audit : row.chat = c }
Tools(s) == [i \in DOMAIN s |-> s[i].tool]

(* The row of a chat names every call that was made, in order, also those  *)
(* of rounds before the LLM failed.  Missing is only the search or the     *)
(* lineage of a card that broke the chat off, and then the row says error  *)
(* (api_chat, _timed).                                                     *)
AuditNamesEveryCall ==
  \A row \in query_audit :
    LET calls == ran[row.chat]
        n == Len(calls)
    IN  Tools(row.trace) = IF row.status = "error" /\ n > 0 /\ calls[n] # "tool"
                           THEN SubSeq(calls, 1, n - 1) ELSE calls

(* What the code does: a chat has its one row before it offers done and    *)
(* none before that.  Who received done from a chat whose LLM failed was   *)
(* shown a card or an error first, and an error exactly when the row says  *)
(* so; what an LLM that answers says is not asked.  A chat has no row for  *)
(* good when the insert failed, or when its client closed it before the    *)
(* insert, although app.py:4 promises a row for every chat.                *)
DoneIsAudited ==
  \A c \in Chats :
    /\ chat[c].at = "end" => Cardinality(RowsOf(c)) = 1
    /\ chat[c].at \notin {"end", "closed"} => RowsOf(c) = {}
    /\ "done" \in shown[c] =>
         /\ chat[c].at = "end"
         /\ chat[c].degraded => shown[c] \cap {"card", "error"} # {}
         /\ "error" \in shown[c] <=> \E row \in RowsOf(c) : row.status = "error"

(* A connection is held only between taking it and giving it back: not     *)
(* while the LLM is asked, not while the audit row is written, and by      *)
(* nobody once the chat is over, however it ended (call_tool, gen).        *)
ConnectionsComeBack ==
  \A c \in pool : chat[c].at \in {"calling", "search", "lineage", "cards"}

(* Every chat and every write comes to its end as long as there are more   *)
(* connections than chats: a failing LLM, failing statements and clients   *)
(* that leave do not keep it.                                              *)
EverythingEnds == []<>(loop = NoWrite /\ \A c \in Chats : chat[c].at \in Ended)
=============================================================================
