--------------------------- MODULE Conversations ---------------------------
(***************************************************************************)
(* Conversations with the assistant: the company's chat on the web and in  *)
(* Telegram (handler/chat_handler.go, bot/chat.go, service/chat_service.go)*)
(* and the agents' threads (agent/runtime.go, tool_executor.go), which     *)
(* share one table of messages.  Answering calls the model, then the tools *)
(* it asks for, then the model again; what is said is stored around these  *)
(* calls and not with them.                                                *)
(***************************************************************************)
EXTENDS Requests

CONSTANTS
    Entities,    \* what an agent may be asked about; 0 is nothing in particular
    HistoryLimit \* messages of a conversation that the model is shown

ASSUME ConversationsAssumption == Entities \subseteq Nat /\ HistoryLimit \in Nat

ConversationParts == {"chats", "threads"}

(* The tables.  messages: [role, request, thread (0: the chat), expenses], in
   the order they were stored; threads: [entity, title], the latest last;
   sessions: their statuses, all of one period; expenses: [session, request];
   logged, plans: what agents did and proposed, by request.  Remembered
   besides: the requests that have `begun`, those that ended `untold`, because
   the model failed or the client left, and whether a statement whose error is
   ignored `failed`. *)
MessageRows ==
    [role : {"user", "assistant"}, request : Nat, thread : Nat, expenses : SUBSET Nat]
ThreadRows == [entity : Nat, title : Nat]
ExpenseRows == [session : Nat, request : Nat]
SessionStatuses == {"active", "in_progress", "completed"}

ConversationTables ==
    [messages : Seq(MessageRows), threads : Seq(ThreadRows), sessions : Seq(SessionStatuses),
     expenses : Seq(ExpenseRows), logged : Seq(Nat), plans : Seq(Nat), begun : Nat,
     untold : SUBSET Nat, failed : BOOLEAN]

-----------------------------------------------------------------------------
(* Queries. *)
CreateChatMessage(db, message) == [db EXCEPT !.messages = Append(@, message)]

CreateAgentMessage(db, message) == [db EXCEPT !.messages = Append(@, message)]

Latest(listed, n) == {listed[i] : i \in {j \in DOMAIN listed : j > Len(listed) - n}}

(* All of the company's, whatever thread they are of. *)
ListChatMessagesByCompany(db, limit) == Latest(db.messages, limit)

(* The oldest of the thread. *)
ListMessagesByThread(db, thread, limit) ==
    LET said == {i \in DOMAIN db.messages : db.messages[i].thread = thread}
    IN  {db.messages[i] : i \in {j \in said : Cardinality({k \in said : k <= j}) <= limit}}

(* Mutant: only sessions that nobody works on yet. *)
GetNewSessionByCompanyAndPeriod(db) == {s \in DOMAIN db.sessions : db.sessions[s] = "active"}

(* The newest one, or none. *)
ActiveSessions(db) == {s \in DOMAIN db.sessions : db.sessions[s] \in {"active", "in_progress"}}

GetActiveSessionByCompanyAndPeriod(db) ==
    IF ActiveSessions(db) = {} THEN {} ELSE {Max(ActiveSessions(db))}

CreateReconciliationSession(db) == [db EXCEPT !.sessions = Append(@, "active")]

CreateTransaction(db, expense) == [db EXCEPT !.expenses = Append(@, expense)]

(* Nothing in particular is stored as NULL and looked for as the zero UUID. *)
FindAgentThread(db, entity) ==
    LET same == {t \in DOMAIN db.threads : entity # 0 /\ db.threads[t].entity = entity}
    IN  IF same = {} THEN {} ELSE {Max(same)}

CreateAgentThread(db, entity) == [db EXCEPT !.threads = Append(@, [entity |-> entity, title |-> 0])]

UpdateAgentThread(db, thread, title) == [db EXCEPT !.threads[thread].title = title]

ListAgentThreads(db) == Reverse([t \in DOMAIN db.threads |-> t])

CreateAgentActionLog(db, request) == [db EXCEPT !.logged = Append(@, request)]

-----------------------------------------------------------------------------
MessageResponses == [Done |-> 200, Failed |-> 500]
StreamResponses == [Done |-> 200, Failed |-> 500]
AgentResponses == [Done |-> 200, Failed |-> 500]
HistoryResponses == [Done |-> 200]

(* A statement whose error is ignored; bound: one of them fails. *)
Fails == ~rows.failed /\ rows' = [rows EXCEPT !.failed = TRUE]
Tried(effect) == rows' = effect \/ Fails

Goes(c, step) == Continue(c, [calls[c] EXCEPT !.at = step])

(* What c stores: the role says whose words they are; an answer says what the
   tools have done. *)
Message(c, role) ==
    [role |-> role, request |-> calls[c].request, thread |-> calls[c].thread,
     expenses |-> IF role = "assistant" THEN calls[c].expenses ELSE {}]

SaveMessage(c, role) == Tried(CreateChatMessage(rows, Message(c, role)))

saveMessage(c, role) == Tried(CreateAgentMessage(rows, Message(c, role)))

(* The request ends without an answer that is stored. *)
Untold(c) == Store([rows EXCEPT !.untold = @ \cup {calls[c].request}])

NewRequest(op, step, via, thread) ==
    [op |-> op, at |-> step, via |-> via, request |-> rows.begun + 1, thread |-> thread,
     entity |-> 0, expenses |-> {}, session |-> 0, isNew |-> FALSE, shown |-> {}]

(* Whose turns the model is shown before the message it has to answer. *)
Turns(listed) == {m.request : m \in listed}

Begun == Store([rows EXCEPT !.begun = @ + 1])

-----------------------------------------------------------------------------
(* The company's chat.  The web stores both messages after the answer, the
   stream and the bot the user's before it. *)
Chat(c) ==
    /\ Free({"chats", "threads"}, c)
    /\ \E via \in {"message", "stream", "bot"} :
           /\ part = "chats" \/ via = "message"
           /\ Begun
           /\ LET call == NewRequest("chat", IF via = "message" THEN "model" ELSE "say", via, 0)
              IN  \E shown \in Found(Turns(ListChatMessagesByCompany(rows, HistoryLimit))) :
                      Begin(c, [call EXCEPT !.shown = shown])

ChatSays(c) == At(c, "chat", "say") /\ SaveMessage(c, "user") /\ Goes(c, "model")

(* The model answers, asks for the tool, or fails. *)
ChatModel(c) ==
    /\ At(c, "chat", "model")
    /\ \/ Reads /\ Goes(c, "answer")
       \/ Reads /\ Goes(c, "session")
       \/ Untold(c) /\ Answer(c, MessageResponses.Failed)

(* With the tool's result the model is called again, and may fail again. *)
ChatFollowUp(c) ==
    /\ At(c, "chat", "follow")
    /\ \/ Reads /\ Goes(c, "answer")
       \/ Untold(c) /\ Answer(c, StreamResponses.Failed)

ChatSaysLate(c) ==
    /\ At(c, "chat", "answer") /\ calls[c].via = "message"
    /\ SaveMessage(c, "user") /\ Goes(c, "late")

ChatAnswers(c) ==
    /\ At(c, "chat", "late") \/ (At(c, "chat", "answer") /\ calls[c].via # "message")
    /\ SaveMessage(c, "assistant") /\ Answer(c, MessageResponses.Done)

History(c) ==
    /\ Free({"chats"}, c) /\ Reads
    /\ ListChatMessagesByCompany(rows, HistoryLimit) # {}
    /\ AnswerAtOnce(c, "history", HistoryResponses.Done)

-----------------------------------------------------------------------------
(* The tool that records an expense, in a chat or, as it has not been migrated,
   in a thread: whatever error the lookup of the session ends with, a session is
   created, and one that cannot be created is looked up once more. *)
Recording(c) == calls[c].op \in {"chat", "agent"}

GetSession(c) ==
    LET found == GetActiveSessionByCompanyAndPeriod(rows)
        None == Continue(c, [calls[c] EXCEPT !.at = "create_session"])
    IN  /\ Recording(c) /\ calls[c].at = "session"
        /\ \/ /\ Reads
              /\ \/ found = {} /\ None
                 \/ \E s \in found :
                       Continue(c, [calls[c] EXCEPT !.at = "expense", !.session = s])
           \/ Fails /\ None

CreateSession(c) ==
    /\ Recording(c) /\ calls[c].at = "create_session"
    /\ \/ /\ Store(CreateReconciliationSession(rows))
          /\ Continue(c, [calls[c] EXCEPT !.at = "expense", !.session = Len(rows.sessions) + 1])
       \/ Reads /\ Goes(c, "retry_session")

RetrySession(c) ==
    LET found == GetActiveSessionByCompanyAndPeriod(rows)
    IN  /\ Recording(c) /\ calls[c].at = "retry_session" /\ Reads
        /\ \/ \E s \in found : Continue(c, [calls[c] EXCEPT !.at = "expense", !.session = s])
           \/ Goes(c, "follow")

RecordExpense(c) ==
    LET call == calls[c]
    IN  /\ Recording(c) /\ call.at = "expense"
        /\ \/ /\ Store(CreateTransaction(rows, [session |-> call.session,
                                                request |-> call.request]))
              /\ Continue(c, [call EXCEPT !.at = "follow",
                                          !.expenses = {Len(rows.expenses) + 1}])
           \/ Reads /\ Goes(c, "follow")

-----------------------------------------------------------------------------
(* A message to an agent: to a thread, or about an entity. *)
AgentStream(c) ==
    /\ Free({"threads"}, c) /\ Begun
    /\ \/ \E t \in DOMAIN rows.threads : Begin(c, NewRequest("agent", "history", "stream", t))
       \/ \E entity \in Entities :
             Begin(c, [NewRequest("agent", "thread", "stream", 0) EXCEPT !.entity = entity])

InThread(c, t, new) ==
    Continue(c, [calls[c] EXCEPT !.at = "history", !.thread = t, !.isNew = new, !.entity = 0])

(* Whatever error the lookup ends with, a thread is created. *)
ResolveThread(c) ==
    LET found == FindAgentThread(rows, calls[c].entity)
    IN  /\ At(c, "agent", "thread")
        /\ \/ Reads /\ \E t \in found : InThread(c, t, FALSE)
           \/ Reads /\ found = {} /\ Goes(c, "create_thread")
           \/ Fails /\ Goes(c, "create_thread")

ResolveCreates(c) ==
    /\ At(c, "agent", "create_thread")
    /\ \/ /\ Store(CreateAgentThread(rows, calls[c].entity))
          /\ InThread(c, Len(rows.threads) + 1, TRUE)
       \/ Untold(c) /\ Answer(c, AgentResponses.Failed)

AgentReads(c) ==
    /\ At(c, "agent", "history") /\ Reads
    /\ \E shown \in Found(Turns(ListMessagesByThread(rows, calls[c].thread, HistoryLimit))) :
           Continue(c, [calls[c] EXCEPT !.at = "say", !.shown = shown])

AgentSays(c) ==
    /\ At(c, "agent", "say") /\ saveMessage(c, "user")
    /\ Goes(c, IF calls[c].isNew THEN "title" ELSE "model")

(* A thread is named after the message that opened it. *)
AgentTitles(c) ==
    /\ At(c, "agent", "title")
    /\ Tried(UpdateAgentThread(rows, calls[c].thread, calls[c].request))
    /\ Goes(c, "model")

(* A tool of high risk is only proposed, and the follow-up says so. *)
AgentModel(c) ==
    /\ At(c, "agent", "model")
    /\ \/ Reads /\ Goes(c, "answer")
       \/ Reads /\ Goes(c, "session")
       \/ Store([rows EXCEPT !.plans = Append(@, calls[c].request)]) /\ Goes(c, "follow")
       \/ Untold(c) /\ Answer(c, AgentResponses.Failed)

(* Tools are logged, then the model is called again. *)
AgentFollowUp(c) ==
    /\ At(c, "agent", "follow")
    /\ Tried(CreateAgentActionLog(rows, calls[c].request)) /\ Goes(c, "logged")

(* A follow-up that fails is streamed as an error; a client that no longer
   reads blocks the goroutine when its channel is full, before it stores. *)
AgentStreams(c) ==
    /\ At(c, "agent", "logged")
    /\ \/ Reads /\ Goes(c, "answer")
       \/ Untold(c) /\ Answer(c, AgentResponses.Done)

AgentAnswers(c) ==
    /\ At(c, "agent", "answer")
    /\ saveMessage(c, "assistant") /\ Answer(c, AgentResponses.Done)

ListThreads(c) ==
    /\ Free({"threads"}, c) /\ Reads
    /\ ListAgentThreads(rows) # <<>>
    /\ AnswerAtOnce(c, "threads", AgentResponses.Done)

ThreadMessages(c) ==
    /\ Free({"threads"}, c) /\ Reads
    /\ \E t \in DOMAIN rows.threads :
           /\ ListMessagesByThread(rows, t, HistoryLimit) # {}
           /\ AnswerAtOnce(c, "thread", AgentResponses.Done)

ConversationsNext ==
    \E c \in Serving(ConversationParts) :
        \/ Chat(c) \/ ChatSays(c) \/ ChatModel(c) \/ ChatFollowUp(c) \/ ChatSaysLate(c)
        \/ ChatAnswers(c) \/ History(c)
        \/ GetSession(c) \/ CreateSession(c) \/ RetrySession(c) \/ RecordExpense(c)
        \/ AgentStream(c) \/ ResolveThread(c) \/ ResolveCreates(c) \/ AgentReads(c)
        \/ AgentSays(c) \/ AgentTitles(c) \/ AgentModel(c) \/ AgentFollowUp(c)
        \/ AgentStreams(c) \/ AgentAnswers(c) \/ ListThreads(c) \/ ThreadMessages(c)

-----------------------------------------------------------------------------
SavedIn(db, r, role) == {m \in DOMAIN db.messages : db.messages[m].request = r
                                                     /\ db.messages[m].role = role}
Saved(r, role) == SavedIn(rows, r, role)

(* Tables to begin with: what was said was answered at once, what was recorded
   was told, and each thread is named after its first message. *)
ConversationsStart(db) ==
    /\ db \in ConversationTables /\ ~db.failed
    /\ \A i \in DOMAIN db.messages : /\ db.messages[i].request \in 1..db.begun
                                     /\ db.messages[i].thread \in {0} \cup DOMAIN db.threads
    /\ \A r \in 1..db.begun :
         /\ \A role \in {"user", "assistant"} : \A i, j \in SavedIn(db, r, role) : i = j
         /\ \A u \in SavedIn(db, r, "user"), a \in SavedIn(db, r, "assistant") :
              a = u + 1 /\ db.messages[u].thread = db.messages[a].thread
    /\ \A e \in DOMAIN db.expenses :
         /\ db.expenses[e].session \in ActiveSessions(db)
         /\ \E m \in SavedIn(db, db.expenses[e].request, "assistant") :
               e \in db.messages[m].expenses
    /\ \A s, t \in ActiveSessions(db) : s = t
    /\ \A t, v \in DOMAIN db.threads :
         db.threads[t].entity = db.threads[v].entity => t = v \/ db.threads[t].entity = 0
    /\ \A t \in DOMAIN db.threads :
         \E i \in DOMAIN db.messages :
            /\ db.messages[i].thread = t /\ db.messages[i].request = db.threads[t].title
            /\ \A j \in DOMAIN db.messages : db.messages[j].thread = t => i <= j

ConversationsInit == part \in ConversationParts /\ ConversationsStart(rows) /\ RequestsInit

ConversationsSpec == ConversationsInit /\ [][ConversationsNext]_requestVars

(* Each request is stored as at most one message of either side, the user's
   first, both in one conversation, and the model is not shown as said before
   what it has to answer; with requests one at a time nothing of the
   conversation comes between the two (chat_handler.go, 46-59 and 84-119;
   bot/chat.go, 92-108; runtime.go, 88 to 243). *)
TurnsInOrder ==
    /\ \A c \in Callers : Open(c) => calls[c].request \notin calls[c].shown
    /\ \A r \in 1..rows.begun :
         /\ \A role \in {"user", "assistant"} : Cardinality(Saved(r, role)) <= 1
         /\ \A u \in Saved(r, "user"), a \in Saved(r, "assistant") :
              /\ u < a /\ rows.messages[u].thread = rows.messages[a].thread
              /\ Alone => \A m \in (u + 1)..(a - 1) :
                              rows.messages[m].thread # rows.messages[u].thread

(* An expense that a conversation recorded can be found in it: the answer says
   what was recorded, unless the request goes on, ended without an answer that
   is stored, or its answer could not be stored. *)
ExpensesTold ==
    \A e \in DOMAIN rows.expenses :
        LET r == rows.expenses[e].request
        IN  \/ \E m \in Saved(r, "assistant") : e \in rows.messages[m].expenses
            \/ \E c \in Callers : Open(c) /\ calls[c].request = r
            \/ r \in rows.untold \/ rows.failed

(* A period has one session that expenses go to, or as many as there are
   goroutines, since no index enforces it (chat_service.go, 1196-1231). *)
OneSession ==
    ~rows.failed =>
        LET used == {rows.expenses[e].session : e \in DOMAIN rows.expenses}
        IN  /\ Cardinality(used) <= (IF Alone THEN 1 ELSE Cardinality(Callers))
            /\ Alone => Cardinality(ActiveSessions(rows)) <= 1

(* An entity has one thread, or one per goroutine; and one at a time, a thread
   is named after the first message in it (runtime.go, 272-324 and 96).  A
   lookup of the thread that fails opens one more. *)
ThreadsKept ==
    LET Of(entity) == {t \in DOMAIN rows.threads : rows.threads[t].entity = entity}
    IN  ~rows.failed =>
        /\ \A entity \in Entities \ {0} :
              Cardinality(Of(entity)) <= (IF Alone THEN 1 ELSE Cardinality(Callers))
        /\ (Alone /\ \A c \in Callers : ~Open(c)) =>
              \A t \in DOMAIN rows.threads : \A m \in ListMessagesByThread(rows, t, 1) :
                  m.request = rows.threads[t].title

ConversationsSound ==
    part \in ConversationParts => TurnsInOrder /\ ExpensesTold /\ OneSession /\ ThreadsKept
=============================================================================
