------------------------------ MODULE MCServices ------------------------------
(* Small instances of what a pipeline runs in, calls, or leaves behind: the pool and its      *)
(* counters, the MCP client, the sandbox, the event stream and its page, the chat, the        *)
(* retrieval loop, the registry of repositories, the index of documents, the memory, the       *)
(* evidence for a promotion, and the benchmark.  They share no variable, so a behaviour is one *)
(* of a single component, the one in focus, while the others stay where they begin.            *)
EXTENDS PipelineExecutor, McpClient, SandboxFiles, EventStream, ChatTurn, AgenticRetrieval,
        RepositoryRegistry, KnowledgeIndex, AgentMemory, PlaybookPromotion, QaBenchmark

CONSTANTS j1, j2, j3, c1, c2, q1, n1

ThreeJobs == {j1, j2, j3}
TwoCalls == {c1, c2}

VARIABLE focus

Components == {"pool", "mcp", "box", "stream", "chat", "retrieval", "registry", "index",
               "memory", "promotion", "benchmark"}

servicesVars == <<focus, vars, mcpVars, boxVars, streamVars, chatVars, ccVars, regVars,
                  indexVars, memVars, prVars, qaVars>>

(* A component that is not in focus begins in one state; and one name is like the other, so  *)
(* that the first request may as well be for a given one.                                      *)
ServicesInit ==
    /\ focus \in Components
    /\ focus # "registry" =>
           regDo = [r \in Requests |-> [kind |-> "upload", name |-> n1]]
    /\ focus # "benchmark" => qaMode = "rule"
    /\ Init /\ McpInit /\ BoxInit /\ StreamInit /\ ChatInit /\ CcInit /\ RegInit
    /\ regDo[q1].name = n1
    /\ IndexInit /\ MemInit /\ PrInit /\ QaInit

(* A component that is not in focus stays where it is. *)
OthersStay ==
    /\ IF focus = "pool" THEN TRUE ELSE UNCHANGED vars
    /\ IF focus = "mcp" THEN TRUE ELSE UNCHANGED mcpVars
    /\ IF focus = "box" THEN TRUE ELSE UNCHANGED boxVars
    /\ IF focus = "stream" THEN TRUE ELSE UNCHANGED streamVars
    /\ IF focus = "chat" THEN TRUE ELSE UNCHANGED chatVars
    /\ IF focus = "retrieval" THEN TRUE ELSE UNCHANGED ccVars
    /\ IF focus = "registry" THEN TRUE ELSE UNCHANGED regVars
    /\ IF focus = "index" THEN TRUE ELSE UNCHANGED indexVars
    /\ IF focus = "memory" THEN TRUE ELSE UNCHANGED memVars
    /\ IF focus = "promotion" THEN TRUE ELSE UNCHANGED prVars
    /\ IF focus = "benchmark" THEN TRUE ELSE UNCHANGED qaVars

ServicesNext ==
    /\ UNCHANGED focus /\ OthersStay
    /\ \/ focus = "pool" /\ Next
       \/ focus = "mcp" /\ McpNext
       \/ focus = "box" /\ BoxNext
       \/ focus = "stream" /\ StreamNext
       \/ focus = "chat" /\ ChatNext
       \/ focus = "retrieval" /\ CcNext
       \/ focus = "registry" /\ RegNext
       \/ focus = "index" /\ IndexNext
       \/ focus = "memory" /\ MemNext
       \/ focus = "promotion" /\ PrStep
       \/ focus = "benchmark" /\ QaNext

(* What the components are assumed to go on doing while they are in focus.  Jobs, calls,     *)
(* messages and requests are finitely many and each takes finitely many steps, so that the    *)
(* steps of all of a component are fair together is enough.                                    *)
ServicesFairness ==
    /\ WF_vars(focus = "pool" /\ \E j \in Jobs : Going(j))
    /\ WF_mcpVars(focus = "mcp" /\ \E c \in McpCalls : McpCaller(c))
    /\ WF_streamVars(focus = "stream" /\ (Connect \/ ReadTask \/ ReadEvents \/ SendDone))
    /\ SF_streamVars(focus = "stream" /\ StreamTimeout)
    /\ WF_chatVars(focus = "chat" /\ \E s \in Sends : TurnSteps(s))
    /\ WF_ccVars(focus = "retrieval" /\ CcNext)
    /\ WF_regVars(focus = "registry" /\ \E r \in Requests : RegStep(r))
    /\ WF_qaVars(focus = "benchmark" /\ QaRuns)

ServicesSpec == ServicesInit /\ [][ServicesNext]_servicesVars /\ ServicesFairness

-----------------------------------------------------------------------------
(* Properties of several components, a behaviour being one of the component in focus. *)

(* Every component keeps its types. *)
ServicesTypeOK ==
    /\ TypeOK /\ McpTypeOK /\ BoxTypeOK /\ StreamTypeOK /\ ChatTypeOK /\ CcTypeOK /\ RegTypeOK
    /\ IndexTypeOK /\ MemTypeOK /\ PrTypeOK /\ QaTypeOK

(* A search, agentic (services/cc_agent_loop.py) or of the index (services/knowledge.py), finds *)
(* what is there, in the source it is asked about, and in time.                                  *)
SearchesFind ==
    /\ EveryDocumentIsFound /\ LagIsFound /\ ScopedResults
    /\ ServedIsFound /\ OvershootIsBounded

(* What is learned comes from work that was done: memories are promoted with their task         *)
(* (services/memory.py), and evidence for a playbook is counted by somebody, and is not that of  *)
(* blocked drafts (services/playbook_promotion.py).                                              *)
LessonsAreEarned == PromotedWhenDone /\ LastWriterSeesAll /\ BlockedIsNoEvidence

(* What no step takes back: nothing is sent after stop (services/mcp_client.py), a resumed     *)
(* sandbox is its snapshot (services/sandbox.py), the cursor of a stream passes over late events *)
(* alone (api/tasks.py), a request that can read the file leaves the records of other names as   *)
(* they are (services/repository_registry.py), and a memory in use stays so                       *)
(* (services/memory.py).                                                                           *)
NothingIsTakenBack == McpStopIsFinal /\ ResumeRestores /\ SkipsOnlyLate /\ OthersAreKept /\ SettledStays

(* What the component in focus has to do comes to its end: an accepted job is run, a call of    *)
(* MCP returns or raises, a stream is closed, a message answered, a search served or handed to   *)
(* the index, a request for a repository answered and a benchmark over.  Jobs and calls are      *)
(* alike, so one stands for all.                                                                  *)
Over ==
    CASE focus = "pool" -> JobIsOver(j1)
      [] focus = "mcp" -> McpCallIsOver(c1)
      [] focus = "stream" -> StreamIsOver
      [] focus = "chat" -> MessageIsOver
      [] focus = "retrieval" -> RetrievalIsOver
      [] focus = "registry" -> RequestsAreOver
      [] focus = "benchmark" -> RunIsOver
      [] OTHER -> TRUE
ServicesEnd == []<>Over
=============================================================================
