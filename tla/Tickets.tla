-------------------------------- MODULE Tickets --------------------------------
(***************************************************************************)
(* From a ticket file to a graph, and the graph seen as tickets again: the *)
(* compiler (src/activations/orcha/ticket_compiler.rs), the builder        *)
(* (build_graph_from_definition, build_child_graph) and the project        *)
(* manager's view of the graph as it runs (pm/activation.rs).              *)
(*                                                                         *)
(* A line of a file is a record with a tag: a heading, one of the metadata *)
(* lines, a comment or prose.  A ticket's name is a tuple, so that the     *)
(* name of its validation extends it.                                      *)
(***************************************************************************)
EXTENDS Naturals, Sequences, SequencesExt, FiniteSets

CONSTANTS
    TicketName,
    TicketType,      \* type tags of headings, one of which may be unknown
    Body,            \* bodies of tickets: sequences of lines
    MaxTickets,
    MaxAsked         \* nodes of the graphs that pm is asked about

\* A comment says nothing.
Line == [tag : {"heading"}, name : Seq(STRING), type : STRING]
        \cup [tag : {"blocked_by"}, deps : Seq(Seq(STRING))]
        \cup [tag : {"validate", "prose", "comment"}]
ASSUME TicketsAssumption ==
    /\ MaxAsked \in Nat
    /\ TicketName \subseteq Seq(STRING) /\ TicketType \subseteq STRING
    /\ Body \subseteq Seq(Line)

VARIABLES
    file,            \* the lines that have been written
    lattice,         \* the nodes of the graph in the order of their creation, and its edges
    ticketMap,       \* orcha_ticket_maps: ticket name to node
    phase,           \* "write", "run", or "refused"
    query            \* a call of pm: the statuses it has read, by node, and those when it began

ticketVars == <<file, lattice, ticketMap, phase, query>>

\* What a call of pm has read is all that it knows; the statuses when it began are there
\* for the properties only.
NoQuery == [asked |-> FALSE, began |-> <<>>, told |-> <<>>]

Known == {"agent", "agent/synthesize", "prog", "review", "planner"}
Validation(name) == Append(name, "validate")
-----------------------------------------------------------------------------
(***************************************************************************)
(* The compiler.                                                           *)
(***************************************************************************)
\* Lines before the first heading are dropped, all others belong to the heading
\* above them.
Section(sections, line) ==
    IF line.tag = "heading" THEN Append(sections, [name |-> line.name, type |-> line.type, lines |-> <<>>])
    ELSE IF sections = <<>> THEN <<>>
    ELSE [sections EXCEPT ![Len(sections)].lines = Append(@, line)]

Sections(lines) ==
    LET read[k \in 0 .. Len(lines)] ==
          IF k = 0 THEN <<>> ELSE Section(read[k - 1], lines[k])
    IN  read[Len(lines)]

\* Of several lines with blockers the last one counts.
Has(section, tag) == \E line \in Range(section.lines) : line.tag = tag
Ticket(section) ==
    LET blocked == SelectLastInSeq(section.lines, LAMBDA line : line.tag = "blocked_by")
    IN  [name |-> section.name, type |-> section.type,
         deps |-> IF blocked = 0 THEN <<>> ELSE section.lines[blocked].deps,
         validate |-> Has(section, "validate"), body |-> Has(section, "prose")]

Tickets(lines) == LET s == Sections(lines) IN [i \in DOMAIN s |-> Ticket(s[i])]

\* The node that ends the work of a ticket, for the tickets blocked by it; of two
\* tickets of one name the later one counts.
Completion_Ticket(tickets, name) == name
Completion(tickets, name) ==
    LET t == SelectLastInSeq(tickets, LAMBDA u : u.name = name)
    IN  IF t # 0 /\ tickets[t].validate THEN Validation(name) ELSE name

NodesOf(t) == IF t.validate THEN <<t.name, Validation(t.name)>> ELSE <<t.name>>
EdgesOf(tickets, t) ==
    (IF t.validate THEN <<[from |-> t.name, to |-> Validation(t.name)]>> ELSE <<>>)
    \o [k \in DOMAIN t.deps |-> [from |-> Completion(tickets, t.deps[k]), to |-> t.name]]

Compiles(tickets) == \A i \in DOMAIN tickets : tickets[i].type \in Known /\ tickets[i].body
Nodes(tickets) == FlattenSeq([i \in DOMAIN tickets |-> NodesOf(tickets[i])])
Edges(tickets) == FlattenSeq([i \in DOMAIN tickets |-> EdgesOf(tickets, tickets[i])])
-----------------------------------------------------------------------------
(***************************************************************************)
(* The builder: every node is added, then every edge, by names.            *)
(***************************************************************************)
\* Of two nodes of one name the map keeps the later one.
IdMap(nodes) == [name \in Range(nodes) |-> SelectLastInSeq(nodes, LAMBDA n : n = name)]

Resolves(nodes, edges) == \A e \in Range(edges) : {e.from, e.to} \subseteq Range(nodes)

Graph(nodes, edges) ==
    LET id == IdMap(nodes)
    IN  [status |-> [n \in DOMAIN nodes |-> "pending"],
         edges |-> {<<id[e.from], id[e.to]>> : e \in Range(edges)}]

WriteTicket ==
    /\ phase = "write" /\ Len(Sections(file)) < MaxTickets
    /\ \E name \in TicketName, type \in TicketType, body \in Body :
          file' = file \o <<[tag |-> "heading", name |-> name, type |-> type]>> \o body
    /\ UNCHANGED <<lattice, ticketMap, phase, query>>

\* build_tickets and the methods that run tickets.  What was added before a name
\* turned out to be unknown stays in the database, with no map.
BuildTickets ==
    LET tickets == Tickets(file)
        nodes == Nodes(tickets)
        edges == Edges(tickets)
    IN  /\ phase = "write"
        /\ IF Compiles(tickets) /\ Resolves(nodes, edges)
           THEN /\ phase' = "run"
                /\ lattice' = Graph(nodes, edges)
                /\ ticketMap' = IdMap(nodes)
           ELSE phase' = "refused" /\ UNCHANGED <<lattice, ticketMap>>
        /\ UNCHANGED <<file, query>>
-----------------------------------------------------------------------------
(***************************************************************************)
(* The run of the graph, as Dataflow has it, and what pm says of it.       *)
(***************************************************************************)
Preds(n) == {m \in DOMAIN lattice.status : <<m, n>> \in lattice.edges}
InState(S) == {n \in DOMAIN lattice.status : lattice.status[n] \in S}
Become(n, status) == lattice' = [lattice EXCEPT !.status[n] = status]

RunTickets ==
    /\ phase = "run"
    /\ \E n \in DOMAIN lattice.status :
          \/ /\ lattice.status[n] = "pending"
             /\ Preds(n) \ {n} \subseteq InState({"complete", "failed"})
             /\ Become(n, "ready")
          \/ lattice.status[n] = "ready" /\ Become(n, "running")
          \/ lattice.status[n] = "running" /\ (Become(n, "complete") \/ Become(n, "failed"))
    /\ UNCHANGED <<file, ticketMap, phase, query>>

StatusOf(name) == lattice.status[ticketMap[name]]

\* The methods of pm read one node after the other, in any order, while the graph runs:
\* graph_status and what_next all nodes of the map, why_blocked those that the ticket
\* waits for.
AskPm ==
    /\ phase = "run" /\ ~query.asked /\ Len(lattice.status) <= MaxAsked
    /\ query' = [asked |-> TRUE, began |-> lattice.status, told |-> <<>>]
    /\ UNCHANGED <<file, lattice, ticketMap, phase>>

ReadNode(n) ==
    /\ query.asked /\ n \in Range(ticketMap) \ DOMAIN query.told
    /\ query' = [query EXCEPT !.told = [m \in DOMAIN query.told \cup {n} |-> IF m = n THEN lattice.status[n] ELSE query.told[m]]]
    /\ UNCHANGED <<file, lattice, ticketMap, phase>>

AllRead == query.asked /\ DOMAIN query.told = Range(ticketMap)
Answer == AllRead /\ query' = NoQuery /\ UNCHANGED <<file, lattice, ticketMap, phase>>

Told == Range(query.told)

\* graph_status
GraphStatus_AnyComplete ==
    IF "failed" \in Told THEN "failed"
    ELSE IF "complete" \in Told THEN "complete"
    ELSE IF {"running", "ready"} \cap Told # {} THEN "running"
    ELSE "pending"
GraphStatus ==
    IF "failed" \in Told THEN "failed"
    ELSE IF {"running", "ready"} \cap Told # {} THEN "running"
    ELSE IF "pending" \in Told \/ Told = {} THEN "pending"
    ELSE "complete"

\* what_next
WhatNext == {name \in DOMAIN ticketMap : query.told[ticketMap[name]] \in {"ready", "running"}}

\* why_blocked: the nodes that the ticket waits for
WhyBlocked(name) == {m \in Preds(ticketMap[name]) : query.told[m] # "complete"}

TicketsInit ==
    /\ file = <<>> /\ lattice = [status |-> <<>>, edges |-> {}] /\ ticketMap = <<>> /\ phase = "write"
    /\ query = NoQuery
TicketsNext ==
    WriteTicket \/ BuildTickets \/ RunTickets \/ AskPm \/ (\E n \in Range(ticketMap) : ReadNode(n)) \/ Answer
TicketsSpec == TicketsInit /\ [][TicketsNext]_ticketVars
-----------------------------------------------------------------------------
(***************************************************************************)
(* Properties.                                                             *)
(***************************************************************************)
\* No two nodes of the file have one name, and no ticket has the name of another's
\* validation.
Distinct(lines) == IsInjective(Nodes(Tickets(lines)))

\* "Downstream work only starts after validation passes": when a ticket starts, the
\* tickets that block it and their validations have settled, in whatever order the
\* file has them.
StartsAfterValidation ==
    phase = "run" /\ Distinct(file) =>
        \A t, d \in Range(Tickets(file)) :
            /\ StatusOf(t.name) # "pending"
            /\ d.name \in Range(t.deps) /\ d.name # t.name
            => \A n \in Range(NodesOf(d)) : StatusOf(n) \in {"complete", "failed"}

\* What pm answers at the end of its reading, with the graph running on meanwhile, is
\* true of all the nodes: a graph called complete is, one called failed has a failed
\* node, and a failure that stood when the question was asked is not missed; what was at
\* work then is at its end when the graph is called pending; no ticket is called
\* actionable that waits for another one (upstream work that has failed does not block);
\* and why_blocked names no work that was complete then, and leaves out nothing that is not.
WasIn(S) == {n \in DOMAIN query.began : query.began[n] \in S}
PmTellsGraph ==
    phase = "run" /\ Distinct(file) /\ query.asked =>
        /\ AllRead =>
              /\ GraphStatus = "complete" => InState({"complete"}) = DOMAIN lattice.status
              /\ GraphStatus = "failed" => InState({"failed"}) # {}
              /\ WasIn({"failed"}) # {} => GraphStatus = "failed"
              /\ GraphStatus = "pending" => WasIn({"ready", "running"}) \subseteq InState({"complete"})
              /\ \A name \in WhatNext :
                    Preds(ticketMap[name]) \ {ticketMap[name]} \subseteq InState({"complete", "failed"})
        /\ \A name \in DOMAIN ticketMap : Preds(ticketMap[name]) \subseteq DOMAIN query.told =>
              /\ WhyBlocked(name) \cap WasIn({"complete"}) = {}
              /\ Preds(ticketMap[name]) \ WhyBlocked(name) \subseteq InState({"complete"})
=============================================================================
