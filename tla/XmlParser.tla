------------------------------ MODULE XmlParser ------------------------------
(***************************************************************************)
(* at_xmlparser.c: callbacks registered for the paths of a document, and   *)
(* one traversal of the document that calls them.  The handlers are kept   *)
(* in a vector of vectors (VectorBuffer) and the path of a node is put     *)
(* together in a string (StringBuffer).  Callbacks are the caller's code   *)
(* and may register further callbacks; they do not parse or destroy.       *)
(*                                                                         *)
(* Of libxml2, which is not part of the repository, the model has the tree *)
(* it delivers.  Its nodes are numbered in document order from the root    *)
(* element on; a node that is not an element has no name.                  *)
(*                                                                         *)
(* An operator that stands directly before a definition and that nothing   *)
(* uses is a mutant of that definition.                                    *)
(***************************************************************************)
EXTENDS StringBuffer, VectorBuffer, FiniteSets, SequencesExt

CONSTANTS Docs,          \* the documents: the parent of every node, 0 for the
                         \* top ones, and its name
          Path,          \* the paths callbacks are registered for
          Callback,      \* the callbacks, with their parameters
          NodePathCap,   \* capacity of the string for a path; 100 in the code
          HandlerCap,    \* DEFAULT_NODE_HANDLER_CAP, 5 in the code
          NoCall,        \* no callback is running
          MaxCallbacks   \* bound of the model: registrations

\* A document: parents come before their children, subtrees are without gaps,
\* and only elements have children.
IsDocument(d) ==
    LET nodes == 1..Len(d.parent)
    IN /\ d.parent \in Seq(Nat)
       /\ d.name \in [nodes -> Seq(Nat \ {0})]
       /\ \A n \in nodes : d.parent[n] < n
       /\ \A m, n \in nodes :
             m < n => d.parent[n] >= m \/ d.parent[n] <= d.parent[m]
       /\ \A n \in nodes : d.parent[n] # 0 => d.name[d.parent[n]] # <<>>

ASSUME XmlParserAssumption ==
    /\ \A d \in Docs : IsDocument(d)
    /\ Path \subseteq Seq(Nat \ {0})
    /\ NodePathCap \in Nat \ {0}
    /\ HandlerCap \in Nat
    /\ MaxCallbacks \in Nat
    /\ Junk \notin Nat
    /\ NoCall \notin [handler : [block : Nat, at : Nat],
                      i : Nat, callback_num : Nat]

VARIABLES
    doc,         \* parser->doc
    handlers,    \* parser->handlers: vector of [node, callbacks]
    xpath_ctx,   \* parser->xpath_ctx is not NULL
    stack,       \* travel's invocations, the innermost last, by their variables
                 \* cur_node and cur_path: the node they are at or NULL, and
                 \* the path before its name
    calling,     \* the loop over the callbacks of the innermost cur_node, or
                 \* NoCall: [handler, i, callback_num]
    log,         \* history: the calls of the current or last parse
    quiet,       \* history: nothing was registered since it began
    state        \* "live", "destroyed", "stale" (travel used a pointer into
                 \* the old array of handlers) or "garbled" (it read a path
                 \* that no zero ends)

parserVars == <<doc, handlers, xpath_ctx, stack, calling, log, quiet, state>>

DEFAULT_NODE_CALLBACK_CAP == 1
Slash == <<47>>

NULL == 0

Nodes == DOMAIN doc.parent
First(S) == IF S = {} THEN NULL ELSE Min(S)
FirstChild(n) == First({m \in Nodes : doc.parent[m] = n})
NextSibling(n) == First({m \in Nodes : m > n /\ doc.parent[m] = doc.parent[n]})
Name(n) == doc.name[n]
IsElement(n) == Name(n) # <<>>

\* get_handler: the index of the handler of path p, or -1.
get_handler(p) ==
    LET hits == {i \in 0..handlers.size - 1 :
                    Bytes(handlers.array[i].node) = p}
    IN IF hits = {} THEN -1 ELSE Min(hits)

ParserInit ==
    /\ doc \in Docs
    /\ handlers = vector_new(HandlerCap)
    /\ xpath_ctx = FALSE
    /\ stack = <<>> /\ calling = NoCall /\ log = <<>> /\ quiet = FALSE
    /\ state = "live"

Idle == stack = <<>>
InCallback == calling # NoCall /\ calling.i > 0

\* A handler of path p that calls only c.
NewHandler(p, c) ==
    [node |-> string_new(p),
     callbacks |-> vector_insert(vector_new(DEFAULT_NODE_CALLBACK_CAP), c)]

WithCallback(h, c) == [h EXCEPT !.callbacks = vector_insert(@, c)]

Registered ==
    FoldLeft(LAMBDA n, h : n + h.callbacks.size, 0, Elements(handlers))

\* xmlparser_register_node_callback, before, after or during a parse.
Register(p, c) ==
    LET i == get_handler(p)
    IN /\ Idle \/ InCallback
       /\ Registered < MaxCallbacks
       /\ handlers' = IF i = -1
                      THEN vector_insert(handlers, NewHandler(p, c))
                      ELSE Put(handlers, i, WithCallback(handlers.array[i], c))
       /\ quiet' = FALSE
       /\ UNCHANGED <<doc, xpath_ctx, stack, calling, log, state>>

\* xmlparser_parse
Parse ==
    /\ Idle
    /\ stack' = <<[cur_node |-> FirstChild(0), cur_path |-> string_new(Slash)]>>
    /\ log' = <<>> /\ quiet' = TRUE
    /\ UNCHANGED <<doc, handlers, xpath_ctx, calling, state>>

-----------------------------------------------------------------------------
(* travel                                                                   *)

Frame == stack[Len(stack)]
Node == Frame.cur_node
Travelling == ~Idle /\ calling = NoCall
AtElement == Travelling /\ Node # NULL /\ IsElement(Node)

\* The loop of the innermost of invocations s goes on with the next sibling.
Advanced(s) ==
    IF s = <<>> THEN s ELSE [s EXCEPT ![Len(s)].cur_node = NextSibling(@)]

\* node_path, when the name of the node has been appended.
NodePath ==
    string_append(string_append(string_blank(NodePathCap),
                                Bytes(Frame.cur_path)), Name(Node))

FullPathOnly == get_handler(Bytes(NodePath))

\* The handler of the full path or else of the bare name.
Handler ==
    IF get_handler(Bytes(NodePath)) # -1 THEN get_handler(Bytes(NodePath))
    ELSE get_handler(Name(Node))

\* Some comparison comes to the end of the path: those that find a difference
\* do not.
ComparedToEnd ==
    \E i \in 0..handlers.size - 1 :
       IsPrefix(Bytes(NodePath), Bytes(handlers.array[i].node))

Readable == /\ Terminated(Frame.cur_path)
            /\ ComparedToEnd => Terminated(NodePath)

\* The path of the parent, or of the node itself, is read beyond its end.
ReadsOn ==
    /\ AtElement /\ ~Readable
    /\ state' = "garbled"
    /\ UNCHANGED <<doc, handlers, xpath_ctx, stack, calling, log, quiet>>

\* A node that is not an element.
SkipNode ==
    /\ Travelling /\ Node # NULL /\ ~IsElement(Node)
    /\ stack' = Advanced(stack)
    /\ UNCHANGED <<doc, handlers, xpath_ctx, calling, log, quiet, state>>

\* No handler: travel the children, with a slash behind the path.
Descend ==
    /\ AtElement /\ Readable /\ Handler = -1
    /\ stack' = Append(stack,
                       [cur_node |-> FirstChild(Node),
                        cur_path |-> string_append(NodePath, Slash)])
    /\ UNCHANGED <<doc, handlers, xpath_ctx, calling, log, quiet, state>>

\* A handler: its callbacks are called, the children are not travelled.
Handle ==
    /\ AtElement /\ Readable /\ Handler # -1
    /\ calling' = [handler |-> PointerTo(handlers, Handler),
                   i |-> 0,
                   callback_num |-> handlers.array[Handler].callbacks.size]
    /\ UNCHANGED <<doc, handlers, xpath_ctx, stack, log, quiet, state>>

HandlerMoved == calling.handler.block # handlers.block

\* The next callback is called; the one before has returned.
Call ==
    /\ calling # NoCall /\ calling.i < calling.callback_num
    /\ ~HandlerMoved
    /\ LET callbacks == handlers.array[calling.handler.at].callbacks
       IN log' = Append(log, [node |-> Node,
                              func |-> callbacks.array[calling.i]])
    /\ calling' = [calling EXCEPT !.i = @ + 1]
    /\ UNCHANGED <<doc, handlers, xpath_ctx, stack, quiet, state>>

\* The callback before has registered so many paths that the array has moved,
\* and travel takes the next one from the old array.
CallStale ==
    /\ calling # NoCall /\ calling.i < calling.callback_num
    /\ HandlerMoved
    /\ state' = "stale"
    /\ UNCHANGED <<doc, handlers, xpath_ctx, stack, calling, log, quiet>>

\* The last callback has returned.
CallsDone ==
    /\ calling # NoCall /\ calling.i = calling.callback_num
    /\ calling' = NoCall
    /\ stack' = Advanced(stack)
    /\ UNCHANGED <<doc, handlers, xpath_ctx, log, quiet, state>>

\* travel returns: all siblings have been visited.
Return ==
    /\ Travelling /\ Node = NULL
    /\ stack' = Advanced(Front(stack))
    /\ UNCHANGED <<doc, handlers, xpath_ctx, calling, log, quiet, state>>

-----------------------------------------------------------------------------

\* xmlparser_eval_xpath_express: the context is made once, if libxml2 can make
\* it, and is kept, whether or not the expression can be evaluated.
EvalXpath ==
    /\ Idle
    /\ xpath_ctx' \in {xpath_ctx, TRUE}
    /\ UNCHANGED <<doc, handlers, stack, calling, log, quiet, state>>

\* xmlparser_destroy; the strings handler->node are not freed.
Destroy ==
    /\ Idle
    /\ xpath_ctx' = FALSE
    /\ state' = "destroyed"
    /\ UNCHANGED <<doc, handlers, stack, calling, log, quiet>>

\* The parser, or the program, is gone.
ParserOver == state # "live" /\ UNCHANGED parserVars

ParserNext ==
    \/ /\ state = "live"
       /\ \/ \E p \in Path, c \in Callback : Register(p, c)
          \/ Parse
          \/ ReadsOn \/ SkipNode \/ Descend \/ Handle \/ Return
          \/ Call \/ CallStale \/ CallsDone
          \/ EvalXpath
          \/ Destroy
    \/ ParserOver

ParserSpec == ParserInit /\ [][ParserNext]_parserVars

-----------------------------------------------------------------------------
(* Properties.                                                              *)

\* The path of node n in the form tests/test_xmlparser.c:14 registers and travel
\* looks for, without a slash at the end, and the path before the names of its
\* children.
FullPath ==
    LET full[n \in Nodes] ==
            (IF doc.parent[n] = 0 THEN <<>> ELSE full[doc.parent[n]])
            \o Slash \o Name(n)
    IN full
ParentPath(n) ==
    IF doc.parent[n] = 0 THEN Slash ELSE FullPath[doc.parent[n]] \o Slash

IsAncestor(m, n) ==
    LET above[k \in Nodes] ==
            \/ doc.parent[k] = m
            \/ doc.parent[k] # 0 /\ above[doc.parent[k]]
    IN above[n]

HandlersOf(n) ==
    LET of(p) == {i \in DOMAIN Elements(handlers) :
                    Bytes(Elements(handlers)[i].node) = p}
    IN IF ~IsElement(n) THEN {}
       ELSE IF of(FullPath[n]) # {} THEN of(FullPath[n]) ELSE of(Name(n))

\* Node n has a handler and is not inside of a node that has one.
DueAt(n) == /\ HandlersOf(n) # {}
            /\ \A m \in Nodes : IsAncestor(m, n) => HandlersOf(m) = {}

\* The calls for node n, handler by handler.
CallsAt(n) ==
    [i \in DOMAIN Elements(handlers) |->
        IF i \notin HandlersOf(n) THEN <<>>
        ELSE [j \in 1..Elements(handlers)[i].callbacks.size |->
                [node |-> n,
                 func |-> Elements(handlers)[i].callbacks.array[j - 1]]]]

\* What a parse has to call: the callbacks of the due nodes' handlers in the
\* order of their registration; the nodes in document order.
Due == [n \in Nodes |-> IF DueAt(n) THEN FlattenSeq(CallsAt(n)) ELSE <<>>]
Expected == FlattenSeq(Due)

\* A parse, the first or a later one, makes exactly the calls that are due if
\* nothing is registered meanwhile; and whatever callbacks register, none is
\* called for a node out of document order or inside of a node that was handled.
\* Due are the callbacks for paths as tests/test_xmlparser.c:14 has them and for
\* bare names.  A path with a slash at the end, as at_xmlparser.c:66-67 gives
\* them, is the path of no node, and nothing is due for it.
CallsExact ==
    /\ quiet /\ state = "live" =>
          IF Idle THEN log = Expected ELSE IsPrefix(log, Expected)
    /\ \A i, j \in DOMAIN log : i < j =>
          /\ log[i].node <= log[j].node
          /\ ~IsAncestor(log[i].node, log[j].node)

\* Two limits keep the parser safe: while there are no more handlers than the
\* vector is made for, callbacks may register others without pulling the array
\* from under travel; and no path is read beyond its end unless the path of a
\* parent, or a name with its slash, is as long as the string for it.
SafeWithinLimits ==
    /\ state = "stale" => handlers.size > HandlerCap
    /\ state = "garbled" =>
          \E n \in Nodes : \/ Len(ParentPath(n)) >= NodePathCap
                           \/ Len(Name(n)) + 1 >= NodePathCap
=============================================================================
