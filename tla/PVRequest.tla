----------------------------- MODULE PVRequest ------------------------------
(***************************************************************************)
(* Building the pvRequest of a client operation (clientreq.cpp): the       *)
(* fields and options named one by one, or read from an expression by      *)
(* PVRParser.  An expression is a sequence of tokens [t, path]; t is a     *)
(* punctuation, "field", "record" or "name", and the path of a name is     *)
(* what its dots separate.                                                 *)
(***************************************************************************)
EXTENDS WireCodec

NoReq == [ok |-> TRUE, fields |-> Member("Struct", "field", <<>>), opts |-> <<>>]
Error(req) == [req EXCEPT !.ok = FALSE]

\* CommonBase::_field(): the nodes of the path that are missing
RECURSIVE AddPath(_, _)
AddPath(node, path) ==
    IF path = <<>> THEN node
    ELSE LET same == {i \in 1..Len(node.kids) : node.kids[i].name = Head(path)}
             i == IF same = {} THEN Len(node.kids) + 1 ELSE CHOOSE x \in same : TRUE
             kids == IF same = {} THEN Append(node.kids, Member("Struct", Head(path), <<>>)) ELSE node.kids
         IN  [node EXCEPT !.kids = [kids EXCEPT ![i] = AddPath(@, Tail(path))]]
Field(req, path) == [req EXCEPT !.fields = AddPath(@, path)]

\* CommonBase::_record(): a later value of an option replaces an earlier one
Record(req, key, val) ==
    [req EXCEPT !.opts = Append(SelectSeq(@, LAMBDA o : o.key # key), [key |-> key, val |-> val])]

\* PVRParser::lex(): the next token
Tok(ts) == IF ts = <<>> THEN "EOF" ELSE ts[1].t

\* PVRParser::parse(), parse_fields(), parse_options(): names and commas in any
\* order until the closing parenthesis; K=V, K=V, ... until the closing bracket
RECURSIVE Parse(_, _), ParseFields(_, _), ParseOptions(_, _)
Parse(ts, req) ==
    CASE Tok(ts) = "EOF" -> req
      [] Tok(ts) = "field" -> IF Tok(Tail(ts)) = "(" THEN ParseFields(Tail(Tail(ts)), req) ELSE Error(req)
      [] Tok(ts) = "record" -> IF Tok(Tail(ts)) = "[" THEN ParseOptions(Tail(Tail(ts)), req) ELSE Error(req)
      [] Tok(ts) = "name" -> Parse(Tail(ts), Field(req, ts[1].path))
      [] OTHER -> Error(req)
ParseFields(ts, req) ==
    CASE Tok(ts) = "name" -> ParseFields(Tail(ts), Field(req, ts[1].path))
      [] Tok(ts) = "," -> ParseFields(Tail(ts), req)
      [] Tok(ts) = ")" -> Parse(Tail(ts), req)
      [] OTHER -> Error(req)
ParseOptions(ts, req) ==
    IF Tok(ts) = "name" /\ Len(ts) >= 3 /\ ts[2].t = "=" /\ ts[3].t = "name"
    THEN LET next == SubSeq(ts, 4, Len(ts))
             with == Record(req, ts[1].path, ts[3].path)
         IN  CASE Tok(next) = "," -> ParseOptions(Tail(next), with)
               [] Tok(next) = "]" -> Parse(Tail(next), with)
               [] OTHER -> Error(with)
    ELSE IF Tok(ts) = "]" THEN Parse(Tail(ts), req) ELSE Error(req)

\* CommonBase::_buildReq(): the descriptions of the request
BuildReq(req) ==
    LET opts == [k \in 1..Len(req.opts) |-> Member("String", req.opts[k].key[1], <<>>)]
        def == Member("Struct", "", <<req.fields>>)
        record == Member("Struct", "record", <<Member("Struct", "_options", opts)>>)
    IN  BuildTree(IF req.opts = <<>> THEN def ELSE AppendTo(def, record).node)

\* pvRequest["field"], as request2mask() looks it up
FieldOf(descs) ==
    LET at == {e \in descs[1].mlookup : e[1] = <<"field">>}
    IN  IF at = {} THEN <<>>
        ELSE LET i == (CHOOSE e \in at : TRUE)[2] + 1 IN SubSeq(descs, i, i + Size(descs[i]) - 1)
=============================================================================
