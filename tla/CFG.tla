-------------------------------- MODULE CFG --------------------------------
(***************************************************************************)
(* The CFG intermediate representation that the code generator consumes:   *)
(* a compilation unit is a sequence of clusters, a cluster is a sequence   *)
(* of fragments (the entry fragment first), and the body of a fragment is  *)
(* a tree of statements (include/cfg.hpp, namespaces CFG and CFG_Prim).    *)
(* Expressions and types are abstracted to the variables they mention; the *)
(* primitives are abstracted to their effect on the CMachine registers.    *)
(*                                                                         *)
(* A unit p has p.stm, the statements; p.frag, the fragments; p.clusters,  *)
(* the labels of the fragments of each cluster, the entry first; p.owner   *)
(* and p.scope, see WellScoped.                                            *)
(***************************************************************************)
EXTENDS Naturals, Sequences, FiniteSets

CONSTANTS
  Node,     \* identities of statements; numbered so that parents come first
  Var,      \* lvars
  Lab,      \* fragment labels (the label of an entry fragment names its cluster)
  NoLab     \* the target of a call through a variable

(* The CMachine registers (CMRegId). *)
Reg == {"ALLOC", "LIMIT", "STORE", "EXN", "VAR"}

FragKind == {"STD_FUN", "STD_CONT", "KNOWN_FUN", "INTERNAL"}

StmKind == {"LET", "ALLOC", "APPLY", "THROW", "GOTO", "SWITCH", "BRANCH",
            "ARITH", "SETTER", "CALLGC"}

(***************************************************************************)
(* What a primitive does to the registers.  LET: VAR renames, PURE         *)
(* computes, GET is GET_HDLR/GET_VAR.  SETTER: SET is SET_HDLR/SET_VAR,    *)
(* RECORD is UPDATE/ASSIGN, POKE an update that needs no store-list entry. *)
(* ARITH: TRAP can overflow, DIV cannot.  BRANCH: LIMIT is the heap check, *)
(* CMP any other test.                                                     *)
(***************************************************************************)
Prim == {"VAR", "PURE", "GET", "SET", "RECORD", "POKE", "TRAP", "DIV",
         "CMP", "LIMIT", "-"}

Stm == [op: StmKind, prim: Prim, reg: Reg, args: Seq(Var), res: Seq(Var),
        to: Lab \cup {NoLab}, next: Seq(Node)]

Frag == [kind: FragKind, params: Seq(Var), body: Node]

Elems(s) == {s[i] : i \in DOMAIN s}

-----------------------------------------------------------------------------
(* The tree structure of a compilation unit p. *)

Children(p, n) == Elems(p.stm[n].next)

Bodies(p) == {p.frag[l].body : l \in Lab}

(* The statements that start a basic block: fragment bodies and arms. *)
Arms(p) == UNION {Children(p, m) : m \in {k \in Node : p.stm[k].op \in {"SWITCH", "BRANCH"}}}

(* The cluster of fragment l, the statements of cluster c, and the labels
   that clusters are called by. *)
ClusterOf(p, l) == CHOOSE c \in DOMAIN p.clusters : l \in Elems(p.clusters[c])
NodesOf(p, c) == {n \in Node : p.owner[n] \in Elems(p.clusters[c])}
EntryLabs(p) == {p.clusters[c][1] : c \in DOMAIN p.clusters}

(* The statements on the path to n from the body of its fragment. *)
Path(p, n) ==
  LET path[m \in Node] ==
        {m} \cup UNION {path[k] : k \in {j \in Node : j < m /\ m \in Children(p, j)}}
  IN path[n]

(* The registers a statement assigns. *)
Writes(s) ==
  CASE s.op = "ALLOC" -> {"ALLOC"}
    [] s.op = "SETTER" /\ s.prim = "SET" -> {s.reg}
    [] s.op = "SETTER" /\ s.prim = "RECORD" -> {"ALLOC", "STORE"}
    [] s.op = "CALLGC" -> Reg
    [] OTHER -> {}

-----------------------------------------------------------------------------
(* What the SML/NJ front end guarantees of every unit it pickles. *)

WellTyped(p) ==
  /\ p.stm \in [Node -> Stm]
  /\ p.frag \in [Lab -> Frag]
  /\ p.clusters \in Seq(Seq(Lab))
  /\ p.owner \in [Node -> Lab]
  /\ p.scope \in [Node -> SUBSET Var]

Arity(s) ==
  /\ s.op = "LET" <=> s.prim \in {"VAR", "PURE", "GET"}
  /\ s.op = "SETTER" <=> s.prim \in {"SET", "RECORD", "POKE"}
  /\ s.op = "ARITH" <=> s.prim \in {"TRAP", "DIV"}
  /\ s.op = "BRANCH" <=> s.prim \in {"CMP", "LIMIT"}
  /\ s.prim \in {"SET", "GET"} => s.reg \in {"EXN", "VAR"}
  /\ s.prim \in {"SET", "VAR"} => Len(s.args) = 1
  /\ s.op \in {"LET", "ALLOC", "ARITH"} => Len(s.res) = 1
  /\ s.op \in {"SETTER", "BRANCH", "SWITCH", "GOTO", "APPLY", "THROW"} => s.res = <<>>
  /\ s.op = "CALLGC" => Len(s.res) <= Len(s.args)
  /\ s.op \in {"LET", "ALLOC", "ARITH", "SETTER", "CALLGC"} => Len(s.next) = 1
  /\ s.op = "BRANCH" => Len(s.next) = 2
  /\ s.op = "SWITCH" => Len(s.next) >= 1
  /\ s.op \in {"GOTO", "APPLY", "THROW"} => s.next = <<>>

IsForest(p) ==
  \A n \in Node :
    /\ \A m \in Children(p, n) : n < m /\ m \notin Bodies(p)
    /\ \A i, j \in DOMAIN p.stm[n].next : p.stm[n].next[i] = p.stm[n].next[j] => i = j
    /\ \A m \in Node \ {n} : Children(p, n) \cap Children(p, m) = {}

(* Every statement hangs off a fragment: it is a body or follows another. *)
Rooted(p) ==
  \A n \in Node : n \in Bodies(p) \/ \E m \in Node : n \in Children(p, m)

WellLinked(p) ==
  /\ \A c \in DOMAIN p.clusters :
       /\ p.clusters[c] # <<>>
       /\ \A i \in DOMAIN p.clusters[c] :
            (i > 1) <=> (p.frag[p.clusters[c][i]].kind = "INTERNAL")
  /\ Lab = UNION {Elems(p.clusters[c]) : c \in DOMAIN p.clusters}
  /\ \A c, d \in DOMAIN p.clusters :
       \A i \in DOMAIN p.clusters[c], j \in DOMAIN p.clusters[d] :
         p.clusters[c][i] = p.clusters[d][j] => c = d /\ i = j
  /\ \A l1, l2 \in Lab : p.frag[l1].body = p.frag[l2].body => l1 = l2

(* The front end's scoping made explicit: owner is the fragment a statement
   is in, scope the lvars it may mention, and an lvar has one binding. *)
WellScoped(p) ==
  /\ \A l \in Lab : LET f == p.frag[l] IN
       /\ p.owner[f.body] = l
       /\ p.scope[f.body] = Elems(f.params)
       /\ Cardinality(Elems(f.params)) = Len(f.params)
  /\ \A n \in Node : LET s == p.stm[n] IN
       /\ \A m \in Children(p, n) :
            p.owner[m] = p.owner[n] /\ p.scope[m] = p.scope[n] \cup Elems(s.res)
       /\ Elems(s.args) \subseteq p.scope[n]
       /\ Elems(s.res) \cap p.scope[n] = {}
       /\ Cardinality(Elems(s.res)) = Len(s.res)
       /\ \A m \in Node \ {n} :
            p.owner[m] = p.owner[n] => Elems(s.res) \cap Elems(p.stm[m].res) = {}

(* GOTOs stay in their cluster, calls go to the entry of one. *)
WellTargeted(p) ==
  \A n \in Node : LET s == p.stm[n] IN
    /\ s.op = "GOTO" =>
         /\ s.to \in Elems(p.clusters[ClusterOf(p, p.owner[n])]) \ EntryLabs(p)
         /\ Len(s.args) = Len(p.frag[s.to].params)
    /\ s.op \in {"APPLY", "THROW"} => s.to \in EntryLabs(p) \cup {NoLab}

WellFormed(p) ==
  /\ WellTyped(p)
  /\ \A n \in Node : Arity(p.stm[n])
  /\ IsForest(p)
  /\ Rooted(p)
  /\ WellLinked(p)
  /\ WellScoped(p)
  /\ WellTargeted(p)

=============================================================================
