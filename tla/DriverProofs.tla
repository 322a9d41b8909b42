---------------------------- MODULE DriverProofs ----------------------------
(***************************************************************************)
(* Proofs about the process: its start-up, for any list of compiled        *)
(* modules and any values of MODULES and FUZZ, and its driver, for any set *)
(* of modules, any inputs and any number of runs.                          *)
(***************************************************************************)
EXTENDS Driver, Startup, SequenceLemmas, SequenceTheorems, TLAPS

(***************************************************************************)
(* Trimming a stretch of the text                                          *)
(***************************************************************************)

\* A set of numbers below a bound has a greatest element.
LEMMA GreatestElement ==
    ASSUME NEW n \in Nat, NEW T, T \subseteq 0..n, T # {}
    PROVE  \E i \in T : \A k \in T : k <= i
<1> DEFINE D == {n - i : i \in T}
<1>1. D \subseteq Nat /\ D # {}
  <2>1. \A i \in T : n - i \in Nat
    OBVIOUS
  <2> QED
    BY <2>1
<1>2. PICK d \in D : \A k \in D : d <= k
  <2> HIDE DEF D
  <2> QED
    BY <1>1, LeastElement
<1>3. PICK i \in T : d = n - i
  OBVIOUS
<1>4. ASSUME NEW k \in T PROVE k <= i
  <2>1. n - k \in D /\ k \in 0..n /\ i \in 0..n
    OBVIOUS
  <2>2. n - i <= n - k
    BY <1>2, <1>3, <2>1
  <2> QED
    BY <2>1, <2>2
<1> QED
  BY <1>4

\* text[a..b] is what lies between the blanks of text[i+1..j-1].
IsTrimmed(text, i, j, a, b) ==
    /\ a \in (i + 1)..(j - 1) /\ b \in (i + 1)..(j - 1)
    /\ a <= b /\ text[a] # Space /\ text[b] # Space
    /\ \A k \in (i + 1)..(j - 1) : k < a \/ k > b => text[k] = Space

\* There is at most one such part.
LEMMA TrimmedUnique ==
    ASSUME NEW text, NEW i \in Nat, NEW j \in Nat,
           NEW a, NEW b, IsTrimmed(text, i, j, a, b),
           NEW c, NEW d, IsTrimmed(text, i, j, c, d)
    PROVE  a = c /\ b = d
BY DEF IsTrimmed

\* Trimmed finds it, in the stretch cut from the text, or says that there is
\* none.
LEMMA TrimmedValue ==
    ASSUME NEW text \in Seq(Symbols), NEW i \in Nat, NEW j \in Nat,
           i < j, j <= Len(text) + 1
    PROVE  LET token == SubSeq(text, i + 1, j - 1)
           IN  \/ /\ Trimmed(token) = <<>>
                  /\ \A a, b : ~IsTrimmed(text, i, j, a, b)
               \/ \E a, b :
                      /\ IsTrimmed(text, i, j, a, b)
                      /\ Trimmed(token) = SubSeq(text, a, b)
                      /\ Trimmed(token) \in Seq(Symbols)
                      /\ Trimmed(token) # <<>>
<1> DEFINE token == SubSeq(text, i + 1, j - 1)
           solid == {k \in 1..Len(token) : token[k] # Space}
<1>1. /\ Len(token) = j - 1 - i
      /\ \A k \in 1..Len(token) : token[k] = text[i + k]
      /\ token \in Seq(Symbols)
  <2>1. \A k \in (i + 1)..(j - 1) : text[k] \in Symbols
    OBVIOUS
  <2>2. i + 1 \in Int /\ j - 1 \in Int
    OBVIOUS
  <2>3. /\ token \in Seq(Symbols)
        /\ Len(token) = IF i + 1 <= j - 1 THEN (j - 1) - (i + 1) + 1 ELSE 0
        /\ \A k \in 1..((j - 1) - (i + 1) + 1) : token[k] = text[(i + 1) + k - 1]
    BY <2>1, <2>2, SubSeqProperties
  <2> HIDE DEF token
  <2>4. Len(token) = j - 1 - i /\ (j - 1) - (i + 1) + 1 = j - 1 - i
    BY <2>3
  <2>5. \A k \in 1..Len(token) : (i + 1) + k - 1 = i + k
    OBVIOUS
  <2> QED
    BY <2>3, <2>4, <2>5
<1> HIDE DEF token
<1>2. CASE solid = {}
  <2>1. Trimmed(token) = <<>>
    BY <1>2 DEF Trimmed
  <2>2. ASSUME NEW a, NEW b, IsTrimmed(text, i, j, a, b) PROVE FALSE
    <3>1. a - i \in 1..Len(token) /\ i + (a - i) = a /\ text[a] # Space
      BY <1>1, <2>2 DEF IsTrimmed
    <3>2. a - i \in solid
      BY <1>1, <3>1
    <3> QED
      BY <1>2, <3>2
  <2> QED
    BY <2>1, <2>2 DEF token
<1>3. CASE solid # {}
  <2> DEFINE p == CHOOSE k \in solid : \A l \in solid : k <= l
             q == CHOOSE k \in solid : \A l \in solid : l <= k
  <2>1. p \in solid /\ \A l \in solid : p <= l
    <3>1. \E k \in solid : \A l \in solid : k <= l
      BY <1>3, LeastElement, solid \subseteq Nat
    <3> QED
      BY <3>1
  <2>2. q \in solid /\ \A l \in solid : l <= q
    <3>1. Len(token) \in Nat /\ solid \subseteq 0..Len(token)
      BY <1>1
    <3>2. \E k \in solid : \A l \in solid : l <= k
      <4> HIDE DEF solid
      <4> QED
        BY <1>3, <3>1, GreatestElement
    <3> QED
      BY <3>2
  <2>3. Trimmed(token) = SubSeq(token, p, q)
    BY <1>3 DEF Trimmed
  <2> HIDE DEF p, q
  <2>4. /\ p \in 1..Len(token) /\ q \in 1..Len(token) /\ p <= q
        /\ token[p] # Space /\ token[q] # Space
        /\ Len(token) \in Nat /\ Len(token) = j - 1 - i
    BY <1>1, <2>1, <2>2
  <2>5. ASSUME NEW k \in (i + 1)..(j - 1), k < i + p \/ k > i + q
        PROVE  text[k] = Space
    <3>1. k - i \in 1..Len(token) /\ i + (k - i) = k
      BY <1>1
    <3>2. k - i \notin solid
      BY <2>1, <2>2, <2>4, <2>5, <3>1
    <3> QED
      BY <1>1, <3>1, <3>2
  <2>6. IsTrimmed(text, i, j, i + p, i + q)
    <3>1. i + p \in (i + 1)..(j - 1) /\ i + q \in (i + 1)..(j - 1) /\ i + p <= i + q
      BY <2>4
    <3>2. text[i + p] # Space /\ text[i + q] # Space
      BY <1>1, <2>4
    <3> QED
      BY <2>5, <3>1, <3>2 DEF IsTrimmed
  <2>7. SubSeq(token, p, q) = SubSeq(text, i + p, i + q)
    <3>1. /\ i + 1 \in 1..Len(text) /\ j - 1 \in 1..Len(text)
          /\ p \in 1..((j - 1) - (i + 1) + 1) /\ q \in 1..((j - 1) - (i + 1) + 1)
      BY <2>4
    <3>2. SubSeq(SubSeq(text, i + 1, j - 1), p, q) = SubSeq(text, (i + 1) + p - 1, (i + 1) + q - 1)
      BY <3>1, SubSeqOfSubSeq
    <3>3. (i + 1) + p - 1 = i + p /\ (i + 1) + q - 1 = i + q
      BY <2>4
    <3> QED
      BY <3>2, <3>3 DEF token
  <2>8. SubSeq(token, p, q) \in Seq(Symbols) /\ SubSeq(token, p, q) # <<>>
    <3>1. \A k \in p..q : token[k] \in Symbols
      BY <1>1, <2>4
    <3>2. p \in Int /\ q \in Int
      BY <2>4
    <3>3. /\ SubSeq(token, p, q) \in Seq(Symbols)
          /\ Len(SubSeq(token, p, q)) = IF p <= q THEN q - p + 1 ELSE 0
      BY <3>1, <3>2, SubSeqProperties
    <3>4. Len(SubSeq(token, p, q)) # 0
      BY <2>4, <3>3
    <3> QED
      BY <3>3, <3>4
  <2> QED
    BY <2>3, <2>6, <2>7, <2>8 DEF token
<1> QED
  BY <1>2, <1>3

(***************************************************************************)
(* The names asked for by a prefix of the text                             *)
(***************************************************************************)

\* i and j are neighbouring commas, or ends, of the text.
Stretch(i, j) ==
    /\ i < j /\ CommaOrEnd(i) /\ CommaOrEnd(j)
    /\ \A k \in (i + 1)..(j - 1) : env[k] # Comma

HoldsName(i, j, name) ==
    \E a, b \in (i + 1)..(j - 1) : IsTrimmed(env, i, j, a, b) /\ name = SubSeq(env, a, b)

AskedUpTo(n) ==
    {name \in Stretches : \E i, j \in 0..n : Stretch(i, j) /\ HoldsName(i, j, name)}

LEMMA AskedIsUpToEnd == Asked = AskedUpTo(Len(env) + 1)
BY DEF Asked, AskedUpTo, AsksFor, Stretch, HoldsName, IsTrimmed

\* A part of the text is one of its stretches.
LEMMA HoldsStretch ==
    ASSUME env \in Seq(Symbols), NEW i \in Nat, NEW j \in Nat, j <= Len(env) + 1,
           NEW a, NEW b, IsTrimmed(env, i, j, a, b)
    PROVE  SubSeq(env, a, b) \in Stretches /\ HoldsName(i, j, SubSeq(env, a, b))
<1>1. a \in 1..Len(env) /\ b \in 1..Len(env)
  BY DEF IsTrimmed
<1>2. a \in (i + 1)..(j - 1) /\ b \in (i + 1)..(j - 1)
  BY DEF IsTrimmed
<1> QED
  BY <1>1, <1>2 DEF Stretches, HoldsName

\* The token up to the next comma is the one stretch that is new.
LEMMA NextStretch ==
    ASSUME env \in Seq(Symbols), start \in 1..(Len(env) + 1), CommaOrEnd(start - 1),
           NEW j \in start..(Len(env) + 1), CommaOrEnd(j),
           \A k \in start..(j - 1) : env[k] # Comma
    PROVE  /\ Stretch(start - 1, j)
           /\ \A i, l \in 0..j :
                  Stretch(i, l) => <<i, l>> = <<start - 1, j>> \/ {i, l} \subseteq 0..(start - 1)
<1>0. Len(env) \in Nat /\ start \in Nat /\ j \in Nat /\ (start - 1) + 1 = start
  OBVIOUS
<1>1. Stretch(start - 1, j)
  BY <1>0 DEF Stretch
<1>2. ASSUME NEW i \in 0..j, NEW l \in 0..j, Stretch(i, l)
      PROVE  <<i, l>> = <<start - 1, j>> \/ {i, l} \subseteq 0..(start - 1)
  <2>1. i < l /\ CommaOrEnd(i) /\ CommaOrEnd(l) /\ \A k \in (i + 1)..(l - 1) : env[k] # Comma
    BY <1>2 DEF Stretch
  <2>2. ASSUME NEW k \in start..(j - 1) PROVE ~CommaOrEnd(k)
    BY <1>0 DEF CommaOrEnd
  <2>3. CASE l <= start - 1
    BY <1>0, <2>1, <2>3
  <2>4. CASE l > start - 1
    <3>1. l = j
      BY <1>0, <2>1, <2>2, <2>4
    <3>2. i \notin start..(j - 1)
      BY <2>1, <2>2
    <3>3. i <= start - 1
      BY <1>0, <2>1, <3>1, <3>2
    <3>4. CASE i < start - 1
      <4>1. start - 1 \in (i + 1)..(l - 1) /\ start - 1 # 0 /\ start - 1 # Len(env) + 1
        BY <1>0, <3>1, <3>4
      <4>2. env[start - 1] = Comma
        BY <4>1 DEF CommaOrEnd
      <4> QED
        BY <2>1, <4>1, <4>2
    <3> QED
      BY <1>0, <3>1, <3>3, <3>4
  <2> QED
    BY <1>0, <2>3, <2>4
<1> QED
  BY <1>1, <1>2

\* Pushing that token adds what its stretch asks for, and nothing else.
LEMMA PushAsks ==
    ASSUME env \in Seq(Symbols), start \in 1..(Len(env) + 1), CommaOrEnd(start - 1),
           NEW j \in start..(Len(env) + 1), CommaOrEnd(j),
           \A k \in start..(j - 1) : env[k] # Comma,
           requested \in Seq(Seq(Symbols)), RequestedSet = AskedUpTo(start - 1),
           Push(SubSeq(env, start, j - 1))
    PROVE  requested' \in Seq(Seq(Symbols)) /\ RequestedSet' = AskedUpTo(j)
<1> DEFINE token == SubSeq(env, start, j - 1)
           i0 == start - 1
<1>0. /\ Len(env) \in Nat /\ start \in Nat /\ j \in Nat
      /\ i0 \in Nat /\ i0 + 1 = start /\ i0 < j /\ j <= Len(env) + 1 /\ i0 <= j
  OBVIOUS
<1>1. /\ Stretch(i0, j)
      /\ \A i, l \in 0..j :
             Stretch(i, l) => <<i, l>> = <<i0, j>> \/ {i, l} \subseteq 0..i0
  BY NextStretch
<1>2. \/ /\ Trimmed(token) = <<>>
         /\ \A a, b : ~IsTrimmed(env, i0, j, a, b)
      \/ \E a, b :
             /\ IsTrimmed(env, i0, j, a, b)
             /\ Trimmed(token) = SubSeq(env, a, b)
             /\ Trimmed(token) \in Seq(Symbols)
             /\ Trimmed(token) # <<>>
  <2> HIDE DEF i0
  <2> QED
    BY <1>0, TrimmedValue
<1>3. requested' = IF Trimmed(token) = <<>> THEN requested
                   ELSE Append(requested, Trimmed(token))
  BY DEF Push
<1> HIDE DEF token, i0
<1>4. \A name : name \in AskedUpTo(j) <=>
          name \in AskedUpTo(i0) \/ (name \in Stretches /\ HoldsName(i0, j, name))
  <2>1. \A i, l \in 0..i0 : i \in 0..j /\ l \in 0..j
    BY <1>0
  <2>2. i0 \in 0..j /\ j \in 0..j
    BY <1>0
  <2> QED
    BY <1>1, <2>1, <2>2 DEF AskedUpTo
<1>5. RequestedSet = AskedUpTo(i0)
  BY DEF i0
<1>6. CASE Trimmed(token) = <<>>
  <2>1. \A a, b : ~IsTrimmed(env, i0, j, a, b)
    BY <1>2, <1>6
  <2>2. \A name : ~HoldsName(i0, j, name)
    BY <2>1 DEF HoldsName
  <2>3. requested' = requested
    BY <1>3, <1>6
  <2>4. RequestedSet' = RequestedSet
    BY <2>3 DEF RequestedSet
  <2>5. AskedUpTo(j) = AskedUpTo(i0)
    BY <1>4, <2>2 DEF AskedUpTo
  <2> QED
    BY <1>5, <2>3, <2>4, <2>5
<1>7. CASE Trimmed(token) # <<>>
  <2>1. PICK a, b :
            /\ IsTrimmed(env, i0, j, a, b)
            /\ Trimmed(token) = SubSeq(env, a, b)
            /\ Trimmed(token) \in Seq(Symbols)
    BY <1>2, <1>7
  <2> DEFINE t == Trimmed(token)
  <2>2. t \in Stretches /\ HoldsName(i0, j, t)
    BY <1>0, <2>1, HoldsStretch
  <2>3. \A name : HoldsName(i0, j, name) => name = t
    BY <1>0, <2>1, TrimmedUnique DEF HoldsName
  <2>4. requested' = Append(requested, t) /\ t \in Seq(Symbols)
    BY <1>3, <1>7, <2>1
  <2> HIDE DEF t
  <2>5. /\ requested' \in Seq(Seq(Symbols))
        /\ Len(requested') = Len(requested) + 1
        /\ \A i \in 1..Len(requested) : requested'[i] = requested[i]
        /\ requested'[Len(requested) + 1] = t
    BY <2>4, AppendProperties
  <2>6. \A name : name \in RequestedSet' <=> name \in RequestedSet \/ name = t
    <3>1. Len(requested) \in Nat
      OBVIOUS
    <3>2. \A i : i \in 1..(Len(requested) + 1) <=> i \in 1..Len(requested) \/ i = Len(requested) + 1
      BY <3>1
    <3> QED
      BY <2>5, <3>2 DEF RequestedSet
  <2>7. \A name : name \in RequestedSet' <=> name \in AskedUpTo(j)
    BY <1>4, <1>5, <2>2, <2>3, <2>6
  <2>8. RequestedSet' = AskedUpTo(j)
    <3>1. RequestedSet' = {requested'[i] : i \in 1..Len(requested')}
      BY DEF RequestedSet
    <3> QED
      BY <2>7, <3>1 DEF AskedUpTo
  <2> QED
    BY <2>5, <2>8
<1> QED
  BY <1>6, <1>7

(***************************************************************************)
(* The inductive invariant                                                 *)
(***************************************************************************)

\* What has been requested is what the text before the next token asks for, and
\* at the end all it asks for.
ParseInv ==
    /\ CommaOrEnd(start - 1)
    /\ phase = "parse" => RequestedSet = AskedUpTo(start - 1) /\ checked = 0
    /\ phase # "parse" => RequestedSet = Asked

Passed == {"target", "load", "run", "exit"}

\* Everything is enabled until a name has been looked at, and then what was
\* requested; nobody passes with a name that is not compiled.
ValidateInv ==
    /\ phase \in {"parse", "validate"} /\ checked = 0 => allEnabled
    /\ \A k \in 1..checked : IsCompiled(requested[k])
    /\ phase = "abort" => \E k \in 1..Len(requested) : ~IsCompiled(requested[k])
    /\ phase \in Passed =>
           /\ allEnabled <=> requested = <<>>
           /\ ~allEnabled => enabled = RequestedSet
           /\ \A k \in 1..Len(requested) : IsCompiled(requested[k])

\* The entries of module_defs.h that have been passed and are enabled are in the
\* map, and in the log in the order of the file.
LoadInv ==
    /\ phase \notin {"load", "run"} => next = 1
    /\ phase = "run" => next = Len(Defs) + 1
    /\ modules = {m \in Compiled : \E k \in 1..(next - 1) : Defs[k] = m /\ IsEnabled(m)}
    /\ modules = {log[i] : i \in 1..Len(log)}
    /\ \A i \in 1..Len(log) : \E k \in 1..(next - 1) : Defs[k] = log[i]
    /\ \A i, j \in 1..Len(log) :
        i < j => \E k, l \in 1..Len(Defs) : k < l /\ Defs[k] = log[i] /\ Defs[l] = log[j]

LoadingInv == StartupTypeOK /\ ParseInv /\ ValidateInv /\ LoadInv

LEMMA LoadingInit == StartupInit => LoadingInv
<1> SUFFICES ASSUME StartupInit PROVE LoadingInv
  OBVIOUS
<1>1. env \in Seq(Symbols) /\ Len(env) \in Nat
  BY TextsAssumption DEF StartupInit
<1>2. StartupTypeOK
  BY <1>1, DefsAssumption DEF StartupInit, StartupTypeOK
<1>3. RequestedSet = {}
  BY DEF StartupInit, RequestedSet
<1>4. ParseInv
  <2>1. CommaOrEnd(start - 1)
    BY DEF StartupInit, CommaOrEnd
  <2>2. AskedUpTo(start - 1) = {}
    BY DEF StartupInit, AskedUpTo, Stretch
  <2>3. env = <<>> => Asked = {}
    BY DEF Asked, Stretches
  <2> QED
    BY <1>3, <2>1, <2>2, <2>3 DEF StartupInit, ParseInv
<1>5. ValidateInv
  BY DEF StartupInit, ValidateInv, Passed
<1>6. LoadInv
  <2>1. 1..(next - 1) = {} /\ 1..Len(log) = {}
    BY DEF StartupInit
  <2> QED
    BY <2>1 DEF StartupInit, LoadInv
<1> QED
  BY <1>2, <1>4, <1>5, <1>6 DEF LoadingInv

\* A token, be it the last, leaves what the text up to its end asks for.
LEMMA ParseStep ==
    ASSUME LoadingInv, SplitAtComma \/ TakeLastToken
    PROVE  LoadingInv'
<1>0. /\ env \in Seq(Symbols) /\ Len(env) \in Nat /\ start \in 1..(Len(env) + 1)
      /\ requested \in Seq(Seq(Symbols)) /\ checked \in 0..Len(requested)
      /\ phase = "parse" /\ checked = 0 /\ allEnabled
      /\ CommaOrEnd(start - 1) /\ RequestedSet = AskedUpTo(start - 1)
  BY TextsAssumption
     DEF LoadingInv, StartupTypeOK, ParseInv, ValidateInv, SplitAtComma, TakeLastToken
<1>1. ASSUME NEW j \in start..(Len(env) + 1), CommaOrEnd(j),
             \A k \in start..(j - 1) : env[k] # Comma, Push(SubSeq(env, start, j - 1))
      PROVE  requested' \in Seq(Seq(Symbols)) /\ RequestedSet' = AskedUpTo(j)
  BY <1>0, <1>1, PushAsks
<1>2. CASE SplitAtComma
  <2>1. PICK j \in CommasFrom(start) :
            /\ \A k \in CommasFrom(start) : j <= k
            /\ Push(SubSeq(env, start, j - 1))
            /\ start' = j + 1
    BY <1>2 DEF SplitAtComma
  <2>2. UNCHANGED <<env, fuzz, phase, checked, allEnabled, enabled, next, modules, log>>
    BY <1>2 DEF SplitAtComma
  <2>3. j \in start..Len(env) /\ env[j] = Comma
    BY DEF CommasFrom
  <2>4. \A k \in start..(j - 1) : env[k] # Comma
    BY <1>0, <2>1, <2>3 DEF CommasFrom
  <2>5. requested' \in Seq(Seq(Symbols)) /\ RequestedSet' = AskedUpTo(j)
    BY <1>0, <1>1, <2>1, <2>3, <2>4 DEF CommaOrEnd
  <2>6. AskedUpTo(j)' = AskedUpTo(j)
    BY <2>2 DEF AskedUpTo, Stretches, Stretch, HoldsName, CommaOrEnd
  <2>7. start' - 1 = j /\ start' \in 1..(Len(env) + 1)
    BY <1>0, <2>1, <2>3
  <2>8. ParseInv'
    BY <1>0, <2>2, <2>3, <2>5, <2>6, <2>7 DEF ParseInv, CommaOrEnd
  <2>9. StartupTypeOK'
    BY <1>0, <2>2, <2>5, <2>7 DEF LoadingInv, StartupTypeOK
  <2>10. ValidateInv' /\ LoadInv'
    BY <1>0, <2>2 DEF LoadingInv, ValidateInv, Passed, LoadInv, IsEnabled
  <2> QED
    BY <2>8, <2>9, <2>10 DEF LoadingInv
<1>3. CASE TakeLastToken
  <2>1. /\ phase' = "validate" /\ CommasFrom(start) = {}
        /\ Push(SubSeq(env, start, Len(env)))
        /\ UNCHANGED <<env, fuzz, start, checked, allEnabled, enabled, next, modules, log>>
    BY <1>3 DEF TakeLastToken
  <2>2. (Len(env) + 1) - 1 = Len(env) /\ Len(env) + 1 \in start..(Len(env) + 1)
    BY <1>0
  <2>3. \A k \in start..Len(env) : env[k] # Comma
    BY <2>1 DEF CommasFrom
  <2>4. requested' \in Seq(Seq(Symbols)) /\ RequestedSet' = AskedUpTo(Len(env) + 1)
    BY <1>1, <2>1, <2>2, <2>3 DEF CommaOrEnd
  <2>5. Asked' = Asked
    BY <2>1 DEF Asked, Stretches, AsksFor, CommaOrEnd
  <2>6. ParseInv'
    BY <1>0, <2>1, <2>4, <2>5, AskedIsUpToEnd DEF ParseInv, CommaOrEnd
  <2>7. StartupTypeOK'
    BY <1>0, <2>1, <2>4 DEF LoadingInv, StartupTypeOK
  <2>8. ValidateInv' /\ LoadInv'
    BY <1>0, <2>1 DEF LoadingInv, ValidateInv, Passed, LoadInv, IsEnabled
  <2> QED
    BY <2>6, <2>7, <2>8 DEF LoadingInv
<1> QED
  BY <1>2, <1>3

\* Each name is looked at in turn, and one that is not compiled ends the process.
LEMMA ValidateStep ==
    ASSUME LoadingInv, EnableAll \/ ValidateName \/ RejectName
    PROVE  LoadingInv'
<1>0. /\ UNCHANGED <<env, fuzz, start, requested, next, modules, log>>
      /\ phase = "validate" /\ phase' \in {"validate", "target", "abort"}
      /\ StartupTypeOK /\ ParseInv /\ ValidateInv /\ LoadInv
  BY DEF LoadingInv, EnableAll, ValidateName, RejectName
<1>1. RequestedSet \subseteq Seq(Symbols) /\ RequestedSet' = RequestedSet
  BY <1>0 DEF StartupTypeOK, RequestedSet
<1>2. ParseInv'
  <2>1. Asked' = Asked
    BY <1>0 DEF Asked, Stretches, AsksFor, CommaOrEnd
  <2> QED
    BY <1>0, <1>1, <2>1 DEF ParseInv, CommaOrEnd
<1>3. StartupTypeOK'
  <2>1. Len(requested) \in Nat /\ checked \in 0..Len(requested) /\ enabled \subseteq Seq(Symbols)
    BY <1>0 DEF StartupTypeOK
  <2>2. checked' \in 0..Len(requested')
    BY <1>0, <2>1 DEF EnableAll, ValidateName, RejectName
  <2>3. enabled' \subseteq Seq(Symbols)
    BY <1>1, <2>1 DEF EnableAll, ValidateName, RejectName
  <2>4. allEnabled' \in BOOLEAN
    BY <1>0 DEF StartupTypeOK, EnableAll, ValidateName, RejectName
  <2> QED
    BY <1>0, <2>2, <2>3, <2>4 DEF StartupTypeOK
<1>4. LoadInv'
  <2>1. next = 1 /\ modules = {} /\ 1..(next - 1) = {}
    BY <1>0 DEF LoadInv
  <2> QED
    BY <1>0, <2>1 DEF LoadInv
<1>5. ValidateInv'
  <2>0. Len(requested) \in Nat /\ checked \in 0..Len(requested)
    BY <1>0 DEF StartupTypeOK
  <2>1. CASE EnableAll
    <3>1. requested = <<>> /\ phase' = "target" /\ UNCHANGED <<checked, allEnabled, enabled>>
      BY <2>1 DEF EnableAll
    <3>2. allEnabled /\ Len(requested) = 0
      BY <1>0, <2>0, <3>1 DEF ValidateInv
    <3> QED
      BY <1>0, <3>1, <3>2 DEF ValidateInv, Passed, IsCompiled
  <2>2. CASE ValidateName
    <3>1. /\ IsCompiled(requested[checked + 1]) /\ checked < Len(requested)
          /\ checked' = checked + 1 /\ allEnabled' = FALSE /\ enabled' = RequestedSet
          /\ phase' = IF checked' = Len(requested) THEN "target" ELSE "validate"
      BY <2>2 DEF ValidateName
    <3>2. requested # <<>>
      BY <2>0, <3>1
    <3>3. \A k \in 1..(checked + 1) : IsCompiled(requested[k])
      BY <1>0, <2>0, <3>1 DEF ValidateInv
    <3>4. \A name : IsCompiled(name)' <=> IsCompiled(name)
      BY DEF IsCompiled
    <3> QED
      BY <1>0, <1>1, <2>0, <3>1, <3>2, <3>3, <3>4 DEF ValidateInv, Passed
  <2>3. CASE RejectName
    <3>1. /\ ~IsCompiled(requested[checked + 1]) /\ checked < Len(requested)
          /\ phase' = "abort" /\ UNCHANGED checked
      BY <2>3 DEF RejectName
    <3>2. checked + 1 \in 1..Len(requested)
      BY <2>0, <3>1
    <3> QED
      BY <1>0, <3>1, <3>2 DEF ValidateInv, Passed, IsCompiled
  <2> QED
    BY <2>1, <2>2, <2>3
<1> QED
  BY <1>2, <1>3, <1>4, <1>5 DEF LoadingInv

\* One entry of module_defs.h at a time goes into the map and to the log, or is
\* passed over.
LEMMA LoadStep ==
    ASSUME LoadingInv, LoadModule \/ PassOver
    PROVE  LoadingInv'
<1>0. /\ UNCHANGED <<env, fuzz, phase, start, requested, checked, allEnabled, enabled>>
      /\ phase = "load" /\ next <= Len(Defs) /\ next' = next + 1
      /\ StartupTypeOK /\ ParseInv /\ ValidateInv /\ LoadInv
      /\ Len(Defs) \in Nat /\ next \in 1..Len(Defs)
  BY DefsAssumption DEF LoadingInv, StartupTypeOK, LoadModule, PassOver
<1>1. ParseInv'
  <2>1. Asked' = Asked /\ RequestedSet' = RequestedSet
    BY <1>0 DEF Asked, Stretches, AsksFor, CommaOrEnd, RequestedSet
  <2> QED
    BY <1>0, <2>1 DEF ParseInv, CommaOrEnd
<1>2. ValidateInv'
  BY <1>0 DEF ValidateInv, Passed, RequestedSet, IsCompiled
<1>3. Defs[next] \in Compiled
  BY <1>0 DEF Compiled
<1>4. \A m : IsEnabled(m)' <=> IsEnabled(m)
  BY <1>0 DEF IsEnabled
<1>5. next' - 1 = next /\ \A k : k \in 1..next <=> k \in 1..(next - 1) \/ k = next
  BY <1>0
<1>6. CASE LoadModule
  <2>1. /\ IsEnabled(Defs[next]) /\ modules' = modules \cup {Defs[next]}
        /\ log' = Append(log, Defs[next])
    BY <1>6 DEF LoadModule
  <2>2. /\ log' \in Seq(Compiled)
        /\ Len(log) \in Nat /\ Len(log') = Len(log) + 1
        /\ \A i \in 1..Len(log) : log'[i] = log[i]
        /\ log'[Len(log) + 1] = Defs[next]
    <3>1. log \in Seq(Compiled)
      BY <1>0 DEF StartupTypeOK
    <3> QED
      BY <1>3, <2>1, <3>1, AppendProperties
  <2>3. \A i : i \in 1..Len(log') <=> i \in 1..Len(log) \/ i = Len(log) + 1
    BY <2>2
  <2>4. StartupTypeOK'
    <3>1. modules' \subseteq Compiled
      BY <1>0, <1>3, <2>1 DEF StartupTypeOK
    <3>2. next' \in 1..(Len(Defs) + 1)
      BY <1>0
    <3> QED
      BY <1>0, <2>2, <3>1, <3>2 DEF StartupTypeOK
  <2>5. modules' = {m \in Compiled : \E k \in 1..next : Defs[k] = m /\ IsEnabled(m)}
    <3>1. modules = {m \in Compiled : \E k \in 1..(next - 1) : Defs[k] = m /\ IsEnabled(m)}
      BY <1>0 DEF LoadInv
    <3> QED
      BY <1>3, <1>5, <2>1, <3>1
  <2>6. modules' = {log'[i] : i \in 1..Len(log')}
    <3>1. modules = {log[i] : i \in 1..Len(log)}
      BY <1>0 DEF LoadInv
    <3>2. \A m : m \in modules' <=> \E i \in 1..Len(log') : m = log'[i]
      BY <2>1, <2>2, <2>3, <3>1
    <3> QED
      BY <3>2
  <2>7. \A i \in 1..Len(log') : \E k \in 1..next : Defs[k] = log'[i]
    <3>1. \A i \in 1..Len(log) : \E k \in 1..(next - 1) : Defs[k] = log[i]
      BY <1>0 DEF LoadInv
    <3> QED
      BY <1>0, <1>5, <2>2, <2>3, <3>1
  <2>8. ASSUME NEW i \in 1..Len(log'), NEW j \in 1..Len(log'), i < j
        PROVE  \E k, l \in 1..Len(Defs) : k < l /\ Defs[k] = log'[i] /\ Defs[l] = log'[j]
    <3>1. i \in 1..Len(log)
      BY <2>2, <2>8
    <3>2. CASE j \in 1..Len(log)
      <4>1. PICK k \in 1..Len(Defs), l \in 1..Len(Defs) :
                k < l /\ Defs[k] = log[i] /\ Defs[l] = log[j]
        BY <1>0, <2>8, <3>1, <3>2 DEF LoadInv
      <4>2. log'[i] = log[i] /\ log'[j] = log[j]
        BY <2>2, <3>1, <3>2
      <4> QED
        BY <4>1, <4>2
    <3>3. CASE j = Len(log) + 1
      <4>1. PICK k \in 1..(next - 1) : Defs[k] = log[i]
        BY <1>0, <3>1 DEF LoadInv
      <4>2. k \in 1..Len(Defs) /\ k < next
        BY <1>0
      <4> QED
        BY <1>0, <2>2, <3>1, <3>3, <4>1, <4>2
    <3> QED
      BY <2>3, <3>2, <3>3
  <2>9. LoadInv'
    <3>1. {m \in Compiled : \E k \in 1..(next' - 1) : Defs[k] = m /\ IsEnabled(m)'} =
              {m \in Compiled : \E k \in 1..next : Defs[k] = m /\ IsEnabled(m)}
      BY <1>4, <1>5
    <3>2. phase' = "load"
      BY <1>0
    <3> QED
      BY <1>5, <2>5, <2>6, <2>7, <2>8, <3>1, <3>2 DEF LoadInv
  <2> QED
    BY <1>1, <1>2, <2>4, <2>9 DEF LoadingInv
<1>7. CASE PassOver
  <2>1. ~IsEnabled(Defs[next]) /\ UNCHANGED <<modules, log>>
    BY <1>7 DEF PassOver
  <2>2. StartupTypeOK'
    <3>1. next' \in 1..(Len(Defs) + 1)
      BY <1>0
    <3> QED
      BY <1>0, <2>1, <3>1 DEF StartupTypeOK
  <2>3. {m \in Compiled : \E k \in 1..next : Defs[k] = m /\ IsEnabled(m)} =
            {m \in Compiled : \E k \in 1..(next - 1) : Defs[k] = m /\ IsEnabled(m)}
    BY <1>5, <2>1
  <2>4. {m \in Compiled : \E k \in 1..(next' - 1) : Defs[k] = m /\ IsEnabled(m)'} =
            {m \in Compiled : \E k \in 1..next : Defs[k] = m /\ IsEnabled(m)}
    BY <1>4, <1>5
  <2>5. \A i \in 1..Len(log) : \E k \in 1..next : Defs[k] = log[i]
    BY <1>0, <1>5 DEF LoadInv
  <2>6. LoadInv'
    <3>1. modules' = {m \in Compiled : \E k \in 1..(next' - 1) : Defs[k] = m /\ IsEnabled(m)'}
      BY <1>0, <2>1, <2>3, <2>4 DEF LoadInv
    <3>2. /\ modules' = {log'[i] : i \in 1..Len(log')}
          /\ \A i, j \in 1..Len(log') : i < j =>
                 \E k, l \in 1..Len(Defs) : k < l /\ Defs[k] = log'[i] /\ Defs[l] = log'[j]
      <4> DEFINE Listed(ms, l) ==
                    /\ ms = {l[i] : i \in 1..Len(l)}
                    /\ \A i, j \in 1..Len(l) : i < j =>
                           \E p, q \in 1..Len(Defs) : p < q /\ Defs[p] = l[i] /\ Defs[q] = l[j]
      <4>1. Listed(modules, log)
        <5>1. modules = {log[i] : i \in 1..Len(log)}
          BY <1>0 DEF LoadInv
        <5>2. \A i, j \in 1..Len(log) : i < j =>
                  \E p, q \in 1..Len(Defs) : p < q /\ Defs[p] = log[i] /\ Defs[q] = log[j]
          BY <1>0 DEF LoadInv
        <5> QED
          BY <5>1, <5>2, Zenon
      <4>2. log' = log /\ modules' = modules
        BY <2>1
      <4>3. Listed(modules', log')
        <5> HIDE DEF Listed
        <5> QED
          BY <4>1, <4>2, Zenon
      <4> QED
        BY <4>3, Zenon
    <3>3. \A i \in 1..Len(log') : \E k \in 1..(next' - 1) : Defs[k] = log'[i]
      BY <1>5, <2>1, <2>5
    <3>4. phase' = "load"
      BY <1>0
    <3> QED
      BY <3>1, <3>2, <3>3, <3>4 DEF LoadInv
  <2> QED
    BY <1>1, <1>2, <2>2, <2>6 DEF LoadingInv
<1> QED
  BY <1>6, <1>7

\* The steps that only go on to the next phase.
LEMMA PhaseStep ==
    ASSUME LoadingInv, ReadTarget \/ LogModules \/ UNCHANGED startupVars
    PROVE  LoadingInv'
<1>0. /\ UNCHANGED <<env, fuzz, start, requested, checked, allEnabled, enabled, next, modules, log>>
      /\ StartupTypeOK /\ ParseInv /\ ValidateInv /\ LoadInv
      /\ Len(Defs) \in Nat
  BY DefsAssumption DEF LoadingInv, ReadTarget, LogModules, startupVars
<1>1. \/ phase' = phase
      \/ phase = "target" /\ phase' \in {"exit", "load"}
      \/ phase = "load" /\ phase' = "run" /\ next > Len(Defs)
  BY DEF ReadTarget, LogModules, startupVars
<1>2. ParseInv'
  <2>1. AskedUpTo(start - 1)' = AskedUpTo(start - 1)
    BY <1>0 DEF AskedUpTo, Stretches, Stretch, HoldsName, CommaOrEnd
  <2>2. Asked' = Asked /\ RequestedSet' = RequestedSet
    BY <1>0 DEF Asked, Stretches, AsksFor, CommaOrEnd, RequestedSet
  <2> QED
    BY <1>0, <1>1, <2>1, <2>2 DEF ParseInv, CommaOrEnd
<1>3. ValidateInv'
  BY <1>0, <1>1 DEF ValidateInv, Passed, RequestedSet, IsCompiled
<1>4. StartupTypeOK'
  BY <1>0, <1>1 DEF StartupTypeOK
<1>5. LoadInv'
  <2>1. next \in 1..(Len(Defs) + 1)
    BY <1>0 DEF StartupTypeOK
  <2> QED
    BY <1>0, <1>1, <2>1 DEF LoadInv, IsEnabled
<1> QED
  BY <1>2, <1>3, <1>4, <1>5 DEF LoadingInv

LEMMA LoadingHolds == StartupSpec => []LoadingInv
<1>1. LoadingInv /\ [StartupNext]_startupVars => LoadingInv'
  BY ParseStep, ValidateStep, LoadStep, PhaseStep DEF StartupNext
<1> QED
  BY <1>1, LoadingInit, PTL DEF StartupSpec

(***************************************************************************)
(* The theorems                                                            *)
(***************************************************************************)

\* The log lists the map's entries once each, in the order of construction.
THEOREM LogLists == StartupSpec => []LogIsMap
<1>1. LoadingInv => LogIsMap
  BY DEF LoadingInv, LoadInv, LogIsMap
<1> QED
  BY <1>1, LoadingHolds, PTL

\* The process aborts exactly when a name between the commas of MODULES is not
\* compiled.
THEOREM AbortsExactly == StartupSpec => []AbortsForUnknown
<1>1. LoadingInv => AbortsForUnknown
  <2> SUFFICES ASSUME LoadingInv PROVE AbortsForUnknown
    OBVIOUS
  <2>1. phase # "parse" => RequestedSet = Asked
    BY DEF LoadingInv, ParseInv
  <2>2. phase = "abort" => \E name \in RequestedSet : ~IsCompiled(name)
    BY DEF LoadingInv, ValidateInv, RequestedSet
  <2>3. phase \in Passed => \A name \in RequestedSet : IsCompiled(name)
    BY DEF LoadingInv, ValidateInv, RequestedSet
  <2> QED
    BY <2>1, <2>2, <2>3 DEF AbortsForUnknown, Passed
<1> QED
  BY <1>1, LoadingHolds, PTL

\* A run has exactly the modules that MODULES asks for, whatever its blanks,
\* empty items, repetitions and order, and all of them when it asks for none.
THEOREM LoadsAsked == StartupSpec => []LoadsWhatWasAsked
<1>1. LoadingInv => LoadsWhatWasAsked
  <2> SUFFICES ASSUME LoadingInv, phase = "run"
               PROVE  /\ Asked = {} => modules = Compiled
                      /\ Asked # {} => {<<m>> : m \in modules} = Asked
    BY DEF LoadsWhatWasAsked
  <2>1. /\ RequestedSet = Asked
        /\ allEnabled <=> requested = <<>>
        /\ ~allEnabled => enabled = RequestedSet
        /\ \A k \in 1..Len(requested) : IsCompiled(requested[k])
    BY DEF LoadingInv, ParseInv, ValidateInv, Passed
  <2>2. \A name \in Asked : IsCompiled(name)
    BY <2>1 DEF RequestedSet
  <2>3. requested = <<>> <=> Asked = {}
    <3>1. requested \in Seq(Seq(Symbols))
      BY DEF LoadingInv, StartupTypeOK
    <3>2. requested # <<>> => requested[1] \in RequestedSet
      BY <3>1 DEF RequestedSet
    <3>3. requested = <<>> => RequestedSet = {}
      BY DEF RequestedSet
    <3> QED
      BY <2>1, <3>2, <3>3
  <2>4. \A m : m \in modules <=> m \in Compiled /\ IsEnabled(m)
    <3>1. next = Len(Defs) + 1 /\ Len(Defs) \in Nat
      BY DefsAssumption DEF LoadingInv, LoadInv
    <3>2. modules = {m \in Compiled : \E k \in 1..Len(Defs) : Defs[k] = m /\ IsEnabled(m)}
      BY <3>1 DEF LoadingInv, LoadInv
    <3> QED
      BY <3>2 DEF Compiled
  <2>5. Asked = {} => modules = Compiled
    BY <2>1, <2>3, <2>4 DEF IsEnabled
  <2>6. ASSUME Asked # {} PROVE {<<m>> : m \in modules} = Asked
    <3>1. \A m : m \in modules <=> m \in Compiled /\ <<m>> \in Asked
      BY <2>1, <2>3, <2>4, <2>6 DEF IsEnabled
    <3>2. \A name \in Asked : \E m \in modules : name = <<m>>
      BY <2>2, <3>1 DEF IsCompiled
    <3> QED
      BY <3>1, <3>2
  <2> QED
    BY <2>5, <2>6
<1> QED
  BY <1>1, LoadingHolds, PTL

(***************************************************************************)
(* Lemmas about the operators of Targets                                   *)
(***************************************************************************)

\* A module that gave no answer takes part in no chain.
LEMMA NoAnswerNoValue ==
    ASSUME NEW t, NEW in, NEW lane
    PROVE  /\ Compared(t, in, Unasked, lane) = None
           /\ Compared(t, in, NullOpt, lane) = None
BY DEF Compared

\* What is compared is a value of the target, or nothing.
LEMMA ComparedType ==
    ASSUME NEW t, NEW in, NEW lane \in Lanes,
           NEW a \in Answers(t) \cup {Unasked}
    PROVE  Compared(t, in, a, lane) \in Values(t) \cup {None}
<1>1. CASE a \in {NullOpt, Unasked}
  BY <1>1 DEF Compared
<1>2. CASE a \in [tag : AnswerTags(t), body : Bodies]
  <2>1. a \in Values(t)
    BY <1>2 DEF Values
  <2>2. a.body \in Bodies
    BY <1>2
  <2>3. \A l \in Lanes : AddressValue(a, l) \in Values(t) \cup {None}
    BY <2>1 DEF AddressValue
  <2>4. MainValue(t, in, a) \in Values(t) \cup {None}
    <3>1. MerkleRoot(a) \in Values(t) \cup {None}
      BY <2>2 DEF MerkleRoot, Values
    <3>2. CompactBlocksValue(a) \in Values(t) \cup {None}
      BY <2>1 DEF CompactBlocksValue, Values
    <3>3. PsbtValue(a) \in Values(t) \cup {None}
      BY <2>1 DEF PsbtValue
    <3>4. Bech32Value(in, a) \in Values(t) \cup {None}
      BY <2>1 DEF Bech32Value
    <3> QED
      BY <2>1, <2>3, <3>1, <3>2, <3>3, <3>4 DEF MainValue, PsbtTargets, Lanes
  <2>5. SideValue(t, a) \in Values(t) \cup {None}
    BY <2>3 DEF SideValue, MerkleDetection, Values, Lanes
  <2> QED
    BY <2>4, <2>5 DEF Compared
<1> QED
  BY <1>1, <1>2 DEF Answers

\* An assigned value is never mistaken for "no last response".
LEMMA NoneIsNoValue ==
    ASSUME NEW t PROVE None \notin Values(t) /\ None \notin Answers(t) \cup {Unasked}
<1>1. "none" \notin AnswerTags(t) \cup {"err", "root", "detected", "clean", "nullopt", "unasked"}
  BY DEF AnswerTags
<1> QED
  BY <1>1 DEF None, Values, Answers, NullOpt, Unasked

(***************************************************************************)
(* Type correctness                                                        *)
(***************************************************************************)
LEMMA OrderIsEnumeration ==
    /\ Count \in Nat
    /\ \A i \in 1..Count : Order[i] \in Names
BY OrderAssumption DEF Count

\* The types hold at the start.
LEMMA TypeInit == Init => TypeOK
BY OrderIsEnumeration, MaxRunsAssumption
   DEF Init, TypeOK, NoAnswers, Causes, Answers

\* Every step keeps the types.
LEMMA TypeStep == TypeOK /\ [Next]_vars => TypeOK'
<1> SUFFICES ASSUME TypeOK, [Next]_vars PROVE TypeOK'
  OBVIOUS
<1> USE DEF TypeOK
<1>1. ASSUME NEW in \in Inputs, BeginRun(in) PROVE TypeOK'
  BY <1>1, OrderIsEnumeration, MaxRunsAssumption DEF BeginRun, NoAnswers
<1>2. CASE RejectTarget
  BY <1>2, MaxRunsAssumption DEF RejectTarget, Abort, Causes
<1>3. CASE SkipModule
  BY <1>3, OrderIsEnumeration DEF SkipModule, AtModule
<1>4. ASSUME NEW a \in Answers(target), AcceptAnswer(a) PROVE TypeOK'
  <2>1. Order[pos] \in Names
    BY <1>4, OrderIsEnumeration DEF AcceptAnswer, AtModule
  <2>2. last' \in [Lanes -> Values(target) \cup {None}]
    <3>1. \A lane \in Lanes : Compared(target, input, a, lane) \in Values(target) \cup {None}
      BY ComparedType
    <3> QED
      BY <1>4, <3>1 DEF AcceptAnswer
  <2>3. lastName' \in [Lanes -> Names \cup {NoName}]
    BY <1>4, <2>1 DEF AcceptAnswer
  <2>4. answers' \in [Names -> Answers(target) \cup {Unasked}]
    BY <1>4, <2>1 DEF AcceptAnswer
  <2> QED
    BY <1>4, <2>2, <2>3, <2>4, OrderIsEnumeration DEF AcceptAnswer, AtModule
<1>5. ASSUME NEW a \in Answers(target), ReportMismatch(a) PROVE TypeOK'
  BY <1>5, OrderIsEnumeration DEF ReportMismatch, AtModule, Abort, Causes
<1>6. ASSUME NEW a \in Answers(target), ReportMalformed(a) PROVE TypeOK'
  BY <1>6 DEF ReportMalformed, Abort, Causes
<1>7. CASE ModuleDies
  BY <1>7 DEF ModuleDies, Abort, Causes
<1>8. CASE EndRun
  BY <1>8 DEF EndRun
<1>9. CASE UNCHANGED vars
  BY <1>9 DEF vars
<1> QED
  BY <1>1, <1>2, <1>3, <1>4, <1>5, <1>6, <1>7, <1>8, <1>9 DEF Next

\* Every variable keeps its type.
THEOREM TypeCorrect == Spec => []TypeOK
BY TypeInit, TypeStep, PTL DEF Spec

(***************************************************************************)
(* A chain that compares values decides the pairwise disagreement          *)
(***************************************************************************)

\* The abstract specification reads the inputs and the answers the same way.
LEMMA SameVocabulary ==
    /\ Oracle!NullOpt = NullOpt
    /\ Oracle!Unasked = Unasked
    /\ Oracle!NoAnswers = NoAnswers
    /\ Oracle!PsbtTargets = PsbtTargets
    /\ \A t : Oracle!Answers(t) = Answers(t)
    /\ \A in : Oracle!OverCap(in) <=> OverCap(in)
    /\ \A t, in : Oracle!Accepts(t, in) <=> Accepts(t, in)
    /\ \A t, m, in : Oracle!SkipsModule(t, m, in) <=> SkipsModule(t, m, in)
<1>1. Oracle!NullOpt = NullOpt /\ Oracle!Unasked = Unasked
  BY DEF Oracle!NullOpt, NullOpt, Oracle!Unasked, Unasked, Oracle!Blank, Blank
<1>2. Oracle!NoAnswers = NoAnswers
  BY <1>1 DEF Oracle!NoAnswers, NoAnswers
<1>3. Oracle!PsbtTargets = PsbtTargets
  BY DEF Oracle!PsbtTargets, PsbtTargets
<1>4. ASSUME NEW t PROVE Oracle!Answers(t) = Answers(t)
  <2>1. Oracle!AnswerTags(t) = AnswerTags(t)
    BY <1>3 DEF Oracle!AnswerTags, AnswerTags
  <2> QED
    BY <1>1, <2>1 DEF Oracle!Answers, Answers
<1>5. ASSUME NEW in PROVE Oracle!OverCap(in) <=> OverCap(in)
  BY DEF Oracle!OverCap, OverCap, Oracle!Bech32DataLength, Bech32DataLength
<1>6. ASSUME NEW t, NEW in PROVE Oracle!Accepts(t, in) <=> Accepts(t, in)
  BY DEF Oracle!Accepts, Accepts, Oracle!MinBytes, MinBytes, Oracle!ExactBytes, ExactBytes,
         Oracle!StructuredTargets, StructuredTargets,
         Oracle!Musig2Targets, Musig2Targets,
         Oracle!SilentPaymentsTargets, SilentPaymentsTargets,
         Oracle!SighashComparable, SighashComparable
<1>7. ASSUME NEW t, NEW m, NEW in
      PROVE Oracle!SkipsModule(t, m, in) <=> SkipsModule(t, m, in)
  <2>1. Oracle!SkippedInScriptEval(m, in) <=> SkippedInScriptEval(m, in)
    BY DEF Oracle!SkippedInScriptEval, SkippedInScriptEval, Oracle!CSV, CSV,
           Oracle!CHECKSIG, CHECKSIG, Oracle!CHECKMULTISIG, CHECKMULTISIG,
           Oracle!CHECKMULTISIGVERIFY, CHECKMULTISIGVERIFY
  <2>2. Oracle!SkippedInVerifyScript(m, in) <=> SkippedInVerifyScript(m, in)
    BY DEF Oracle!SkippedInVerifyScript, SkippedInVerifyScript, Oracle!CHECKSIG, CHECKSIG,
           Oracle!CHECKMULTISIGVERIFY, CHECKMULTISIGVERIFY
  <2>3. Oracle!SkippedInPubkeyParse(m, in) <=> SkippedInPubkeyParse(m, in)
    BY DEF Oracle!SkippedInPubkeyParse, SkippedInPubkeyParse
  <2> QED
    BY <2>1, <2>2, <2>3 DEF Oracle!SkipsModule, SkipsModule
<1> QED
  BY <1>1, <1>2, <1>3, <1>4, <1>5, <1>6, <1>7

\* Two answers differ in a chain exactly when the target's handler means them
\* to: the lanes and normal forms of Compared say what Oracle!Disagree says.
LEMMA DisagreeIsLaneDifference ==
    ASSUME NEW t, NEW in,
           NEW a \in Answers(t) \cup {Unasked}, NEW b \in Answers(t) \cup {Unasked},
           ~Malformed(t, a), ~Malformed(t, b)
    PROVE  Oracle!Disagree(t, in, a, b) <=>
               \E lane \in Lanes :
                   /\ Compared(t, in, a, lane) # None
                   /\ Compared(t, in, b, lane) # None
                   /\ Compared(t, in, a, lane) # Compared(t, in, b, lane)
<1> DEFINE Silent(x) == x \in {NullOpt, Unasked}
           Spoken == [tag : AnswerTags(t), body : Bodies]
<1>1. CASE Silent(a) \/ Silent(b)
  BY <1>1, SameVocabulary DEF Compared, Oracle!Disagree, Oracle!Meaningful
<1>2. CASE ~Silent(a) /\ ~Silent(b)
  <2>1. a \in Spoken /\ b \in Spoken
    BY <1>2 DEF Answers
  <2>2. None \notin Spoken
    BY NoneIsNoValue DEF Answers
  <2>3. /\ Compared(t, in, a, "main") = MainValue(t, in, a)
        /\ Compared(t, in, b, "main") = MainValue(t, in, b)
        /\ Compared(t, in, a, "side") = SideValue(t, a)
        /\ Compared(t, in, b, "side") = SideValue(t, b)
    BY <1>2 DEF Compared
  <2>4. CASE t = "address_parse"
    <3>1. /\ a.tag \in {"plain", "unk", "witness_unknown"}
          /\ b.tag \in {"plain", "unk", "witness_unknown"}
      BY <2>1, <2>4 DEF AnswerTags, PsbtTargets
    <3>2. MainValue(t, in, a) = AddressValue(a, "main") /\ MainValue(t, in, b) = AddressValue(b, "main")
      BY <2>4 DEF MainValue, PsbtTargets
    <3>3. SideValue(t, a) = AddressValue(a, "side") /\ SideValue(t, b) = AddressValue(b, "side")
      BY <2>4 DEF SideValue
    <3> QED
      BY <1>2, <2>1, <2>2, <2>3, <2>4, <3>1, <3>2, <3>3, SameVocabulary
         DEF AddressValue, Lanes, Oracle!Disagree, Oracle!Meaningful, Oracle!Differ, PsbtTargets
  <2>5. CASE t = "merkle_root_compute"
    <3>1. /\ a.tag \in {"intact", "mutated", "rejected"}
          /\ b.tag \in {"intact", "mutated", "rejected"}
      BY <2>1, <2>5 DEF AnswerTags, Malformed
    <3>2. MainValue(t, in, a) = MerkleRoot(a) /\ MainValue(t, in, b) = MerkleRoot(b)
      BY <2>5 DEF MainValue, PsbtTargets
    <3>3. SideValue(t, a) = MerkleDetection(a) /\ SideValue(t, b) = MerkleDetection(b)
      BY <2>5 DEF SideValue
    <3>4. /\ MerkleDetection(a) # None /\ MerkleDetection(b) # None
          /\ MerkleDetection(a) # MerkleDetection(b) <=> Oracle!Detects(a) # Oracle!Detects(b)
      BY <3>1 DEF MerkleDetection, None, Oracle!Detects
    <3>5. (/\ MerkleRoot(a) # None
           /\ MerkleRoot(b) # None
           /\ MerkleRoot(a) # MerkleRoot(b)) <=> /\ "rejected" \notin {a.tag, b.tag}
                                                /\ a.body # b.body
      BY <3>1 DEF MerkleRoot, None
    <3>6. Oracle!Disagree(t, in, a, b) <=>
              \/ Oracle!Detects(a) # Oracle!Detects(b)
              \/ /\ "rejected" \notin {a.tag, b.tag}
                 /\ a.body # b.body
      BY <1>2, <2>5, SameVocabulary DEF Oracle!Disagree, Oracle!Meaningful, Oracle!Differ, PsbtTargets
    <3> QED
      BY <2>3, <3>2, <3>3, <3>4, <3>5, <3>6 DEF Lanes
  <2>6. CASE t \notin {"address_parse", "merkle_root_compute"}
    <3>1. SideValue(t, a) = None /\ SideValue(t, b) = None
      BY <2>6 DEF SideValue
    <3>2. CASE t = "cmpctblocks_parse"
      <4>1. MainValue(t, in, a) = CompactBlocksValue(a) /\ MainValue(t, in, b) = CompactBlocksValue(b)
        BY <3>2 DEF MainValue, PsbtTargets
      <4>2. a.body # Blank /\ b.body # Blank
        BY <2>1, BodiesAssumption
      <4>3. Oracle!Disagree(t, in, a, b) <=> a # b /\ ~(a.tag = "err" /\ b.tag = "err")
        BY <1>2, <3>2, SameVocabulary DEF Oracle!Disagree, Oracle!Meaningful, Oracle!Differ, PsbtTargets
      <4> QED
        BY <2>1, <2>2, <2>3, <3>1, <4>1, <4>2, <4>3 DEF CompactBlocksValue, None, Lanes
    <3>3. CASE t \in PsbtTargets
      <4>1. MainValue(t, in, a) = PsbtValue(a) /\ MainValue(t, in, b) = PsbtValue(b)
        BY <3>3 DEF MainValue, PsbtTargets
      <4>2. Oracle!Disagree(t, in, a, b) <=> a # b /\ a.tag # "void" /\ b.tag # "void"
        BY <1>2, <3>3, SameVocabulary DEF Oracle!Disagree, Oracle!Meaningful, Oracle!Differ, PsbtTargets
      <4> QED
        BY <2>1, <2>2, <2>3, <3>1, <4>1, <4>2 DEF PsbtValue, Lanes
    <3>4. CASE t = "bech32_roundtrip"
      <4>1. MainValue(t, in, a) = Bech32Value(in, a) /\ MainValue(t, in, b) = Bech32Value(in, b)
        BY <3>4 DEF MainValue, PsbtTargets
      <4>2. Oracle!Disagree(t, in, a, b) <=> a # b /\ ~OverCap(in)
        BY <1>2, <3>4, SameVocabulary DEF Oracle!Disagree, Oracle!Meaningful, Oracle!Differ, PsbtTargets
      <4> QED
        BY <2>1, <2>2, <2>3, <3>1, <4>1, <4>2 DEF Bech32Value, Lanes
    <3>5. CASE t \notin {"cmpctblocks_parse", "bech32_roundtrip"} \cup PsbtTargets
      <4>1. MainValue(t, in, a) = a /\ MainValue(t, in, b) = b
        BY <2>6, <3>5 DEF MainValue, PsbtTargets
      <4>2. Oracle!Disagree(t, in, a, b) <=> a # b
        BY <1>2, <2>6, <3>5, SameVocabulary DEF Oracle!Disagree, Oracle!Meaningful, Oracle!Differ, PsbtTargets
      <4> QED
        BY <2>1, <2>2, <2>3, <3>1, <4>1, <4>2 DEF Lanes
    <3> QED
      BY <3>2, <3>3, <3>4, <3>5
  <2> QED
    BY <2>4, <2>5, <2>6
<1> QED
  BY <1>1, <1>2

(***************************************************************************)
(* The inductive invariant                                                 *)
(***************************************************************************)

\* An answer is compared with the answers that are really there.
WellFormedAnswers == \A m \in Names : ~Malformed(target, answers[m])

\* Behind the iterator every module was asked or left out; ahead, none was.
AskedInOrder ==
    status = "running" =>
        \A i \in 1..Count :
            IF i < pos
            THEN answers[Order[i]] # Unasked \/ SkipsModule(target, Order[i], input)
            ELSE answers[Order[i]] = Unasked

\* A cause is set when the process dies, never before.
DiesOnce == cause # "none" => status = "aborted"

Inv ==
    /\ TypeOK
    /\ WellFormedAnswers
    /\ AskedInOrder
    /\ DiesOnce
    /\ LastIsLatest
    /\ BlamesRealPair

\* The invariant holds at the start.
LEMMA InvInit == Init => Inv
<1> SUFFICES ASSUME Init PROVE Inv
  OBVIOUS
<1>1. \A m \in Names : answers[m] = Unasked
  BY DEF Init, NoAnswers
<1>2. WellFormedAnswers
  BY <1>1 DEF WellFormedAnswers, Malformed, Unasked
<1> QED
  BY <1>2, TypeInit DEF Init, Inv, AskedInOrder, DiesOnce, LastIsLatest, BlamesRealPair

\* The answer that is reported contradicts the one last_module_name gave.
LEMMA MismatchIsDisagreement ==
    ASSUME Inv, AtModule, NEW a \in Answers(target), ~Malformed(target, a), Mismatch(a)
    PROVE  \E lane \in Lanes :
               /\ lastName[lane] \in Names
               /\ lastName[lane] # Order[pos]
               /\ Oracle!Disagree(target, input, a, answers[lastName[lane]])
<1>1. PICK lane \in Lanes :
          /\ Compared(target, input, a, lane) # None
          /\ last[lane] # None
          /\ Compared(target, input, a, lane) # last[lane]
  BY DEF Mismatch
<1>2. PICK i \in 1..Count :
          /\ Order[i] = lastName[lane]
          /\ last[lane] = Compared(target, input, answers[Order[i]], lane)
  BY <1>1 DEF Inv, LastIsLatest, AtModule
<1>3. Order[i] \in Names
  BY OrderIsEnumeration
<1>4. answers[Order[i]] \in Answers(target) \cup {Unasked} /\ ~Malformed(target, answers[Order[i]])
  BY <1>3 DEF Inv, TypeOK, WellFormedAnswers
<1>5. Oracle!Disagree(target, input, a, answers[Order[i]])
  BY <1>1, <1>2, <1>4, DisagreeIsLaneDifference
<1>6. Order[i] # Order[pos]
  <2>1. answers[Order[pos]] = Unasked
    BY DEF Inv, TypeOK, AskedInOrder, AtModule
  <2> QED
    BY <2>1, <1>1, <1>2, NoAnswerNoValue
<1> QED
  BY <1>2, <1>3, <1>5, <1>6

\* Disagreement has no direction.
LEMMA DisagreeSymmetric ==
    ASSUME NEW t, NEW in, NEW a, NEW b, Oracle!Disagree(t, in, a, b)
    PROVE  Oracle!Disagree(t, in, b, a)
BY DEF Oracle!Disagree, Oracle!Differ

\* Every step keeps the invariant.
LEMMA InvStep == Inv /\ [Next]_vars => Inv'
<1> SUFFICES ASSUME Inv, [Next]_vars PROVE Inv'
  OBVIOUS
<1>0. TypeOK' /\ TypeOK
  BY TypeStep DEF Inv
<1>1. ASSUME NEW in \in Inputs, BeginRun(in) PROVE Inv'
  <2>1. \A m \in Names : answers'[m] = Unasked
    BY <1>1 DEF BeginRun, NoAnswers
  <2>2. WellFormedAnswers'
    BY <2>1 DEF WellFormedAnswers, Malformed, Unasked
  <2>3. AskedInOrder'
    BY <1>1, <2>1, OrderIsEnumeration DEF AskedInOrder, BeginRun
  <2>4. LastIsLatest'
    BY <1>1, <2>1, OrderIsEnumeration, NoAnswerNoValue DEF LastIsLatest, BeginRun
  <2>5. DiesOnce' /\ BlamesRealPair'
    BY <1>1 DEF Inv, DiesOnce, BlamesRealPair, BeginRun
  <2> QED
    BY <1>0, <2>2, <2>3, <2>4, <2>5 DEF Inv
<1>2. CASE RejectTarget
  BY <1>0, <1>2
     DEF Inv, RejectTarget, Abort, WellFormedAnswers, AskedInOrder, DiesOnce,
         LastIsLatest, BlamesRealPair
<1>3. CASE SkipModule
  <2>1. AskedInOrder'
    BY <1>0, <1>3 DEF Inv, TypeOK, AskedInOrder, SkipModule, AtModule
  <2> QED
    BY <1>0, <1>3, <2>1
       DEF Inv, SkipModule, AtModule, WellFormedAnswers, DiesOnce, LastIsLatest, BlamesRealPair
<1>4. ASSUME NEW a \in Answers(target), AcceptAnswer(a) PROVE Inv'
  <2> DEFINE m == Order[pos]
  <2>1. /\ status = "running" /\ pos \in 1..Count
        /\ answers' = [answers EXCEPT ![m] = a] /\ pos' = pos + 1
        /\ UNCHANGED <<target, status, input, cause>>
        /\ ~Malformed(target, a)
    BY <1>0, <1>4, OrderIsEnumeration DEF AcceptAnswer, AtModule, TypeOK
  <2>2. m \in Names /\ answers[m] = Unasked
    BY <1>0, <2>1, OrderIsEnumeration DEF Inv, AskedInOrder
  <2>3. \A i \in 1..Count : answers'[Order[i]] = IF i = pos THEN a ELSE answers[Order[i]]
    BY <1>0, <2>1, OrderIsEnumeration, OrderAssumption DEF TypeOK
  <2>4. WellFormedAnswers'
    BY <1>0, <2>1, <2>2 DEF Inv, WellFormedAnswers, TypeOK
  <2>5. AskedInOrder'
    <3>1. a # Unasked
      BY DEF Answers, AnswerTags, NullOpt, Unasked, PsbtTargets
    <3> QED
      BY <1>0, <2>1, <2>3, <3>1 DEF Inv, AskedInOrder, TypeOK
  <2>6. DiesOnce' /\ BlamesRealPair'
    BY <2>1 DEF Inv, DiesOnce, BlamesRealPair
  <2>7. LastIsLatest'
    <3> DEFINE C(x, lane) == Compared(target, input, x, lane)
    <3>1. SUFFICES ASSUME NEW lane \in Lanes
                   PROVE  IF last'[lane] = None
                          THEN \A i \in 1..Count : C(answers'[Order[i]], lane) = None
                          ELSE \E i \in 1..Count :
                                  /\ Order[i] = lastName'[lane]
                                  /\ last'[lane] = C(answers'[Order[i]], lane)
                                  /\ \A j \in (i + 1)..Count : C(answers'[Order[j]], lane) = None
      BY <2>1 DEF LastIsLatest
    <3>2. CASE C(a, lane) # None
      <4>1. last'[lane] = C(a, lane) /\ lastName'[lane] = m
        BY <1>4, <3>2 DEF AcceptAnswer
      <4>2. ASSUME NEW j \in (pos + 1)..Count PROVE C(answers'[Order[j]], lane) = None
        <5>1. answers'[Order[j]] = Unasked
          BY <2>1, <2>3, OrderIsEnumeration DEF Inv, AskedInOrder
        <5> QED
          BY <5>1, NoAnswerNoValue
      <4>3. last'[lane] = C(answers'[Order[pos]], lane)
        BY <4>1, <2>1, <2>3
      <4> QED
        BY <2>1, <3>2, <4>1, <4>2, <4>3
    <3>3. CASE C(a, lane) = None
      <4>1. last'[lane] = last[lane] /\ lastName'[lane] = lastName[lane]
        BY <1>4, <3>3 DEF AcceptAnswer
      <4>2. C(answers[Order[pos]], lane) = None
        BY <2>2, NoAnswerNoValue
      <4>3. \A i \in 1..Count : C(answers'[Order[i]], lane) = C(answers[Order[i]], lane)
        BY <2>3, <3>3, <4>2
      <4>4. CASE last[lane] = None
        <5>1. \A i \in 1..Count : C(answers[Order[i]], lane) = None
          BY <2>1, <4>4 DEF Inv, LastIsLatest
        <5> QED
          BY <4>1, <4>3, <4>4, <5>1
      <4>5. CASE last[lane] # None
        <5>1. PICK i \in 1..Count :
                  /\ Order[i] = lastName[lane]
                  /\ last[lane] = C(answers[Order[i]], lane)
                  /\ \A j \in (i + 1)..Count : C(answers[Order[j]], lane) = None
          BY <2>1, <4>5 DEF Inv, LastIsLatest
        <5>2. \A j \in (i + 1)..Count : C(answers'[Order[j]], lane) = None
          BY <4>3, <5>1, OrderIsEnumeration
        <5> QED
          BY <4>1, <4>3, <4>5, <5>1, <5>2
      <4> QED
        BY <4>4, <4>5
    <3> QED
      BY <3>2, <3>3
  <2> QED
    BY <1>0, <2>4, <2>5, <2>6, <2>7 DEF Inv
<1>5. ASSUME NEW a \in Answers(target), ReportMismatch(a) PROVE Inv'
  <2>1. AtModule /\ ~Malformed(target, a) /\ Mismatch(a)
    BY <1>5 DEF ReportMismatch, Passes
  <2>2. PICK lane \in Lanes :
            /\ lastName[lane] \in Names
            /\ lastName[lane] # Order[pos]
            /\ Oracle!Disagree(target, input, a, answers[lastName[lane]])
    BY <2>1, MismatchIsDisagreement
  <2>3. Order[pos] \in Names
    BY <1>0, <2>1, OrderIsEnumeration DEF TypeOK, AtModule
  <2>4. /\ answers'[Order[pos]] = a
        /\ answers'[lastName[lane]] = answers[lastName[lane]]
        /\ UNCHANGED <<target, input, pos, lastName>>
    BY <1>0, <1>5, <2>2, <2>3 DEF ReportMismatch, TypeOK
  <2>5. BlamesRealPair'
    BY <2>2, <2>4 DEF BlamesRealPair
  <2>6. WellFormedAnswers'
    BY <1>0, <1>5, <2>1, <2>3 DEF Inv, WellFormedAnswers, ReportMismatch, TypeOK
  <2>7. status' = "aborted"
    BY <1>5 DEF ReportMismatch, Abort
  <2> QED
    BY <1>0, <2>5, <2>6, <2>7 DEF Inv, AskedInOrder, DiesOnce, LastIsLatest
<1>6. ASSUME NEW a \in Answers(target), ReportMalformed(a) PROVE Inv'
  BY <1>0, <1>6
     DEF Inv, ReportMalformed, Abort, WellFormedAnswers, AskedInOrder, DiesOnce,
         LastIsLatest, BlamesRealPair
<1>7. CASE ModuleDies
  BY <1>0, <1>7
     DEF Inv, ModuleDies, Abort, WellFormedAnswers, AskedInOrder, DiesOnce,
         LastIsLatest, BlamesRealPair
<1>8. CASE EndRun
  BY <1>0, <1>8
     DEF Inv, EndRun, WellFormedAnswers, AskedInOrder, DiesOnce, LastIsLatest, BlamesRealPair
<1>9. CASE UNCHANGED vars
  BY <1>0, <1>9
     DEF Inv, vars, WellFormedAnswers, AskedInOrder, DiesOnce, LastIsLatest, BlamesRealPair
<1> QED
  BY <1>1, <1>2, <1>3, <1>4, <1>5, <1>6, <1>7, <1>8, <1>9 DEF Next

\* The invariant always holds.
LEMMA Invariance == Spec => []Inv
BY InvInit, InvStep, PTL DEF Spec

\* A mismatch is never a false alarm: the two modules printed disagree.
THEOREM NoFalseAlarm == Spec => []BlamesRealPair
<1>1. Inv => BlamesRealPair
  BY DEF Inv
<1> QED
  BY <1>1, Invariance, PTL

\* Nothing left over from an earlier input or an earlier module is compared.
THEOREM NothingStale == Spec => []LastIsLatest
<1>1. Inv => LastIsLatest
  BY DEF Inv
<1> QED
  BY <1>1, Invariance, PTL

(***************************************************************************)
(* Refinement                                                              *)
(***************************************************************************)

\* Every mismatch is fatal: only addrv2, with Btcd loaded, tolerates any.
Strict == target # "addrv2" \/ "Btcd" \notin Names

\* The last answer of a chain stands for all of them.
LastStandsForAll ==
    \A lane \in Lanes, m \in Names :
        Compared(target, input, answers[m], lane) \in {None, last[lane]}

OneValue == status = "running" => LastStandsForAll

StrictInv == Inv /\ Strict /\ OneValue

\* A matching answer becomes the last one, and so equals all before it.
LEMMA AcceptKeepsOneValue ==
    ASSUME Inv, LastStandsForAll, NEW a \in Answers(target), AcceptAnswer(a), ~Mismatch(a)
    PROVE  LastStandsForAll'
<1>1. /\ answers' = [answers EXCEPT ![Order[pos]] = a]
      /\ UNCHANGED <<target, input>>
  BY DEF AcceptAnswer
<1>2. SUFFICES ASSUME NEW lane \in Lanes, NEW m \in Names
               PROVE  Compared(target, input, answers'[m], lane) \in {None, last'[lane]}
  BY <1>1 DEF LastStandsForAll
<1>3. answers'[m] = IF m = Order[pos] THEN a ELSE answers[m]
  BY <1>1 DEF Inv, TypeOK
<1>4. Compared(target, input, answers[m], lane) \in {None, last[lane]}
  BY DEF LastStandsForAll
<1>5. CASE Compared(target, input, a, lane) = None
  <2>1. last'[lane] = last[lane]
    BY <1>5 DEF AcceptAnswer
  <2> QED
    BY <1>3, <1>4, <1>5, <2>1
<1>6. CASE Compared(target, input, a, lane) # None
  <2>1. last'[lane] = Compared(target, input, a, lane)
    BY <1>6 DEF AcceptAnswer
  <2>2. last[lane] \in {None, Compared(target, input, a, lane)}
    BY <1>6 DEF Mismatch
  <2> QED
    BY <1>3, <1>4, <2>1, <2>2
<1> QED
  BY <1>5, <1>6

\* Without Btcd in the map nothing is tolerated.
LEMMA StrictPasses ==
    ASSUME Inv, Strict, AtModule, NEW a \in Answers(target)
    PROVE  Passes(Order[pos], a) <=> ~Mismatch(a)
<1>1. Order[pos] \in Names /\ lastName["main"] \in Names \cup {NoName}
  BY OrderIsEnumeration DEF Inv, TypeOK, AtModule, Lanes
<1>2. "Btcd" \in {Order[pos], lastName["main"]} => "Btcd" \in Names
  BY <1>1 DEF NoName
<1> QED
  BY <1>2 DEF Passes, Tolerated, Strict

\* The stronger invariant of the targets that forgive nothing holds at the start.
LEMMA StrictInit == Init /\ Strict => StrictInv
BY InvInit DEF StrictInv, OneValue, Init

\* Every step keeps the stronger invariant.
LEMMA StrictStep == StrictInv /\ [Next]_vars => StrictInv'
<1> SUFFICES ASSUME StrictInv, [Next]_vars PROVE StrictInv'
  OBVIOUS
<1>0. Inv /\ Inv' /\ TypeOK
  BY InvStep DEF StrictInv, Inv
<1>1. ASSUME NEW in \in Inputs, BeginRun(in) PROVE Strict' /\ OneValue'
  <2>1. \A m \in Names : answers'[m] = Unasked
    BY <1>1 DEF BeginRun, NoAnswers
  <2> QED
    BY <1>1, <2>1, NoAnswerNoValue DEF StrictInv, Strict, OneValue, LastStandsForAll, BeginRun
<1>2. ASSUME NEW a \in Answers(target), AcceptAnswer(a) PROVE Strict' /\ OneValue'
  <2>1. AtModule /\ ~Mismatch(a) /\ UNCHANGED target
    BY <1>0, <1>2, StrictPasses DEF AcceptAnswer, StrictInv
  <2>2. LastStandsForAll
    BY <2>1 DEF StrictInv, OneValue, AtModule
  <2>3. LastStandsForAll'
    BY <1>0, <1>2, <2>1, <2>2, AcceptKeepsOneValue
  <2> QED
    BY <2>1, <2>3 DEF StrictInv, Strict, OneValue
<1>3. ASSUME SkipModule \/ EndRun \/ UNCHANGED vars PROVE Strict' /\ OneValue'
  BY <1>3 DEF StrictInv, Strict, OneValue, LastStandsForAll, SkipModule, EndRun, vars
<1>4. ASSUME RejectTarget \/ ModuleDies PROVE Strict' /\ OneValue'
  BY <1>4 DEF StrictInv, Strict, OneValue, RejectTarget, ModuleDies, Abort
<1>5. ASSUME NEW a \in Answers(target), ReportMismatch(a) \/ ReportMalformed(a)
      PROVE Strict' /\ OneValue'
  BY <1>5 DEF StrictInv, Strict, OneValue, ReportMismatch, ReportMalformed, Abort
<1> QED
  BY <1>0, <1>1, <1>2, <1>3, <1>4, <1>5 DEF Next, StrictInv

\* The driver starts where the oracle may start.
LEMMA InitRefines == Init => Oracle!OracleInit
BY TargetSetAssumption, SameVocabulary DEF Init, Oracle!OracleInit, Verdict

\* Every step of the driver is a step of the oracle, or none.
LEMMA StepRefines == StrictInv /\ [Next]_vars => [Oracle!OracleNext]_(Oracle!ovars)
<1> SUFFICES ASSUME StrictInv, [Next]_vars
             PROVE  Oracle!OracleNext \/ UNCHANGED Oracle!ovars
  OBVIOUS
<1>0. Inv /\ TypeOK
  BY DEF StrictInv, Inv
<1>1. ASSUME NEW in \in Inputs, BeginRun(in) PROVE Oracle!Offer(in)
  BY <1>0, <1>1, SameVocabulary DEF BeginRun, Oracle!Offer, Verdict
<1>2. CASE RejectTarget
  <2>1. Oracle!Fail
    BY <1>2 DEF RejectTarget, Abort, Oracle!Fail, Verdict
  <2> QED
    BY <2>1 DEF Oracle!OracleNext
<1>3. CASE SkipModule
  BY <1>3 DEF SkipModule, Oracle!ovars, Verdict
<1>4. ASSUME NEW a \in Answers(target), AcceptAnswer(a) \/ ReportMismatch(a)
      PROVE  Oracle!Hear(Order[pos], a)
  <2>1. /\ AtModule
        /\ ~SkipsModule(target, Order[pos], input)
        /\ ~Malformed(target, a)
        /\ answers' = [answers EXCEPT ![Order[pos]] = a]
        /\ UNCHANGED <<target, input>>
    BY <1>4 DEF AcceptAnswer, ReportMismatch
  <2>2. Order[pos] \in Names /\ answers[Order[pos]] = Unasked
    BY <1>0, <2>1, OrderIsEnumeration DEF Inv, AskedInOrder, AtModule, TypeOK
  <2>3. Verdict = "comparing"
    BY <2>1 DEF Verdict, AtModule
  <2>4. Verdict' = IF \E n \in Names : Oracle!Disagree(target, input, answers[n], a)
                   THEN "finding" ELSE "comparing"
    <3>1. CASE AcceptAnswer(a)
      <4>1. Verdict' = "comparing"
        BY <3>1, <2>1 DEF AcceptAnswer, AtModule, Verdict
      <4>2. ~Mismatch(a)
        BY <1>0, <2>1, <3>1, StrictPasses DEF AcceptAnswer, StrictInv
      <4>3. ASSUME NEW n \in Names, Oracle!Disagree(target, input, answers[n], a)
            PROVE  FALSE
        <5>1. answers[n] \in Answers(target) \cup {Unasked} /\ ~Malformed(target, answers[n])
          BY <1>0 DEF Inv, TypeOK, WellFormedAnswers
        <5>2. PICK lane \in Lanes :
                  /\ Compared(target, input, answers[n], lane) # None
                  /\ Compared(target, input, a, lane) # None
                  /\ Compared(target, input, answers[n], lane) # Compared(target, input, a, lane)
          BY <2>1, <4>3, <5>1, DisagreeIsLaneDifference
        <5>3. Compared(target, input, answers[n], lane) = last[lane]
          BY <2>1, <5>2 DEF StrictInv, OneValue, LastStandsForAll, AtModule
        <5> QED
          BY <4>2, <5>2, <5>3 DEF Mismatch
      <4> QED
        BY <4>1, <4>3
    <3>2. CASE ReportMismatch(a)
      <4>1. Verdict' = "finding"
        BY <3>2 DEF ReportMismatch, Abort, Verdict
      <4>2. Mismatch(a)
        BY <3>2 DEF ReportMismatch, Passes
      <4>3. PICK lane \in Lanes :
                /\ lastName[lane] \in Names
                /\ Oracle!Disagree(target, input, a, answers[lastName[lane]])
        BY <1>0, <2>1, <4>2, MismatchIsDisagreement
      <4>4. Oracle!Disagree(target, input, answers[lastName[lane]], a)
        BY <4>3, DisagreeSymmetric
      <4> QED
        BY <4>1, <4>3, <4>4
    <3> QED
      BY <1>4, <3>1, <3>2
  <2> QED
    BY <2>1, <2>2, <2>3, <2>4, SameVocabulary DEF Oracle!Hear
<1>5. ASSUME NEW a \in Answers(target), ReportMalformed(a) PROVE Oracle!Fail
  BY <1>5 DEF ReportMalformed, Abort, AtModule, Oracle!Fail, Verdict
<1>6. CASE ModuleDies
  <2>1. Oracle!Fail
    BY <1>6 DEF ModuleDies, Abort, AtModule, Oracle!Fail, Verdict
  <2> QED
    BY <2>1 DEF Oracle!OracleNext
<1>7. CASE EndRun
  <2>1. ASSUME NEW m \in Names
        PROVE  answers[m] # Unasked \/ SkipsModule(target, m, input)
    <3>1. PICK i \in 1..Count : Order[i] = m
      BY OrderAssumption
    <3>2. i < pos
      BY <1>7, OrderIsEnumeration DEF EndRun
    <3> QED
      BY <1>0, <1>7, <3>1, <3>2 DEF Inv, AskedInOrder, EndRun
  <2>2. Oracle!Agree
    BY <1>7, <2>1, SameVocabulary DEF EndRun, Oracle!Agree, Verdict
  <2> QED
    BY <2>2 DEF Oracle!OracleNext
<1>8. CASE UNCHANGED vars
  BY <1>8 DEF vars, Oracle!ovars, Verdict
<1>9. AtModule =>
        /\ Order[pos] \in Names
        /\ \A a \in Answers(target) : a \in Oracle!Answers(target)
  BY <1>0, OrderIsEnumeration, SameVocabulary DEF TypeOK, AtModule
<1> QED
  <2>1. ASSUME NEW in \in Inputs, BeginRun(in) PROVE Oracle!OracleNext
    BY <1>1, <2>1 DEF Oracle!OracleNext
  <2>2. ASSUME NEW a \in Answers(target), AcceptAnswer(a) \/ ReportMismatch(a)
        PROVE  Oracle!OracleNext
    BY <1>4, <1>9, <2>2 DEF Oracle!OracleNext, AcceptAnswer, ReportMismatch
  <2>3. ASSUME NEW a \in Answers(target), ReportMalformed(a) PROVE Oracle!OracleNext
    BY <1>5, <2>3 DEF Oracle!OracleNext
  <2> QED
    BY <1>2, <1>3, <1>6, <1>7, <1>8, <2>1, <2>2, <2>3 DEF Next

\* On every target but addrv2, and on addrv2 without Btcd, the driver finds
\* exactly the disagreements among all the modules it asks, the moment the
\* first one shows, and it asks every module the target does not leave out.
THEOREM DriverImplementsOracle ==
    ASSUME "addrv2" \notin TargetSet \/ "Btcd" \notin Names
    PROVE  Spec => ImplementsOracle
<1>1. Init => Strict
  BY DEF Init, Strict
<1> QED
  BY <1>1, StrictInit, StrictStep, InitRefines, StepRefines, PTL
     DEF Spec, ImplementsOracle, Oracle!OracleSpec

(***************************************************************************)
(* What addrv2 forgives                                                    *)
(***************************************************************************)

\* A mismatch that was tolerated has left these marks: an answer of Btcd, and
\* an answer on one of the two networks it skips.
BtcdWasNear ==
    /\ target = "addrv2"
    /\ "Btcd" \in Names
    /\ answers["Btcd"] \notin {NullOpt, Unasked}
    /\ \E k \in Names : answers[k].tag \in {"i2p", "cjdns"}

\* Until a mismatch is tolerated the last answer of a chain stands for all of
\* them; afterwards it does not, but the marks stay.
Forgiven == status \in {"running", "agreed"} => LastStandsForAll \/ BtcdWasNear

ForgivingInv == Inv /\ Forgiven

\* A tolerated mismatch leaves its marks.
LEMMA ToleranceLeavesMarks ==
    ASSUME Inv, NEW a \in Answers(target), AcceptAnswer(a), Mismatch(a)
    PROVE  BtcdWasNear'
<1> DEFINE m == Order[pos]
<1>1. /\ AtModule
      /\ Tolerated(target, m, a, lastName["main"], last["main"])
      /\ answers' = [answers EXCEPT ![m] = a]
      /\ UNCHANGED target
  BY DEF AcceptAnswer, Passes
<1>2. /\ target = "addrv2"
      /\ "Btcd" \in {m, lastName["main"]}
      /\ a.tag \in {"i2p", "cjdns"} \/ last["main"].tag \in {"i2p", "cjdns"}
  BY <1>1 DEF Tolerated
<1>3. m \in Names /\ answers[m] = Unasked
  BY <1>1, OrderIsEnumeration DEF Inv, AskedInOrder, AtModule, TypeOK
<1>4. Compared(target, input, a, "main") # None /\ last["main"] # None
  <2>1. \A x : Compared(target, input, x, "side") = None
    BY <1>2 DEF Compared, SideValue
  <2> QED
    BY <2>1 DEF Mismatch, Lanes
<1>5. PICK i \in 1..Count :
          /\ Order[i] = lastName["main"]
          /\ last["main"] = Compared(target, input, answers[Order[i]], "main")
  BY <1>1, <1>4 DEF Inv, LastIsLatest, AtModule, Lanes
<1>6. Order[i] \in Names
  BY OrderIsEnumeration
<1>7. /\ answers[Order[i]] \notin {NullOpt, Unasked}
      /\ Compared(target, input, answers[Order[i]], "main") = answers[Order[i]]
  <2>1. answers[Order[i]] \notin {NullOpt, Unasked}
    BY <1>4, <1>5, NoAnswerNoValue
  <2>2. MainValue(target, input, answers[Order[i]]) = answers[Order[i]]
    BY <1>2 DEF MainValue, PsbtTargets
  <2> QED
    BY <2>1, <2>2 DEF Compared
<1>8. a \notin {NullOpt, Unasked}
  BY <1>4, NoAnswerNoValue
<1>9. /\ answers'[m] = a
      /\ answers'[Order[i]] = answers[Order[i]]
  BY <1>1, <1>3, <1>6, <1>7 DEF Inv, TypeOK
<1>10. answers'["Btcd"] \notin {NullOpt, Unasked} /\ "Btcd" \in Names
  BY <1>2, <1>3, <1>5, <1>6, <1>7, <1>8, <1>9
<1>11. \E k \in Names : answers'[k].tag \in {"i2p", "cjdns"}
  <2>1. CASE a.tag \in {"i2p", "cjdns"}
    BY <1>3, <1>9, <2>1
  <2>2. CASE last["main"].tag \in {"i2p", "cjdns"}
    BY <1>5, <1>6, <1>7, <1>9, <2>2
  <2> QED
    BY <1>2, <2>1, <2>2
<1> QED
  BY <1>1, <1>2, <1>10, <1>11 DEF BtcdWasNear

\* Later answers do not wipe the marks.
LEMMA MarksStay ==
    ASSUME Inv, BtcdWasNear, NEW a \in Answers(target), AcceptAnswer(a)
    PROVE  BtcdWasNear'
<1>1. /\ AtModule
      /\ answers' = [answers EXCEPT ![Order[pos]] = a]
      /\ UNCHANGED target
  BY DEF AcceptAnswer
<1>2. answers[Order[pos]] = Unasked
  BY <1>1, OrderIsEnumeration DEF Inv, AskedInOrder, AtModule, TypeOK
<1>3. \A k \in Names : k # Order[pos] => answers'[k] = answers[k]
  BY <1>1 DEF Inv, TypeOK
<1>4. answers'["Btcd"] \notin {NullOpt, Unasked}
  BY <1>2, <1>3 DEF BtcdWasNear
<1>5. PICK k \in Names : answers[k].tag \in {"i2p", "cjdns"}
  BY DEF BtcdWasNear
<1>6. k # Order[pos]
  BY <1>2, <1>5 DEF Unasked
<1> QED
  BY <1>1, <1>3, <1>4, <1>5, <1>6 DEF BtcdWasNear

LEMMA ForgivingInit == Init => ForgivingInv
BY InvInit DEF Init, ForgivingInv, Forgiven

LEMMA ForgivingStep == ForgivingInv /\ [Next]_vars => ForgivingInv'
<1> SUFFICES ASSUME ForgivingInv, [Next]_vars PROVE ForgivingInv'
  OBVIOUS
<1>0. Inv /\ Inv'
  BY InvStep DEF ForgivingInv
<1>1. ASSUME NEW in \in Inputs, BeginRun(in) PROVE Forgiven'
  <2>1. \A m \in Names : answers'[m] = Unasked
    BY <1>1 DEF BeginRun, NoAnswers
  <2> QED
    BY <2>1, NoAnswerNoValue DEF Forgiven, LastStandsForAll
<1>2. ASSUME NEW a \in Answers(target), AcceptAnswer(a) PROVE Forgiven'
  <2>1. LastStandsForAll \/ BtcdWasNear
    BY <1>2 DEF ForgivingInv, Forgiven, AcceptAnswer, AtModule
  <2>2. CASE BtcdWasNear
    BY <1>0, <1>2, <2>2, MarksStay DEF Forgiven
  <2>3. CASE LastStandsForAll /\ ~Mismatch(a)
    BY <1>0, <1>2, <2>3, AcceptKeepsOneValue DEF Forgiven
  <2>4. CASE Mismatch(a)
    BY <1>0, <1>2, <2>4, ToleranceLeavesMarks DEF Forgiven
  <2> QED
    BY <2>1, <2>2, <2>3, <2>4
<1>3. ASSUME SkipModule \/ EndRun \/ UNCHANGED vars PROVE Forgiven'
  <2>1. UNCHANGED <<target, input, last, answers>>
    BY <1>3 DEF SkipModule, EndRun, vars
  <2>2. status' \in {"running", "agreed"} => status \in {"running", "agreed"}
    BY <1>3 DEF SkipModule, EndRun, vars
  <2> QED
    BY <2>1, <2>2 DEF ForgivingInv, Forgiven, LastStandsForAll, BtcdWasNear
<1>4. ASSUME RejectTarget \/ ModuleDies PROVE Forgiven'
  BY <1>4 DEF Forgiven, RejectTarget, ModuleDies, Abort
<1>5. ASSUME NEW a \in Answers(target), ReportMismatch(a) \/ ReportMalformed(a)
      PROVE  Forgiven'
  BY <1>5 DEF Forgiven, ReportMismatch, ReportMalformed, Abort
<1> QED
  BY <1>0, <1>1, <1>2, <1>3, <1>4, <1>5 DEF Next, ForgivingInv

\* Whatever modules are loaded, an input passes with two answers that differ only
\* on addrv2, and then only if Btcd answered and an i2p or cjdns address is there.
THEOREM ForgivesLittle == Spec => []ForgivesOnlyNearBtcd
<1>1. ForgivingInv => ForgivesOnlyNearBtcd
  <2> SUFFICES ASSUME ForgivingInv, status = "agreed", NEW m \in Names, NEW n \in Names,
                      Oracle!Disagree(target, input, answers[m], answers[n])
               PROVE  BtcdWasNear
    BY DEF ForgivesOnlyNearBtcd, BtcdWasNear
  <2>1. /\ answers[m] \in Answers(target) \cup {Unasked} /\ ~Malformed(target, answers[m])
        /\ answers[n] \in Answers(target) \cup {Unasked} /\ ~Malformed(target, answers[n])
    BY DEF ForgivingInv, Inv, TypeOK, WellFormedAnswers
  <2>2. PICK lane \in Lanes :
            /\ Compared(target, input, answers[m], lane) # None
            /\ Compared(target, input, answers[n], lane) # None
            /\ Compared(target, input, answers[m], lane)
                   # Compared(target, input, answers[n], lane)
    BY <2>1, DisagreeIsLaneDifference
  <2>3. ~LastStandsForAll
    BY <2>2 DEF LastStandsForAll
  <2> QED
    BY <2>3 DEF ForgivingInv, Forgiven
<1> QED
  BY <1>1, ForgivingInit, ForgivingStep, PTL DEF Spec

(***************************************************************************)
(* The lengths of bech32_roundtrip                                         *)
(***************************************************************************)

\* For every program length BIP-141 allows, the size_t subtraction that bounds
\* the HRP does not wrap around, the biased draw is not empty, and the bound is
\* exactly the longest HRP that is still compared.
THEOREM FittingHrpLength ==
    ASSUME NEW programLen \in 2..40
    PROVE  /\ MaxFittingHrpLen(programLen) \in 18..78
           /\ \A in \in Input : in.program = programLen =>
                  (OverCap(in) <=> in.hrp > MaxFittingHrpLen(programLen))
<1>1. Bech32DataLength(programLen) \in 5..65
  BY DEF Bech32DataLength
<1>2. MaxFittingHrpLen(programLen) \in 18..78
  BY <1>1 DEF MaxFittingHrpLen
<1>3. ASSUME NEW in \in Input, in.program = programLen
      PROVE  OverCap(in) <=> in.hrp > MaxFittingHrpLen(programLen)
  <2>1. in.hrp \in Nat
    BY DEF Input
  <2> QED
    BY <1>1, <1>3, <2>1 DEF OverCap, MaxFittingHrpLen
<1> QED
  BY <1>2, <1>3
=============================================================================
