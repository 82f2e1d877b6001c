---------------------------- MODULE ProviderProofs ---------------------------
(***************************************************************************)
(* What holds of ProviderPlan whatever the settings, the services behind   *)
(* the providers and the bounds.                                           *)
(***************************************************************************)
EXTENDS ProviderProperties, SequenceTheorems, NaturalLemmas

-----------------------------------------------------------------------------
(* The plan of candidates.  Its folds take one name or provider after the  *)
(* other; what holds of every prefix is proved by induction over prefixes. *)

\* The step of the fold that Normal is.
AppendNew(seen, name) ==
  IF name = Blank \/ Contains(seen, name) THEN seen ELSE Append(seen, name)

\* The step of the fold that Without is.
AppendOther(kept, name, x) == IF name = x THEN kept ELSE Append(kept, name)

\* The values that Normal goes through, one for every prefix of the names.
LEMMA NormalFolds ==
  ASSUME NEW names \in Seq(Names)
  PROVE  \E h : /\ h[0] = <<>>
                /\ \A k \in 1 .. Len(names) : h[k] = AppendNew(h[k - 1], names[k])
                /\ Normal(names) = h[Len(names)]
<1> DEFINE n == Len(names)
           T == Seq(Models)
           op == [q \in T \X (1 .. n) |-> AppendNew(q[1], names[q[2]])]
           Solves(f) == f = [s \in SUBSET DOMAIN names |->
                               IF s = {} THEN <<>>
                               ELSE AppendNew(f[s \ {Max(s)}], names[Max(s)])]
           iter == CHOOSE f : Solves(f)
           h == [k \in 0 .. n |-> iter[1 .. k]]
<1>1. n \in Nat /\ DOMAIN names = 1 .. n /\ \A i \in 1 .. n : names[i] \in Names
  OBVIOUS
<1>2. op \in [T \X (1 .. n) -> T]
  <2>1. ASSUME NEW seen \in T, NEW i \in 1 .. n
        PROVE  AppendNew(seen, names[i]) \in T
    BY <1>1 DEF AppendNew, Names
  <2>2. QED BY <2>1
<1>3. \E f : Solves(f)
  <2>1. <<>> \in T
    OBVIOUS
  <2>2. PICK f : IsFold(f, n, T, <<>>, op)
    <3>1. n \in Nat
      OBVIOUS
    <3> HIDE DEF op, T, n
    <3>2. QED BY <1>2, <2>1, <3>1, FoldExists
  <2>3. ASSUME NEW s \in SUBSET (1 .. n), s # {}
        PROVE  op[<<f[s \ {Max(s)}], Max(s)>>] = AppendNew(f[s \ {Max(s)}], names[Max(s)])
    <3>1. Max(s) \in 1 .. n
      BY <2>3, <1>1, MaxIsGreatest
    <3>2. f[s \ {Max(s)}] \in T
      BY <2>2 DEF IsFold
    <3>3. QED BY <3>1, <3>2
  <2>4. Solves(f)
    <3> HIDE DEF op, T
    <3>1. QED BY <1>1, <2>2, <2>3 DEF IsFold
  <2>5. QED BY <2>4
<1>4. Solves(iter)
  <2> HIDE DEF Solves
  <2>1. QED BY <1>3
<1>5. Normal(names) = iter[DOMAIN names]
  BY DEF Normal, FoldLeft, MapThenFoldSet, AppendNew
<1>6. h[0] = <<>>
  <2>1. 1 .. 0 = {} /\ 1 .. 0 \in SUBSET DOMAIN names
    OBVIOUS
  <2> HIDE DEF iter
  <2>2. iter[1 .. 0] = <<>>
    BY <1>4, <2>1
  <2>3. QED BY <1>1, <2>2
<1>7. ASSUME NEW k \in 1 .. n
      PROVE  h[k] = AppendNew(h[k - 1], names[k])
  <2>1. k \in 0 .. n /\ k - 1 \in 0 .. n
    BY <1>1
  <2>2. iter[1 .. k] = AppendNew(iter[1 .. k - 1], names[k])
    <3>1. /\ 1 .. k \in SUBSET (1 .. n) /\ 1 .. k # {}
          /\ Max(1 .. k) = k /\ (1 .. k) \ {k} = 1 .. k - 1
      BY <1>1, FoldSteps
    <3> HIDE DEF iter
    <3>2. QED BY <1>1, <1>4, <3>1
  <2>3. QED BY <2>1, <2>2
<1>8. Normal(names) = h[n]
  BY <1>1, <1>5
<1>9. QED
  <2> HIDE DEF h
  <2>1. QED BY <1>6, <1>7, <1>8

\* The values that Without goes through.
LEMMA WithoutFolds ==
  ASSUME NEW S, NEW names \in Seq(S), NEW x
  PROVE  \E h : /\ h[0] = <<>>
                /\ \A k \in 1 .. Len(names) : h[k] = AppendOther(h[k - 1], names[k], x)
                /\ Without(names, x) = h[Len(names)]
<1> DEFINE n == Len(names)
           T == Seq(S)
           op == [q \in T \X (1 .. n) |-> AppendOther(q[1], names[q[2]], x)]
           Solves(f) == f = [s \in SUBSET DOMAIN names |->
                               IF s = {} THEN <<>>
                               ELSE AppendOther(f[s \ {Max(s)}], names[Max(s)], x)]
           iter == CHOOSE f : Solves(f)
           h == [k \in 0 .. n |-> iter[1 .. k]]
<1>1. n \in Nat /\ DOMAIN names = 1 .. n /\ \A i \in 1 .. n : names[i] \in S
  OBVIOUS
<1>2. op \in [T \X (1 .. n) -> T]
  <2>1. ASSUME NEW seen \in T, NEW i \in 1 .. n
        PROVE  AppendOther(seen, names[i], x) \in T
    BY <1>1 DEF AppendOther
  <2>2. QED BY <2>1
<1>3. \E f : Solves(f)
  <2>1. <<>> \in T
    OBVIOUS
  <2>2. PICK f : IsFold(f, n, T, <<>>, op)
    <3>1. n \in Nat
      OBVIOUS
    <3> HIDE DEF op, T, n
    <3>2. QED BY <1>2, <2>1, <3>1, FoldExists
  <2>3. ASSUME NEW s \in SUBSET (1 .. n), s # {}
        PROVE  op[<<f[s \ {Max(s)}], Max(s)>>] = AppendOther(f[s \ {Max(s)}], names[Max(s)], x)
    <3>1. Max(s) \in 1 .. n
      BY <2>3, <1>1, MaxIsGreatest
    <3>2. f[s \ {Max(s)}] \in T
      BY <2>2 DEF IsFold
    <3>3. QED BY <3>1, <3>2
  <2>4. Solves(f)
    <3> HIDE DEF op, T
    <3>1. QED BY <1>1, <2>2, <2>3 DEF IsFold
  <2>5. QED BY <2>4
<1>4. Solves(iter)
  <2> HIDE DEF Solves
  <2>1. QED BY <1>3
<1>5. Without(names, x) = iter[DOMAIN names]
  BY DEF Without, FoldLeft, MapThenFoldSet, AppendOther
<1>6. h[0] = <<>>
  <2>1. 1 .. 0 = {} /\ 1 .. 0 \in SUBSET DOMAIN names
    OBVIOUS
  <2> HIDE DEF iter
  <2>2. iter[1 .. 0] = <<>>
    BY <1>4, <2>1
  <2>3. QED BY <1>1, <2>2
<1>7. ASSUME NEW k \in 1 .. n
      PROVE  h[k] = AppendOther(h[k - 1], names[k], x)
  <2>1. k \in 0 .. n /\ k - 1 \in 0 .. n
    BY <1>1
  <2>2. iter[1 .. k] = AppendOther(iter[1 .. k - 1], names[k], x)
    <3>1. /\ 1 .. k \in SUBSET (1 .. n) /\ 1 .. k # {}
          /\ Max(1 .. k) = k /\ (1 .. k) \ {k} = 1 .. k - 1
      BY <1>1, FoldSteps
    <3> HIDE DEF iter
    <3>2. QED BY <1>1, <1>4, <3>1
  <2>3. QED BY <2>1, <2>2
<1>8. Without(names, x) = h[n]
  BY <1>1, <1>5
<1>9. QED
  <2> HIDE DEF h
  <2>1. QED BY <1>6, <1>7, <1>8

\* The plans that ExecutionPlan goes through, one for every prefix of the order.
LEMMA PlanFolds ==
  ASSUME NEW s \in Named, \A p \in Providers : PairsOf(s, p) \in Seq(Candidates),
         NEW order \in Seq(Providers), s.order = order
  PROVE  \E h : /\ h[0] = PairsOf(s, s.primary)
                /\ \A k \in 1 .. Len(order) : h[k] = h[k - 1] \o PairsOf(s, order[k])
                /\ ExecutionPlan(s) = h[Len(order)]
<1> DEFINE n == Len(order)
           T == Seq(Candidates)
           op == [q \in T \X (1 .. n) |-> q[1] \o PairsOf(s, order[q[2]])]
           Solves(f) == f = [r \in SUBSET DOMAIN order |->
                               IF r = {} THEN PairsOf(s, s.primary)
                               ELSE f[r \ {Max(r)}] \o PairsOf(s, order[Max(r)])]
           iter == CHOOSE f : Solves(f)
           h == [k \in 0 .. n |-> iter[1 .. k]]
<1>1. n \in Nat /\ DOMAIN order = 1 .. n /\ \A i \in 1 .. n : order[i] \in Providers
  OBVIOUS
<1>2. op \in [T \X (1 .. n) -> T]
  <2>1. ASSUME NEW seen \in T, NEW i \in 1 .. n
        PROVE  seen \o PairsOf(s, order[i]) \in T
    BY <1>1
  <2>2. QED BY <2>1
<1>3. \E f : Solves(f)
  <2>1. PairsOf(s, s.primary) \in T
    BY DEF Named
  <2>2. PICK f : IsFold(f, n, T, PairsOf(s, s.primary), op)
    <3>1. n \in Nat
      OBVIOUS
    <3> HIDE DEF op, T, n
    <3>2. QED BY <1>2, <2>1, <3>1, FoldExists
  <2>3. ASSUME NEW r \in SUBSET (1 .. n), r # {}
        PROVE  op[<<f[r \ {Max(r)}], Max(r)>>] = f[r \ {Max(r)}] \o PairsOf(s, order[Max(r)])
    <3>1. Max(r) \in 1 .. n
      BY <2>3, <1>1, MaxIsGreatest
    <3>2. f[r \ {Max(r)}] \in T
      BY <2>2 DEF IsFold
    <3>3. QED BY <3>1, <3>2
  <2>4. Solves(f)
    <3> HIDE DEF op, T
    <3>1. QED BY <1>1, <2>2, <2>3 DEF IsFold
  <2>5. QED BY <2>4
<1>4. Solves(iter)
  <2> HIDE DEF Solves
  <2>1. QED BY <1>3
<1>5. ExecutionPlan(s) = iter[DOMAIN order]
  BY DEF ExecutionPlan, FoldLeft, MapThenFoldSet
<1>6. h[0] = PairsOf(s, s.primary)
  <2>1. 1 .. 0 = {} /\ 1 .. 0 \in SUBSET DOMAIN order
    OBVIOUS
  <2> HIDE DEF iter
  <2>2. iter[1 .. 0] = PairsOf(s, s.primary)
    BY <1>4, <2>1
  <2>3. QED BY <1>1, <2>2
<1>7. ASSUME NEW k \in 1 .. n
      PROVE  h[k] = h[k - 1] \o PairsOf(s, order[k])
  <2>1. k \in 0 .. n /\ k - 1 \in 0 .. n
    BY <1>1
  <2>2. iter[1 .. k] = iter[1 .. k - 1] \o PairsOf(s, order[k])
    <3>1. /\ 1 .. k \in SUBSET (1 .. n) /\ 1 .. k # {}
          /\ Max(1 .. k) = k /\ (1 .. k) \ {k} = 1 .. k - 1
      BY <1>1, FoldSteps
    <3> HIDE DEF iter
    <3>2. QED BY <1>1, <1>4, <3>1
  <2>3. h[k] = iter[1 .. k] /\ h[k - 1] = iter[1 .. k - 1]
    BY <2>1
  <2> HIDE DEF h, iter
  <2>4. QED BY <2>2, <2>3
<1>8. ExecutionPlan(s) = h[n]
  BY <1>1, <1>5
<1>9. QED
  <2> HIDE DEF h
  <2>1. QED BY <1>6, <1>7, <1>8

\* A list of distinct names, those of the first k in names but for the blank one.
IsDistinct(found, names, k) ==
  /\ found \in Seq(Models) /\ IsInjective(found)
  /\ ToSet(found) = {names[i] : i \in 1 .. k} \ {Blank}

\* Normalising names every name once, and the first one first.
LEMMA NormalIsDistinct ==
  ASSUME NEW names \in Seq(Names)
  PROVE  /\ IsDistinct(Normal(names), names, Len(names))
         /\ names # <<>> /\ names[1] # Blank =>
              Normal(names) # <<>> /\ Normal(names)[1] = names[1]
<1> DEFINE n == Len(names)
<1>1. n \in Nat /\ (\A i \in 1 .. n : names[i] \in Names) /\ Blank \notin Models
  BY SettingsAssumption
<1>2. PICK h : /\ h[0] = <<>>
               /\ \A k \in 1 .. n : h[k] = AppendNew(h[k - 1], names[k])
               /\ Normal(names) = h[n]
  BY NormalFolds
<1> DEFINE First(k) == k > 0 /\ names[1] # Blank => h[k] # <<>> /\ h[k][1] = names[1]
           Good == {k \in 0 .. n : IsDistinct(h[k], names, k) /\ First(k)}
<1>3. 0 \in Good
  <2>1. <<>> \in Seq(Models) /\ IsInjective(<<>>) /\ ToSet(<<>>) = {}
    BY DEF IsInjective, ToSet
  <2>2. {names[i] : i \in 1 .. 0} = {}
    OBVIOUS
  <2>3. IsDistinct(h[0], names, 0) /\ First(0) /\ 0 \in 0 .. n
    BY <1>1, <1>2, <2>1, <2>2 DEF IsDistinct
  <2> HIDE DEF First, n
  <2>4. QED BY <2>3
<1>4. ASSUME NEW k \in 0 .. n, k \in Good, k < n
      PROVE  k + 1 \in Good
  <2> DEFINE found == h[k]
             name == names[k + 1]
  <2>1. k + 1 \in 1 .. n /\ (k + 1) - 1 = k
    BY <1>1, <1>4
  <2>2. h[k + 1] = AppendNew(found, name) /\ name \in Names
    BY <1>1, <1>2, <2>1
  <2>3. {names[i] : i \in 1 .. k + 1} = {names[i] : i \in 1 .. k} \cup {name}
    <3>1. 1 .. k + 1 = (1 .. k) \cup {k + 1}
      BY <1>1
    <3>2. QED BY <3>1
  <2>4. IsDistinct(found, names, k) /\ First(k)
    BY <1>4
  <2>5. Contains(found, name) <=> name \in ToSet(found)
    BY <2>4 DEF IsDistinct, Contains, ToSet
  <2>6. CASE name = Blank \/ Contains(found, name)
    <3>1. h[k + 1] = found
      BY <2>2, <2>6 DEF AppendNew
    <3>2. IsDistinct(h[k + 1], names, k + 1)
      BY <2>3, <2>4, <2>5, <2>6, <3>1 DEF IsDistinct
    <3>3. First(k + 1)
      <4>1. k > 0 \/ (k = 0 /\ found = <<>>)
        BY <1>1, <1>2
      <4>2. CASE k > 0
        BY <2>4, <3>1, <4>2
      <4>3. CASE k = 0 /\ found = <<>>
        BY <2>5, <2>6, <4>3 DEF ToSet
      <4>4. QED BY <4>1, <4>2, <4>3
    <3>4. QED BY <1>1, <2>1, <3>2, <3>3
  <2>7. CASE name # Blank /\ ~ Contains(found, name)
    <3>1. h[k + 1] = Append(found, name) /\ name \in Models /\ found \in Seq(Models)
      BY <2>2, <2>4, <2>7 DEF AppendNew, Names, IsDistinct
    <3>2. /\ Append(found, name) \in Seq(Models)
          /\ Len(Append(found, name)) = Len(found) + 1
          /\ \A i \in 1 .. Len(found) : Append(found, name)[i] = found[i]
          /\ Append(found, name)[Len(found) + 1] = name
      BY <3>1
    <3>3. IsInjective(Append(found, name))
      BY <2>4, <2>5, <2>7, <3>1, <3>2 DEF IsInjective, IsDistinct, ToSet
    <3>4. ToSet(Append(found, name)) = ToSet(found) \cup {name}
      <4> DEFINE l == Len(found)
                 longer == Append(found, name)
      <4>1. /\ DOMAIN found = 1 .. l /\ DOMAIN longer = 1 .. l + 1
            /\ 1 .. l + 1 = (1 .. l) \cup {l + 1}
        BY <3>1, <3>2
      <4> HIDE DEF l, longer, found, name
      <4>2. ToSet(found) = {found[i] : i \in 1 .. l}
            /\ ToSet(longer) = {longer[i] : i \in 1 .. l + 1}
        BY <4>1 DEF ToSet
      <4>3. \A i \in 1 .. l : longer[i] = found[i]
        BY <3>2 DEF l, longer
      <4>4. longer[l + 1] = name
        BY <3>2 DEF l, longer
      <4>5. QED BY <4>1, <4>2, <4>3, <4>4 DEF longer
    <3>5. IsDistinct(h[k + 1], names, k + 1)
      BY <2>3, <2>4, <2>7, <3>1, <3>2, <3>3, <3>4 DEF IsDistinct
    <3>6. First(k + 1)
      <4>1. k > 0 \/ (k = 0 /\ found = <<>>)
        BY <1>1, <1>2
      <4>2. CASE k > 0
        BY <2>4, <3>1, <3>2, <4>2
      <4>3. CASE k = 0 /\ found = <<>>
        BY <3>1, <3>2, <4>3
      <4>4. QED BY <4>1, <4>2, <4>3
    <3>7. QED BY <1>1, <2>1, <3>5, <3>6
  <2>8. QED BY <2>6, <2>7
<1>5. n \in Good
  <2> HIDE DEF Good
  <2>1. \A k \in 0 .. n : k \in Good
    BY <1>1, <1>3, <1>4, InductionUpTo
  <2>2. QED BY <1>1, <2>1
<1>6. QED BY <1>1, <1>2, <1>5

\* What is left of a list is a list of the same kind.
LEMMA WithoutType ==
  ASSUME NEW S, NEW names \in Seq(S), NEW x
  PROVE  Without(names, x) \in Seq(S)
<1> DEFINE n == Len(names)
<1>1. n \in Nat /\ \A i \in 1 .. n : names[i] \in S
  OBVIOUS
<1>2. PICK h : /\ h[0] = <<>>
               /\ \A k \in 1 .. n : h[k] = AppendOther(h[k - 1], names[k], x)
               /\ Without(names, x) = h[n]
  BY WithoutFolds
<1> DEFINE Good == {k \in 0 .. n : h[k] \in Seq(S)}
<1>3. 0 \in Good
  <2>1. <<>> \in Seq(S) /\ 0 \in 0 .. n
    BY <1>1
  <2> HIDE DEF n
  <2>2. QED BY <1>2, <2>1
<1>4. ASSUME NEW k \in 0 .. n, k \in Good, k < n
      PROVE  k + 1 \in Good
  <2>1. k + 1 \in 1 .. n /\ (k + 1) - 1 = k
    BY <1>1, <1>4
  <2>2. h[k + 1] = AppendOther(h[k], names[k + 1], x) /\ names[k + 1] \in S
    BY <1>1, <1>2, <2>1
  <2>3. h[k] \in Seq(S)
    BY <1>4
  <2>4. h[k + 1] \in Seq(S)
    BY <2>2, <2>3 DEF AppendOther
  <2>5. QED BY <2>1, <2>4
<1>5. n \in Good
  <2> HIDE DEF Good
  <2>1. \A k \in 0 .. n : k \in Good
    BY <1>1, <1>3, <1>4, InductionUpTo
  <2>2. QED BY <1>1, <2>1
<1>6. QED BY <1>2, <1>5

\* The settings name what the user may name, and the fallbacks are providers.
LEMMA SettingsType ==
  /\ Settings \in Named /\ Settings.model \in Models
  /\ Settings.order \in Seq(Providers)
<1>1. Given \in Named /\ ValidFallbacks(Settings)
  BY SettingsAssumption
<1>2. Given.candidates \in Seq(Names) /\ Given.order \in Seq(Providers \cup {Blank})
      /\ \A p \in Providers : Given.fallback[p] \in Seq(Names)
  BY <1>1 DEF Named
<1>3. Normal(Given.candidates) \in Seq(Names)
      /\ \A p \in Providers : Normal(Given.fallback[p]) \in Seq(Names)
  <2>1. ASSUME NEW names \in Seq(Names) PROVE Normal(names) \in Seq(Names)
    <3>1. Normal(names) \in Seq(Models)
      BY NormalIsDistinct DEF IsDistinct
    <3>2. QED BY <3>1 DEF Names
  <2>2. QED BY <1>2, <2>1
<1>4. Without(Normal(Given.candidates), Given.model) \in Seq(Names)
      /\ Without(Given.order, Blank) \in Seq(Providers \cup {Blank})
  BY <1>2, <1>3, WithoutType
<1>5. Settings \in Named /\ Settings.model = Given.model
  BY <1>1, <1>3, <1>4 DEF Settings, Normalised, Named
<1>6. Settings.model \in Models
  BY <1>1, <1>5 DEF ValidFallbacks, Named, Names
<1>7. Settings.order \in Seq(Providers)
  <2>1. Settings.order \in Seq(Providers \cup {Blank})
    BY <1>5 DEF Named
  <2>2. ToSet(Settings.order) \subseteq Providers
    BY <1>1 DEF ValidFallbacks
  <2>3. \A i \in 1 .. Len(Settings.order) : Settings.order[i] \in Providers
    BY <2>1, <2>2 DEF ToSet
  <2>4. QED BY <2>1, <2>3
<1>8. QED BY <1>5, <1>6, <1>7

\* The candidates of a provider: distinct ones of its own.
LEMMA PairsAreCandidates ==
  ASSUME NEW p \in Providers
  PROVE  LET pairs == PairsOf(Settings, p) IN
         /\ pairs \in Seq(Candidates) /\ IsInjective(pairs)
         /\ \A i \in 1 .. Len(pairs) : pairs[i][1] = p
         /\ p = Settings.primary => Len(pairs) > 0 /\ pairs[1] = <<p, Settings.model>>
<1> DEFINE models == ModelsFor(Settings, p)
<1>1. Settings \in Named /\ Settings.model \in Models /\ Blank \notin Models
  BY SettingsType, SettingsAssumption
<1>2. /\ models \in Seq(Models) /\ IsInjective(models)
      /\ p = Settings.primary => models # <<>> /\ models[1] = Settings.model
  <2>1. CASE p = Settings.primary
    <3> DEFINE names == <<Settings.model>> \o Settings.candidates
    <3>1. names \in Seq(Names) /\ names # <<>> /\ names[1] = Settings.model
      BY <1>1 DEF Named, Names
    <3>2. models = Normal(names)
      BY <2>1 DEF ModelsFor
    <3> HIDE DEF names, models
    <3>3. QED BY <1>1, <3>1, <3>2, NormalIsDistinct DEF IsDistinct
  <2>2. CASE p # Settings.primary
    <3>1. Settings.fallback[p] \in Seq(Names)
      BY <1>1 DEF Named
    <3>2. models = Normal(Settings.fallback[p])
      BY <2>2 DEF ModelsFor
    <3> HIDE DEF models
    <3>3. QED BY <2>2, <3>1, <3>2, NormalIsDistinct DEF IsDistinct
  <2>3. QED BY <2>1, <2>2
<1> HIDE DEF models
<1>3. PairsOf(Settings, p) = [i \in 1 .. Len(models) |-> <<p, models[i]>>]
  BY <1>2 DEF PairsOf, models
<1>4. \A i \in 1 .. Len(models) : models[i] \in Models /\ <<p, models[i]>> \in Candidates
  BY <1>2 DEF Candidates
<1>5. \A i, j \in 1 .. Len(models) : models[i] = models[j] => i = j
  BY <1>2 DEF IsInjective
<1>6. Len(models) \in Nat /\ (models # <<>> => Len(models) > 0)
  BY <1>2
<1> DEFINE pairs == PairsOf(Settings, p)
<1>7. pairs \in Seq(Candidates) /\ Len(pairs) = Len(models)
      /\ \A i \in 1 .. Len(pairs) : pairs[i] = <<p, models[i]>>
  BY <1>3, <1>4, <1>6
<1> HIDE DEF pairs
<1>8. DOMAIN pairs = 1 .. Len(models)
  BY <1>6, <1>7
<1>9. IsInjective(pairs)
  BY <1>5, <1>7, <1>8 DEF IsInjective
<1>10. p = Settings.primary => Len(pairs) > 0 /\ pairs[1] = <<p, Settings.model>>
  BY <1>2, <1>6, <1>7
<1>11. QED BY <1>7, <1>9, <1>10 DEF pairs

\* A list of distinct candidates of the primary provider and the first k fallbacks.
IsPlan(plan, k) ==
  /\ plan \in Seq(Candidates) /\ IsInjective(plan)
  /\ Len(plan) > 0 /\ plan[1] = <<Settings.primary, Settings.model>>
  /\ \A i \in 1 .. Len(plan) :
       plan[i][1] = Settings.primary \/ \E j \in 1 .. k : plan[i][1] = Settings.order[j]

\* Lists without a common element make a list of distinct elements.
LEMMA JoinedIsInjective ==
  ASSUME NEW S, NEW a \in Seq(S), NEW b \in Seq(S), IsInjective(a), IsInjective(b),
         \A i \in 1 .. Len(a), j \in 1 .. Len(b) : a[i] # b[j]
  PROVE  IsInjective(a \o b)
<1> DEFINE c == a \o b
<1>1. /\ c \in Seq(S) /\ Len(c) = Len(a) + Len(b) /\ Len(a) \in Nat /\ Len(b) \in Nat
      /\ \A i \in 1 .. Len(a) : c[i] = a[i]
      /\ \A i \in 1 .. Len(b) : c[Len(a) + i] = b[i]
  OBVIOUS
<1>2. /\ \A i, j \in 1 .. Len(a) : a[i] = a[j] => i = j
      /\ \A i, j \in 1 .. Len(b) : b[i] = b[j] => i = j
  BY DEF IsInjective
<1>3. DOMAIN c = 1 .. Len(a) + Len(b)
  BY <1>1
<1>4. \A i \in 1 .. Len(a) + Len(b) :
        i \in 1 .. Len(a) \/ (i - Len(a) \in 1 .. Len(b) /\ c[i] = b[i - Len(a)])
  <2> HIDE DEF c
  <2> TAKE i \in 1 .. Len(a) + Len(b)
  <2>1. CASE i <= Len(a)
    BY <1>1, <2>1
  <2>2. CASE ~ i <= Len(a)
    <3>1. i - Len(a) \in 1 .. Len(b) /\ Len(a) + (i - Len(a)) = i
      BY <1>1, <2>2
    <3>2. QED BY <1>1, <3>1
  <2>3. QED BY <2>1, <2>2
<1>5. ASSUME NEW i \in 1 .. Len(a) + Len(b), NEW j \in 1 .. Len(a) + Len(b), c[i] = c[j]
      PROVE  i = j
  <2> HIDE DEF c
  <2>1. CASE i \in 1 .. Len(a) /\ j \in 1 .. Len(a)
    BY <1>1, <1>2, <1>5, <2>1
  <2>2. CASE i \notin 1 .. Len(a) /\ j \notin 1 .. Len(a)
    <3>1. i - Len(a) \in 1 .. Len(b) /\ j - Len(a) \in 1 .. Len(b)
          /\ b[i - Len(a)] = b[j - Len(a)]
      BY <1>4, <1>5, <2>2
    <3>2. i - Len(a) = j - Len(a)
      BY <1>2, <3>1
    <3>3. QED BY <1>1, <3>2
  <2>3. CASE i \in 1 .. Len(a) /\ j \notin 1 .. Len(a)
    BY <1>1, <1>4, <1>5, <2>3
  <2>4. CASE i \notin 1 .. Len(a) /\ j \in 1 .. Len(a)
    BY <1>1, <1>4, <1>5, <2>4
  <2>5. QED BY <2>1, <2>2, <2>3, <2>4
<1>6. QED
  <2> HIDE DEF c
  <2>1. IsInjective(c)
    BY <1>3, <1>5 DEF IsInjective
  <2>2. QED BY <2>1 DEF c

\* Whatever the user names, the plan starts with the primary model and tries no
\* candidate twice.
THEOREM PlanIsSound == IsPlan(Plan, Len(Settings.order))
<1> DEFINE order == Settings.order
           n == Len(order)
<1>1. Settings \in Named /\ order \in Seq(Providers) /\ n \in Nat
      /\ Settings.primary \in Providers
  BY SettingsType DEF Named
<1>2. /\ \A i \in 1 .. n : order[i] \in Providers /\ order[i] # Settings.primary
      /\ \A i, j \in 1 .. n : order[i] = order[j] => i = j
  BY <1>1, SettingsAssumption DEF ValidFallbacks, IsInjective, ToSet
<1>3. PICK h : /\ h[0] = PairsOf(Settings, Settings.primary)
               /\ \A k \in 1 .. n : h[k] = h[k - 1] \o PairsOf(Settings, order[k])
               /\ ExecutionPlan(Settings) = h[n]
  <2>1. \A p \in Providers : PairsOf(Settings, p) \in Seq(Candidates)
    BY PairsAreCandidates
  <2> HIDE DEF order, n
  <2>2. Settings.order = order
    BY DEF order
  <2>3. QED BY <1>1, <2>1, <2>2, PlanFolds DEF n
<1> DEFINE Good == {k \in 0 .. n : IsPlan(h[k], k)}
<1>4. 0 \in Good
  <2>1. IsPlan(h[0], 0)
    BY <1>1, <1>3, PairsAreCandidates DEF IsPlan
  <2> HIDE DEF n
  <2>2. QED BY <1>1, <2>1
<1>5. ASSUME NEW k \in 0 .. n, k \in Good, k < n
      PROVE  k + 1 \in Good
  <2> DEFINE a == h[k]
             p == order[k + 1]
             b == PairsOf(Settings, p)
  <2>1. k + 1 \in 1 .. n /\ (k + 1) - 1 = k /\ k + 1 \in 0 .. n
    BY <1>1, <1>5
  <2>2. h[k + 1] = a \o b
    BY <1>3, <2>1
  <2>3. IsPlan(a, k)
    BY <1>5
  <2>4. p \in Providers /\ p # Settings.primary /\ \A j \in 1 .. k : order[j] # p
    <3>1. \A j \in 1 .. k : j \in 1 .. n /\ j # k + 1
      BY <1>1, <2>1
    <3> HIDE DEF order, n
    <3>2. QED BY <1>2, <2>1, <3>1
  <2>5. /\ b \in Seq(Candidates) /\ IsInjective(b)
        /\ \A i \in 1 .. Len(b) : b[i][1] = p
    <3> HIDE DEF p
    <3>1. QED BY <2>4, PairsAreCandidates
  <2> HIDE DEF a, b, p, n
  <2>6. \A i \in 1 .. Len(a), j \in 1 .. Len(b) : a[i] # b[j]
    BY <2>3, <2>4, <2>5 DEF IsPlan
  <2>7. IsInjective(a \o b)
    BY <2>3, <2>5, <2>6, JoinedIsInjective DEF IsPlan
  <2>8. /\ a \o b \in Seq(Candidates) /\ Len(a \o b) = Len(a) + Len(b)
        /\ Len(a) \in Nat /\ Len(b) \in Nat
        /\ \A i \in 1 .. Len(a) : (a \o b)[i] = a[i]
        /\ \A i \in Len(a) + 1 .. Len(a) + Len(b) : (a \o b)[i] = b[i - Len(a)]
    BY <2>3, <2>5 DEF IsPlan
  <2>9. ASSUME NEW i \in 1 .. Len(a \o b)
        PROVE  (a \o b)[i][1] = Settings.primary
               \/ \E j \in 1 .. k + 1 : (a \o b)[i][1] = Settings.order[j]
    <3>1. CASE i \in 1 .. Len(a)
      <4>1. \A j \in 1 .. k : j \in 1 .. k + 1
        BY <1>1, <2>1
      <4>2. QED BY <2>3, <2>8, <3>1, <4>1 DEF IsPlan
    <3>2. CASE i \notin 1 .. Len(a)
      <4>1. i \in Len(a) + 1 .. Len(a) + Len(b) /\ i - Len(a) \in 1 .. Len(b)
        BY <2>8, <3>2
      <4>2. (a \o b)[i][1] = p
        BY <2>5, <2>8, <4>1
      <4>3. k + 1 \in 1 .. k + 1 /\ p = Settings.order[k + 1]
        BY <1>1, <2>1 DEF p
      <4>4. QED BY <4>2, <4>3
    <3>3. QED BY <3>1, <3>2
  <2>10. Len(a \o b) > 0 /\ (a \o b)[1] = <<Settings.primary, Settings.model>>
    BY <2>3, <2>8 DEF IsPlan
  <2>11. IsPlan(a \o b, k + 1)
    BY <2>7, <2>8, <2>9, <2>10 DEF IsPlan
  <2>12. QED BY <2>1, <2>2, <2>11
<1>6. n \in Good
  <2> HIDE DEF Good
  <2>1. \A k \in 0 .. n : k \in Good
    BY <1>1, <1>4, <1>5, InductionUpTo
  <2>2. QED BY <1>1, <2>1
<1>7. QED BY <1>3, <1>6 DEF Plan

-----------------------------------------------------------------------------
(* The books of an agent.                                                  *)

\* An answer ends the streak of failures, and nothing but a failure starts one.
StreakNeedsFailure ==
  \A p \in Providers : last[p] \in {"idle", "success"} => streak[p] = 0

\* A chat only sleeps if another attempt may follow.
AttemptIsLeft == chat.pc = "backoff" => chat.attempt < MaxAttempts /\ chat.sleeping > 0

\* What is inductive about the books.
Books ==
  /\ TypeOK /\ AttemptIsLeft /\ TrailIsComplete
  /\ BudgetsKept /\ OpenNeedsStreak /\ StreakNeedsFailure

\* The circuit of the provider that is being asked is not open.
AskedIsNotOpen ==
  chat.pc \in {"probe", "attempt", "generate", "backoff"} => openUntil[Provider] <= clock

\* What is left of a backoff fits the time budget.
SleepFits ==
  chat.pc = "backoff" /\ ElapsedBudget > 0 =>
    clock - chat.startedAt + chat.sleeping < ElapsedBudget

\* How long ago a cancellation was requested that a chat has not noticed yet.  A
\* request is sent twice at most, and a chat that starts cancelled ends at once.
Noticed ==
  Cancelled =>
    /\ chat.pc = "select" =>
         clock - cancelledAt <= 2 * Latency \/ clock - chat.startedAt <= 2 * Latency
    /\ chat.pc = "probe" => clock <= cancelledAt
    /\ chat.pc \in {"attempt", "backoff"} => clock - cancelledAt <= 2 * Latency
    /\ chat.pc = "generate" =>
         \/ clock <= cancelledAt
         \/ /\ clock - cancelledAt <= Latency
            /\ Candidate \in learned /\ Service[Provider] = "openai"

\* Nothing is held against a dependable provider, not even by other agents.
Untouched ==
  \A p \in Providers : IsDependable(p) =>
    openUntil[p] = 0 /\ \A m \in Models : cache[<<p, m>>] = NoSnapshot

\* None of them has been passed over, and a chat that goes on has no outcome yet.
NonePassed ==
  /\ chat.pc # "idle" => chat.outcome = "none"
  /\ ReliableAnswers

-----------------------------------------------------------------------------
(* What requests cost, and the effects that steps share.                   *)

\* The limits that the configuration was validated for, and the bounds.
LEMMA LimitsType ==
  /\ MaxAttempts \in Nat /\ MaxAttempts > 0 /\ CheckInterval \in Nat /\ CheckInterval > 0
  /\ Backoff \in Nat /\ MaxBackoff \in Nat /\ AgentBudget \in Nat /\ ElapsedBudget \in Nat
  /\ Jitter \in {0, 1} /\ ProviderBudget \in [Providers -> Nat]
  /\ Threshold \in Nat /\ Cooldown \in Nat /\ (Threshold > 0 => Cooldown > 0)
  /\ Latency \in Nat /\ Horizon \in Nat /\ MaxChats \in Nat /\ MaxRequests \in Nat
BY SettingsAssumption, PlanAssumption DEF ValidLimits, ValidCircuit

\* The plan is not empty.
LEMMA PlanType ==
  /\ Plan \in Seq(Candidates) /\ Len(Plan) \in Nat \ {0} /\ DOMAIN Plan = 1 .. Len(Plan)
  /\ \A i \in 1 .. Len(Plan) : Plan[i][1] \in Providers /\ Plan[i][2] \in Models
                               /\ Plan[i] = <<Plan[i][1], Plan[i][2]>>
<1>1. Plan \in Seq(Candidates) /\ Len(Plan) \in Nat \ {0} /\ DOMAIN Plan = 1 .. Len(Plan)
  BY PlanIsSound DEF IsPlan
<1>2. \A i \in 1 .. Len(Plan) : Plan[i] \in Providers \X Models
  BY <1>1 DEF Candidates
<1>3. QED BY <1>1, <1>2

\* A health check costs two requests at most, a call one or two.
LEMMA RequestsOfChecks ==
  ASSUME NEW c, NEW L, NEW check \in HealthChecks(c, L)
  PROVE  check.requests \in {0, 1, 2}
BY DEF HealthChecks

\* A call sends one request, and only an Ollama client may send another.
LEMMA RequestsOfCalls ==
  ASSUME NEW c, NEW L, NEW call \in Generations(c, L)
  PROVE  /\ call.requests \in {1, 2}
         /\ Service[c[1]] # "ollama" => call.requests = 1
BY DEF Generations

\* The locals of a chat.
Locals ==
  [pc : Points, index : DOMAIN Plan, attempt : 0..MaxAttempts, startedAt : Nat,
   sleeping : Nat, trail : Seq(Providers \X Skips), outcome : Outcomes]

\* The candidate at hand is one of the plan.
LEMMA AtHand ==
  ASSUME TypeOK
  PROVE  /\ chat \in Locals /\ chat.index \in 1 .. Len(Plan)
         /\ Provider \in Providers /\ Model \in Models /\ Candidate \in Candidates
         /\ Candidate = <<Provider, Model>> /\ Provider = Plan[chat.index][1]
BY PlanType DEF TypeOK, Locals, Provider, Model, Candidate, Candidates

\* The time that a check or a call takes.
LEMMA Duration ==
  ASSUME TypeOK, NEW t, (\E status : Checked(status, t)) \/ (\E result : Called(result, t))
  PROVE  t \in Nat /\ clock <= t /\ t <= clock + 2 * Latency
<1>1. PICK n \in {0, 1, 2} : Passing(t, n)
  BY RequestsOfChecks, RequestsOfCalls DEF Checked, Called
<1>2. clock \in Nat /\ Latency \in Nat /\ t \in clock .. clock + n * Latency
  BY <1>1, LimitsType DEF TypeOK, Passing
<1>3. QED BY <1>2

\* A chat that raises keeps its trail and is over.
LEMMA Raised ==
  ASSUME TypeOK, NEW why \in Outcomes, Raise(why)
  PROVE  /\ chat' \in Locals /\ chat'.pc = "idle" /\ chat'.index = chat.index
         /\ chat'.trail = chat.trail /\ chat'.outcome = why
         /\ chat'.startedAt = chat.startedAt
<1>1. chat \in Locals /\ 0 \in 0 .. MaxAttempts
  BY AtHand, LimitsType
<1>2. QED BY <1>1 DEF Raise, Locals, Points

\* Either the chat is over, or the next candidate's turn has come and the history
\* says why.
LEMMA Passed ==
  ASSUME TypeOK, NEW why \in Skips, NextOrRaise(why)
  PROVE  /\ chat' \in Locals /\ chat'.startedAt = chat.startedAt
         /\ \/ /\ IsLast /\ chat'.pc = "idle" /\ chat'.index = chat.index
               /\ chat'.trail = chat.trail /\ chat'.outcome = why
            \/ /\ ~ IsLast /\ chat'.pc = "select" /\ chat'.index = chat.index + 1
               /\ chat'.trail = Append(chat.trail, <<Provider, why>>)
               /\ chat'.outcome = chat.outcome
<1>1. CASE IsLast
  BY <1>1, Raised DEF NextOrRaise, Skips, Outcomes
<1>2. CASE ~ IsLast
  <2>1. /\ chat \in Locals /\ 0 \in 0 .. MaxAttempts
        /\ chat.index + 1 \in DOMAIN Plan /\ <<Provider, why>> \in Providers \X Skips
    BY <1>2, AtHand, PlanType, LimitsType DEF IsLast
  <2>2. chat.trail \in Seq(Providers \X Skips)
    BY <2>1 DEF Locals
  <2>3. Append(chat.trail, <<Provider, why>>) \in Seq(Providers \X Skips)
    BY <2>1, <2>2
  <2>4. QED BY <1>2, <2>1, <2>3 DEF NextOrRaise, Locals, Points
<1>3. QED BY <1>1, <1>2

\* A candidate that is passed over leaves an entry behind.
LEMMA PassedTrail ==
  ASSUME TypeOK, TrailIsComplete, NEW why \in Skips, NextOrRaise(why)
  PROVE  TrailIsComplete'
<1>1. chat.trail \in Seq(Providers \X Skips) /\ chat.index \in 1 .. Len(Plan)
      /\ Provider = Plan[chat.index][1]
  BY AtHand DEF Locals
<1>2. CASE chat'.index = chat.index /\ chat'.trail = chat.trail
  BY <1>2 DEF TrailIsComplete
<1>3. CASE chat'.index = chat.index + 1 /\ chat'.trail = Append(chat.trail, <<Provider, why>>)
  <2>1. /\ Len(chat'.trail) = Len(chat.trail) + 1 /\ Len(chat.trail) = chat.index - 1
        /\ DOMAIN chat'.trail = 1 .. chat.index /\ DOMAIN chat.trail = 1 .. chat.index - 1
        /\ \A i \in 1 .. chat.index - 1 : chat'.trail[i] = chat.trail[i]
        /\ chat'.trail[chat.index] = <<Provider, why>>
    BY <1>1, <1>3 DEF TrailIsComplete
  <2>2. ASSUME NEW i \in 1 .. chat.index
        PROVE  chat'.trail[i][1] = Plan[i][1]
    <3>1. CASE i = chat.index
      BY <1>1, <2>1, <3>1
    <3>2. CASE i # chat.index
      <4>1. i \in 1 .. chat.index - 1
        BY <1>1, <3>2
      <4>2. chat'.trail[i] = chat.trail[i] /\ i \in DOMAIN chat.trail
        BY <2>1, <4>1
      <4>3. chat.trail[i][1] = Plan[i][1]
        BY <4>2 DEF TrailIsComplete
      <4>4. QED BY <4>2, <4>3
    <3>3. QED BY <3>1, <3>2
  <2>3. QED BY <1>1, <1>3, <2>1, <2>2 DEF TrailIsComplete
<1>4. QED BY <1>2, <1>3, Passed

\* What is recorded of a failure, at a time t, leaves circuits and streaks agreeing.
LEMMA FailureIsRecorded ==
  ASSUME TypeOK, OpenNeedsStreak, StreakNeedsFailure, NEW p \in Providers, NEW t \in Nat,
         NEW retryable, RecordFailure(p, retryable),
         CountTransient(p, t) \/ UNCHANGED <<streak, openUntil>>
  PROVE  /\ streak' \in [Providers -> Nat] /\ openUntil' \in [Providers -> Nat]
         /\ last' \in [Providers -> Health]
         /\ OpenNeedsStreak' /\ StreakNeedsFailure'
         /\ \A q \in Providers : q # p => openUntil'[q] = openUntil[q]
<1>1. last' \in [Providers -> Health] /\ last'[p] \in {"degraded", "failing"}
      /\ \A q \in Providers : q # p => last'[q] = last[q]
  BY DEF TypeOK, RecordFailure, Severity, Health
<1>2. CASE UNCHANGED <<streak, openUntil>>
  BY <1>1, <1>2 DEF TypeOK, OpenNeedsStreak, StreakNeedsFailure
<1>3. CASE CountTransient(p, t)
  <2>1. CASE Threshold = 0
    <3>1. /\ streak' = [streak EXCEPT ![p] = 0] /\ openUntil' = [openUntil EXCEPT ![p] = 0]
      BY <1>3, <2>1 DEF CountTransient
    <3>2. /\ streak' \in [Providers -> Nat] /\ openUntil' \in [Providers -> Nat]
          /\ streak'[p] = 0 /\ openUntil'[p] = 0
          /\ \A q \in Providers : q # p => streak'[q] = streak[q] /\ openUntil'[q] = openUntil[q]
      BY <3>1 DEF TypeOK
    <3>3. QED BY <1>1, <3>2 DEF OpenNeedsStreak, StreakNeedsFailure
  <2>2. CASE Threshold # 0
    <3>1. /\ streak' = [streak EXCEPT ![p] = @ + 1]
          /\ openUntil' = [openUntil EXCEPT ![p] =
                             IF streak[p] + 1 >= Threshold THEN t + Cooldown ELSE @]
      BY <1>3, <2>2 DEF CountTransient
    <3>2. /\ streak' \in [Providers -> Nat] /\ openUntil' \in [Providers -> Nat]
          /\ streak'[p] = streak[p] + 1
          /\ openUntil'[p] = IF streak[p] + 1 >= Threshold THEN t + Cooldown ELSE openUntil[p]
          /\ \A q \in Providers : q # p => streak'[q] = streak[q] /\ openUntil'[q] = openUntil[q]
      BY <3>1, LimitsType DEF TypeOK
    <3>3. OpenNeedsStreak'
      <4> SUFFICES ASSUME NEW q \in Providers, openUntil'[q] > 0
                   PROVE  Threshold > 0 /\ streak'[q] >= Threshold
        BY DEF OpenNeedsStreak
      <4>1. CASE q # p
        BY <3>2, <4>1 DEF OpenNeedsStreak
      <4>2. CASE q = p
        BY <2>2, <3>2, <4>2, LimitsType DEF OpenNeedsStreak, TypeOK
      <4>3. QED BY <4>1, <4>2
    <3>4. StreakNeedsFailure'
      BY <1>1, <3>2 DEF StreakNeedsFailure
    <3>5. QED BY <1>1, <3>2, <3>3, <3>4
  <2>3. QED BY <2>1, <2>2
<1>4. QED BY <1>2, <1>3

\* An answer closes a circuit.
LEMMA CircuitIsClosed ==
  ASSUME TypeOK, OpenNeedsStreak, StreakNeedsFailure, NEW p \in Providers,
         NEW how \in Health, CloseCircuit(p), last' = [last EXCEPT ![p] = how]
  PROVE  /\ streak' \in [Providers -> Nat] /\ openUntil' \in [Providers -> Nat]
         /\ last' \in [Providers -> Health]
         /\ OpenNeedsStreak' /\ StreakNeedsFailure'
         /\ openUntil'[p] = 0
         /\ \A q \in Providers : q # p => openUntil'[q] = openUntil[q]
BY DEF TypeOK, OpenNeedsStreak, StreakNeedsFailure, CloseCircuit

\* Another attempt, at once or after a delay.
LEMMA Retried ==
  ASSUME TypeOK, 0 < chat.attempt, chat.attempt < MaxAttempts, NEW delay \in Int, Retry(delay)
  PROVE  /\ chat' \in Locals /\ chat'.index = chat.index /\ chat'.trail = chat.trail
         /\ chat'.startedAt = chat.startedAt /\ chat'.outcome = chat.outcome
         /\ chat'.attempt > 0
         /\ \/ chat'.pc = "attempt"
            \/ /\ chat'.pc = "backoff" /\ chat'.attempt = chat.attempt
               /\ chat'.sleeping = delay /\ delay > 0
<1>1. chat \in Locals
  BY AtHand
<1>2. CASE delay > 0
  <2>1. chat' = [chat EXCEPT !.pc = "backoff", !.sleeping = delay] /\ delay \in Nat
    BY <1>2 DEF Retry
  <2>2. QED BY <1>1, <1>2, <2>1 DEF Locals, Points
<1>3. CASE ~ (delay > 0)
  <2>1. chat' = [chat EXCEPT !.pc = "attempt", !.attempt = @ + 1, !.sleeping = 0]
    BY <1>3 DEF Retry
  <2>2. chat.attempt + 1 \in 0 .. MaxAttempts /\ chat.attempt + 1 > 0
    BY <1>1, LimitsType DEF Locals
  <2>3. QED BY <1>1, <2>1, <2>2 DEF Locals, Points
<1>4. QED BY <1>2, <1>3

\* What a chat keeps of itself: where it is, and the trail of where it was.
Course ==
  /\ chat \in Locals
  /\ chat.pc \in {"attempt", "generate", "backoff"} => chat.attempt > 0
  /\ AttemptIsLeft /\ TrailIsComplete

\* Every step keeps the course of the chat.
LEMMA CourseStep == TypeOK /\ AttemptIsLeft /\ TrailIsComplete /\ [Next]_vars => Course'
<1> SUFFICES ASSUME TypeOK, AttemptIsLeft, TrailIsComplete, [Next]_vars PROVE Course'
  OBVIOUS
<1>1. chat \in Locals
      /\ (chat.pc \in {"attempt", "generate", "backoff"} => chat.attempt > 0)
  BY AtHand DEF TypeOK
<1>2. CASE UNCHANGED chat
  BY <1>1, <1>2 DEF Course, Locals, AttemptIsLeft, TrailIsComplete
<1>3. ASSUME NEW why \in Outcomes, Raise(why) PROVE Course'
  BY <1>3, Raised DEF Course, AttemptIsLeft, TrailIsComplete
<1>4. ASSUME NEW why \in Skips, NextOrRaise(why) PROVE Course'
  BY <1>4, Passed, PassedTrail DEF Course, AttemptIsLeft
<1>5. ASSUME NEW delay \in Int, Retry(delay), 0 < chat.attempt, chat.attempt < MaxAttempts
      PROVE  Course'
  BY <1>5, Retried DEF Course, AttemptIsLeft, TrailIsComplete
<1>6. CASE Chat
  <2>1. chat' = [chat EXCEPT !.pc = "select", !.index = 1, !.startedAt = clock,
                             !.trail = <<>>, !.outcome = "none"]
    BY <1>6 DEF Chat
  <2>2. 1 \in DOMAIN Plan /\ clock \in Nat /\ <<>> \in Seq(Providers \X Skips)
    BY PlanType DEF TypeOK
  <2>3. chat' \in Locals
    BY <1>1, <2>1, <2>2 DEF Locals, Points, Outcomes
  <2>4. chat'.pc = "select" /\ chat'.index = 1 /\ chat'.trail = <<>>
    BY <1>1, <2>1 DEF Locals
  <2>5. QED BY <2>3, <2>4 DEF Course, AttemptIsLeft, TrailIsComplete
<1>7. CASE StartProbe
  BY <1>1, <1>7 DEF StartProbe, Course, Locals, Points, AttemptIsLeft, TrailIsComplete
<1>8. CASE ProbeReady
  <2>1. 1 \in 0 .. MaxAttempts
    BY LimitsType
  <2>2. chat' = [chat EXCEPT !.pc = "attempt", !.attempt = 1]
    BY <1>8 DEF ProbeReady
  <2>3. /\ chat' \in Locals /\ chat'.pc = "attempt" /\ chat'.attempt = 1
        /\ chat'.index = chat.index /\ chat'.trail = chat.trail
    BY <1>1, <2>1, <2>2 DEF Locals, Points
  <2>4. QED BY <2>3 DEF Course, AttemptIsLeft, TrailIsComplete
<1>9. CASE Generate
  BY <1>1, <1>9 DEF Generate, Course, Locals, Points, AttemptIsLeft, TrailIsComplete
<1>10. CASE Refuse
  BY <1>3, <1>4, <1>10 DEF Refuse, Refusal, Outcomes, Skips
<1>11. CASE GiveUp
  BY <1>3, <1>4, <1>11 DEF GiveUp, Obstacle, Outcomes, Skips
<1>12. CASE RecallUnhealthy \/ \E status \in {"degraded", "failing"} : ProbeUnhealthy(status)
  BY <1>4, <1>12 DEF RecallUnhealthy, ProbeUnhealthy, Unhealthy, Skips
<1>13. CASE ProbeEscapes \/ Answered \/ Refused
  BY <1>3, <1>13 DEF ProbeEscapes, Answered, Refused, Outcomes
<1>14. CASE Exhausted
  BY <1>4, <1>14 DEF Exhausted, Skips
<1>15. CASE Transient
  <2>1. \A delay \in Delays : delay \in Int
    BY DEF Delays
  <2>2. 0 < chat.attempt /\ chat.attempt < MaxAttempts
    BY <1>1, <1>15 DEF Transient, Locals
  <2>3. QED BY <1>3, <1>5, <1>15, <2>1, <2>2 DEF Transient, Outcomes
<1>16. CASE Sleep
  <2>1. chat.sleeping - Slice \in Int /\ 0 < chat.attempt /\ chat.attempt < MaxAttempts
    BY <1>1, <1>16, LimitsType DEF Sleep, Slice, Locals, AttemptIsLeft
  <2>2. QED BY <1>3, <1>5, <1>16, <2>1 DEF Sleep, Outcomes
<1>17. CASE Resend \/ Request \/ Clear \/ Wait
            \/ (\E i \in DOMAIN Plan : OtherProbe(Plan[i][1])) \/ UNCHANGED vars
  BY <1>2, <1>17 DEF Resend, Request, Clear, Wait, OtherProbe, vars
<1>18. QED
  BY <1>6, <1>7, <1>8, <1>9, <1>10, <1>11, <1>12, <1>13, <1>14, <1>15, <1>16, <1>17
     DEF Next, Work, Others

\* What an agent counts and records of its providers.
Ledger ==
  /\ calls \in Nat /\ callsOf \in [Providers -> Nat]
  /\ streak \in [Providers -> Nat] /\ openUntil \in [Providers -> Nat]
  /\ last \in [Providers -> Health]
  /\ BudgetsKept /\ OpenNeedsStreak /\ StreakNeedsFailure

\* Every step keeps what the agent counts.
LEMMA LedgerStep ==
  TypeOK /\ BudgetsKept /\ OpenNeedsStreak /\ StreakNeedsFailure /\ [Next]_vars => Ledger'
<1> SUFFICES ASSUME TypeOK, BudgetsKept, OpenNeedsStreak, StreakNeedsFailure, [Next]_vars
             PROVE  Ledger'
  OBVIOUS
<1>1. Ledger
  BY DEF Ledger, TypeOK
<1>2. CASE UNCHANGED <<calls, callsOf, streak, openUntil, last>>
  BY <1>1, <1>2 DEF Ledger, BudgetsKept, OpenNeedsStreak, StreakNeedsFailure
<1>3. Provider \in Providers
  BY AtHand
<1>4. ASSUME UNCHANGED <<calls, callsOf>>, NEW t \in Nat, NEW retryable,
             RecordFailure(Provider, retryable),
             CountTransient(Provider, t) \/ UNCHANGED <<streak, openUntil>>
      PROVE  Ledger'
  BY <1>1, <1>3, <1>4, FailureIsRecorded DEF Ledger, BudgetsKept
<1>5. ASSUME UNCHANGED <<calls, callsOf>>, NEW how \in Health, CloseCircuit(Provider),
             last' = [last EXCEPT ![Provider] = how]
      PROVE  Ledger'
  BY <1>1, <1>3, <1>5, CircuitIsClosed DEF Ledger, BudgetsKept
<1>6. CASE Generate
  <2>1. /\ calls' = calls + 1 /\ callsOf' = [callsOf EXCEPT ![Provider] = @ + 1]
        /\ UNCHANGED <<streak, openUntil, last>>
        /\ ~ AgentBudgetSpent /\ ~ ProviderBudgetSpent
    BY <1>6 DEF Generate, Obstacle
  <2>2. calls' \in Nat /\ callsOf' \in [Providers -> Nat]
    <3>1. calls \in Nat /\ callsOf \in [Providers -> Nat] /\ callsOf[Provider] + 1 \in Nat
      BY <1>1, <1>3 DEF Ledger
    <3>2. QED BY <1>3, <2>1, <3>1
  <2>3. AgentBudget > 0 => calls' <= AgentBudget
    BY <1>1, <2>1, LimitsType DEF AgentBudgetSpent, Ledger
  <2>4. ASSUME NEW p \in Providers, ProviderBudget[p] > 0
        PROVE  callsOf'[p] <= ProviderBudget[p]
    <3>1. CASE p = Provider
      <4>1. callsOf'[p] = callsOf[p] + 1 /\ callsOf[p] \in Nat /\ ProviderBudget[p] \in Nat
        BY <1>1, <1>3, <2>1, <3>1, LimitsType DEF Ledger
      <4>2. ~ callsOf[p] >= ProviderBudget[p]
        BY <2>1, <2>4, <3>1 DEF ProviderBudgetSpent
      <4>3. QED BY <4>1, <4>2
    <3>2. CASE p # Provider
      BY <1>1, <1>3, <2>1, <2>4, <3>2 DEF Ledger, BudgetsKept
    <3>3. QED BY <3>1, <3>2
  <2>5. QED BY <1>1, <2>1, <2>2, <2>3, <2>4
            DEF Ledger, BudgetsKept, OpenNeedsStreak, StreakNeedsFailure
<1>7. CASE RecallUnhealthy
  <2>1. clock \in Nat
    BY DEF TypeOK
  <2>2. QED BY <1>4, <1>7, <2>1 DEF RecallUnhealthy, Unhealthy
<1>8. ASSUME NEW status \in {"degraded", "failing"}, ProbeUnhealthy(status) PROVE Ledger'
  <2>1. clock' \in Nat
    BY <1>8, Duration DEF ProbeUnhealthy
  <2>2. QED BY <1>4, <1>8, <2>1 DEF ProbeUnhealthy, Unhealthy
<1>9. CASE Answered
  BY <1>5, <1>9 DEF Answered, Health
<1>10. CASE Refused
  BY <1>5, <1>10 DEF Refused, RecordFailure, Severity, Health
<1>11. CASE Exhausted
  <2>1. clock' \in Nat
    BY <1>11, Duration DEF Exhausted
  <2>2. QED BY <1>4, <1>11, <2>1 DEF Exhausted
<1>12. CASE Resend
  BY <1>1, <1>12 DEF Resend, Ledger, BudgetsKept, OpenNeedsStreak, StreakNeedsFailure
<1>13. CASE \/ Refuse \/ StartProbe \/ ProbeReady \/ ProbeEscapes \/ GiveUp \/ Transient
            \/ Sleep \/ Chat \/ Request \/ Clear \/ Wait
            \/ (\E i \in DOMAIN Plan : OtherProbe(Plan[i][1])) \/ UNCHANGED vars
  <2>1. UNCHANGED <<calls, callsOf, streak, openUntil, last>>
    BY <1>13 DEF Refuse, StartProbe, ProbeReady, ProbeEscapes, GiveUp, Transient, Sleep,
                 Chat, Request, Clear, Wait, OtherProbe, vars, agent
  <2>2. QED BY <1>2, <2>1
<1>14. QED
  BY <1>6, <1>7, <1>8, <1>9, <1>10, <1>11, <1>12, <1>13 DEF Next, Work, Others

\* What is remembered of the health checks has its type.
LEMMA ChecksStep == TypeOK /\ [Next]_vars => checks' \in [Providers -> Statuses]
<1> SUFFICES ASSUME TypeOK, [Next]_vars PROVE checks' \in [Providers -> Statuses]
  OBVIOUS
<1>1. checks \in [Providers -> Statuses]
  BY DEF TypeOK
<1>2. CASE RecallUnhealthy \/ \E status \in {"degraded", "failing"} : ProbeUnhealthy(status)
  <2>1. PICK retryable : checks' = [checks EXCEPT ![Provider] = Severity(retryable)]
    BY <1>2 DEF RecallUnhealthy, ProbeUnhealthy, Unhealthy
  <2>2. QED BY <1>1, <2>1 DEF Severity, Statuses
<1>3. CASE ProbeReady
  BY <1>1, <1>3 DEF ProbeReady, Statuses
<1>4. CASE Generate \/ Resend \/ Answered \/ Refused \/ Exhausted
  BY <1>1, <1>4 DEF Generate, Resend, Answered, Refused, Exhausted
<1>5. CASE \/ Refuse \/ StartProbe \/ ProbeEscapes \/ GiveUp \/ Transient
           \/ Sleep \/ Chat \/ Request \/ Clear \/ Wait
           \/ (\E i \in DOMAIN Plan : OtherProbe(Plan[i][1])) \/ UNCHANGED vars
  BY <1>1, <1>5 DEF Refuse, StartProbe, ProbeEscapes, GiveUp, Transient, Sleep, Chat, Request,
                    Clear, Wait, OtherProbe, vars, agent
<1>6. QED BY <1>2, <1>3, <1>4, <1>5 DEF Next, Work, Others

\* The model that a provider is probed with for the plan is one of its own.
LEMMA RuntimeModelType ==
  ASSUME NEW i \in 1 .. Len(Plan)
  PROVE  RuntimeModel(Settings, Plan[i][1]) \in Models
<1> DEFINE p == Plan[i][1]
           models == ModelsFor(Settings, p)
<1>1. Settings \in Named /\ Settings.model \in Models /\ Blank \notin Models
      /\ ValidFallbacks(Settings) /\ Settings.order \in Seq(Providers) /\ p \in Providers
  BY SettingsType, SettingsAssumption, PlanType
<1>2. CASE p = Settings.primary
  <2> DEFINE names == <<Settings.model>> \o Settings.candidates
  <2>1. names \in Seq(Names) /\ names # <<>> /\ names[1] = Settings.model
    BY <1>1 DEF Named, Names
  <2>2. models = Normal(names)
    BY <1>2 DEF ModelsFor
  <2> HIDE DEF names, models
  <2>3. models[1] = Settings.model
    BY <1>1, <2>1, <2>2, NormalIsDistinct
  <2>4. QED BY <1>1, <2>3 DEF models, RuntimeModel
<1>3. CASE p # Settings.primary
  <2> DEFINE names == Settings.fallback[p]
  <2>1. p \in ToSet(Settings.order)
    BY <1>1, <1>3, PlanIsSound DEF IsPlan, ToSet
  <2>2. names # <<>>
    BY <1>1, <2>1 DEF ValidFallbacks
  <2>3. names \in Seq(Models)
    <3>1. Given.fallback[p] \in Seq(Names) /\ names = Normal(Given.fallback[p])
      BY <1>1, SettingsAssumption DEF Settings, Normalised, Named
    <3>2. QED BY <3>1, NormalIsDistinct DEF IsDistinct
  <2>4. names \in Seq(Names) /\ names[1] # Blank /\ names[1] \in Models
    BY <1>1, <2>2, <2>3 DEF Names
  <2>5. models = Normal(names)
    BY <1>3 DEF ModelsFor
  <2> HIDE DEF names, models
  <2>6. models[1] = names[1]
    BY <2>2, <2>4, <2>5, NormalIsDistinct
  <2>7. QED BY <2>4, <2>6 DEF models, RuntimeModel
<1>4. QED BY <1>2, <1>3

\* The clock, and what the agents of a process share.
Shared ==
  /\ clock \in Nat /\ cache \in [Candidates -> Snapshot \cup {NoSnapshot}]
  /\ learned \subseteq Candidates /\ cancelledAt \in Nat \cup {Never}
  /\ requests \in 0..MaxRequests /\ chats \in 0..MaxChats

\* Every step keeps what agents share.
LEMMA SharedStep == Course /\ TypeOK /\ [Next]_vars => Shared'
<1> SUFFICES ASSUME Course, TypeOK, [Next]_vars PROVE Shared'
  OBVIOUS
<1>1. Shared /\ Candidate \in Candidates /\ Model \in Models
  BY AtHand DEF TypeOK, Shared
<1> DEFINE Cached == cache' \in [Candidates -> Snapshot \cup {NoSnapshot}]
           Others1 == UNCHANGED <<learned, cancelledAt, requests, chats>>
<1>2. ASSUME clock' \in Nat, Cached, Others1 PROVE Shared'
  BY <1>1, <1>2 DEF Shared
<1>3. ASSUME cache' = cache PROVE Cached
  BY <1>1, <1>3 DEF Shared
<1>4. ASSUME NEW k, NEW snapshot \in Snapshot \cup {NoSnapshot},
             cache' = [cache EXCEPT ![k] = snapshot]
      PROVE  Cached
  BY <1>1, <1>4 DEF Shared
<1>5. CASE Refuse \/ RecallUnhealthy \/ GiveUp \/ Generate \/ UNCHANGED vars
  <2>1. UNCHANGED <<clock, cache, learned, cancelledAt, requests, chats>>
    BY <1>5 DEF Refuse, RecallUnhealthy, Unhealthy, GiveUp, Generate, agent, counters, vars
  <2>2. QED BY <1>1, <2>1 DEF Shared
<1>6. CASE StartProbe
  <2>1. clock' \in Nat /\ Others1
    BY <1>1, <1>6 DEF StartProbe, agent, counters, Shared
  <2>2. QED BY <1>2, <1>3, <1>4, <1>6, <2>1 DEF StartProbe
<1>7. CASE ProbeReady \/ ProbeEscapes
  <2>1. clock' \in Nat /\ Others1
    BY <1>7, Duration DEF ProbeReady, ProbeEscapes, agent, counters
  <2>2. QED BY <1>2, <1>3, <1>4, <1>7, <2>1 DEF ProbeReady, ProbeEscapes
<1>8. ASSUME NEW status \in {"degraded", "failing"}, ProbeUnhealthy(status) PROVE Shared'
  <2>1. clock' \in Nat /\ Others1
    BY <1>8, Duration DEF ProbeUnhealthy, Unhealthy, counters
  <2>2. [model |-> Model, at |-> clock', retryable |-> status = "degraded"] \in Snapshot
    BY <1>1, <2>1 DEF Snapshot
  <2>3. QED BY <1>2, <1>4, <1>8, <2>1, <2>2 DEF ProbeUnhealthy
<1>9. CASE Resend
  BY <1>1, <1>9, Duration DEF Resend, Shared, counters
<1>10. CASE Answered \/ Refused \/ Exhausted \/ Transient
  <2>1. clock' \in Nat /\ Others1 /\ cache' = cache
    BY <1>10, Duration DEF Answered, Refused, Exhausted, Transient, agent, counters
  <2>2. QED BY <1>2, <1>3, <2>1
<1>11. CASE Sleep
  <2>1. Slice \in Nat
    BY LimitsType DEF Slice, Course, Locals
  <2>2. clock' \in Nat /\ Others1 /\ cache' = cache
    BY <1>1, <1>11, <2>1 DEF Sleep, agent, counters, Shared
  <2>3. QED BY <1>2, <1>3, <2>2
<1>12. CASE Chat
  BY <1>1, <1>12, LimitsType DEF Chat, Shared, agent
<1>13. CASE Request
  BY <1>1, <1>13, LimitsType DEF Request, Shared, agent
<1>14. CASE Clear
  BY <1>1, <1>14 DEF Clear, Shared, agent, counters
<1>15. CASE Wait
  BY <1>1, <1>15 DEF Wait, Shared, agent, counters
<1>16. ASSUME NEW i \in DOMAIN Plan, OtherProbe(Plan[i][1]) PROVE Shared'
  <2>1. clock' \in Nat /\ Others1
    BY <1>1, <1>16 DEF OtherProbe, agent, counters, Shared
  <2>2. KeyOf(Plan[i][1])[2] \in Models
    BY RuntimeModelType, <1>16, PlanType DEF KeyOf
  <2>3. PICK snapshot \in Snapshot \cup {NoSnapshot} :
          cache' = [cache EXCEPT ![KeyOf(Plan[i][1])] = snapshot]
    BY <1>1, <1>16, <2>2 DEF OtherProbe, Snapshot, Shared
  <2>4. QED BY <1>2, <1>4, <2>1, <2>3
<1>17. QED
  BY <1>5, <1>6, <1>7, <1>8, <1>9, <1>10, <1>11, <1>12, <1>13, <1>14, <1>15, <1>16
     DEF Next, Work, Others

\* The books hold in every behaviour.
LEMMA BooksHold == Spec => []Books
<1>1. Init => Books
  <2> SUFFICES ASSUME Init PROVE Books
    OBVIOUS
  <2>1. 1 \in DOMAIN Plan /\ NoSnapshot \in Snapshot \cup {NoSnapshot}
    BY PlanType
  <2>2. TypeOK
    BY <2>1, LimitsType DEF Init, TypeOK, Points, Health, Statuses, Outcomes
  <2>3. AttemptIsLeft /\ TrailIsComplete /\ BudgetsKept
    BY LimitsType DEF Init, AttemptIsLeft, TrailIsComplete, BudgetsKept
  <2>4. OpenNeedsStreak /\ StreakNeedsFailure
    BY DEF Init, OpenNeedsStreak, StreakNeedsFailure
  <2>5. QED BY <2>2, <2>3, <2>4 DEF Books
<1>2. Books /\ [Next]_vars => Books'
  <2> SUFFICES ASSUME Books, [Next]_vars PROVE Books'
    OBVIOUS
  <2>1. Course
    BY AtHand DEF Books, Course, TypeOK
  <2>2. Course' /\ Ledger' /\ Shared'
    BY <2>1, CourseStep, LedgerStep, SharedStep DEF Books
  <2>3. TypeOK'
    BY <2>2, ChecksStep DEF TypeOK, Books, Course, Locals, Ledger, Shared
  <2>4. QED BY <2>2, <2>3 DEF Books, Course, Ledger
<1>3. QED BY <1>1, <1>2, PTL DEF Spec

\* However chats, retries, probes of others and cancellations interleave, the
\* fallback history is complete, no call budget is exceeded, a circuit that is open
\* has seen its streak of failures, and a healthy provider none.
THEOREM BooksKept == Spec => []BooksAreKept
<1>1. Books => HealthyHasNoStreak
  BY DEF Books, TypeOK, StreakNeedsFailure, HealthyHasNoStreak, HealthStatus, Health
<1>2. Books => BooksAreKept
  BY <1>1 DEF Books, BooksAreKept
<1>3. QED BY <1>2, BooksHold, PTL

-----------------------------------------------------------------------------
(* The circuit breaker.                                                    *)

\* Provider p is being sent something.
Asked(p) == InFlight /\ Provider = p

\* The steps of a circuit breaker.
LEMMA BreakerSteps ==
  ASSUME NEW p \in Providers,
         \/ /\ Asked(p)' <=> Asked(p)
            /\ Phase(p)' = Phase(p) \/ (Phase(p) = "open" /\ Phase(p)' = "trial")
         \/ ~ Asked(p) /\ Asked(p)' /\ Phase(p) # "open" /\ Phase(p)' = Phase(p)
         \/ Asked(p) /\ ~ Asked(p)' /\ Phase(p)' = Phase(p)
         \/ Asked(p) /\ ~ Asked(p)' /\ Phase(p) # "open" /\ Phase(p)' = "closed"
         \/ ~ Asked(p)' /\ Phase(p) # "open" /\ Phase(p)' = "open"
  PROVE  [Breaker(p)!BreakerNext]_(Breaker(p)!breaker)
BY DEF Asked, Breaker!BreakerNext, Breaker!breaker, Breaker!Ask, Breaker!Return,
       Breaker!Close, Breaker!Trip, Breaker!CoolDown

\* What a step may do to the chat and the circuits, whoever takes it.
StepKind ==
  \/ UNCHANGED <<chat, openUntil>>
  \/ /\ ~ InFlight /\ ~ InFlight' /\ UNCHANGED openUntil
     /\ chat'.pc \in {"attempt", "backoff"} =>
          chat.pc = "backoff" /\ chat'.index = chat.index
  \/ /\ chat.pc = "select" /\ chat'.pc = "probe" /\ chat'.index = chat.index
     /\ openUntil[Provider] <= clock /\ UNCHANGED openUntil
  \/ /\ chat.pc = "attempt" /\ chat'.pc = "generate" /\ chat'.index = chat.index
     /\ UNCHANGED openUntil
  \/ /\ InFlight /\ chat'.pc \in {"idle", "attempt", "backoff"} /\ chat'.index = chat.index
     /\ UNCHANGED openUntil
  \/ /\ InFlight /\ chat'.pc = "idle" /\ openUntil'[Provider] = 0
     /\ \A p \in Providers \ {Provider} : openUntil'[p] = openUntil[p]
  \/ /\ InFlight \/ (chat.pc = "select" /\ openUntil[Provider] <= clock)
     /\ chat'.pc \in {"idle", "select"}
     /\ openUntil'[Provider] = openUntil[Provider] \/ openUntil'[Provider] > clock'
     /\ \A p \in Providers \ {Provider} : openUntil'[p] = openUntil[p]

\* A candidate is eligible only if its circuit is not open.
LEMMA EligibleIsNotOpen ==
  ASSUME Books, Eligible
  PROVE  openUntil[Provider] <= clock
<1>1. Provider \in Providers /\ clock \in Nat /\ openUntil[Provider] \in Nat /\ Threshold \in Nat
  BY AtHand, LimitsType DEF Books, TypeOK
<1>2. ~ CircuitOpen(Provider, clock)
  BY DEF Eligible, Refusal
<1>3. QED BY <1>1, <1>2 DEF CircuitOpen, Books, OpenNeedsStreak

\* A failure opens a circuit from now on, or leaves it as it is.
LEMMA TransientOpens ==
  ASSUME Books, NEW t \in Nat, CountTransient(Provider, t)
  PROVE  /\ openUntil'[Provider] = openUntil[Provider] \/ openUntil'[Provider] > t
         /\ \A p \in Providers \ {Provider} : openUntil'[p] = openUntil[p]
<1>1. Provider \in Providers /\ openUntil \in [Providers -> Nat]
      /\ streak \in [Providers -> Nat]
  BY AtHand DEF Books, TypeOK
<1>2. CASE Threshold = 0
  <2>1. openUntil[Provider] = 0
    BY <1>1, <1>2 DEF Books, OpenNeedsStreak
  <2>2. QED BY <1>1, <1>2, <2>1 DEF CountTransient
<1>3. CASE Threshold # 0
  <2>1. Cooldown \in Nat /\ Cooldown > 0
    BY <1>3, LimitsType
  <2>2. openUntil' = [openUntil EXCEPT ![Provider] =
                        IF streak[Provider] + 1 >= Threshold THEN t + Cooldown ELSE @]
    BY <1>3 DEF CountTransient
  <2>3. QED BY <1>1, <2>1, <2>2
<1>4. QED BY <1>2, <1>3

\* Every step is of one of these kinds.
LEMMA KindOfStep == Books /\ [Next]_vars => StepKind
<1> SUFFICES ASSUME Books, [Next]_vars PROVE StepKind
  OBVIOUS
<1>1. chat \in Locals /\ TypeOK /\ Provider \in Providers
  BY AtHand DEF Books
<1>2. ASSUME NEW why \in Outcomes, Raise(why) PROVE chat'.pc = "idle" /\ chat'.index = chat.index
  BY <1>1, <1>2, Raised
<1>3. ASSUME NEW why \in Skips, NextOrRaise(why) PROVE chat'.pc \in {"idle", "select"}
  BY <1>1, <1>3, Passed
<1>4. CASE Resend \/ Request \/ Clear \/ Wait
           \/ (\E i \in DOMAIN Plan : OtherProbe(Plan[i][1])) \/ UNCHANGED vars
  BY <1>4 DEF Resend, Request, Clear, Wait, OtherProbe, vars, agent, StepKind
<1>5. CASE Chat
  <2>1. chat'.pc = "select" /\ chat.pc = "idle" /\ UNCHANGED openUntil
    BY <1>1, <1>5 DEF Chat, Locals, agent
  <2>2. QED BY <2>1 DEF StepKind, InFlight
<1>6. CASE Refuse
  <2>1. chat'.pc \in {"idle", "select"} /\ chat.pc = "select" /\ UNCHANGED openUntil
    BY <1>2, <1>3, <1>6 DEF Refuse, Refusal, Outcomes, Skips, agent
  <2>2. QED BY <2>1 DEF StepKind, InFlight
<1>7. CASE RecallUnhealthy
  <2>1. chat'.pc \in {"idle", "select"} /\ chat.pc = "select" /\ clock' = clock /\ clock \in Nat
    BY <1>1, <1>3, <1>7 DEF RecallUnhealthy, Unhealthy, Skips, Eligible, TypeOK
  <2>2. openUntil[Provider] <= clock
    BY <1>7, EligibleIsNotOpen DEF RecallUnhealthy
  <2>3. CountTransient(Provider, clock) \/ UNCHANGED openUntil
    BY <1>7 DEF RecallUnhealthy, Unhealthy
  <2>4. QED BY <2>1, <2>2, <2>3, TransientOpens DEF StepKind
<1>8. CASE StartProbe
  <2>1. chat'.pc = "probe" /\ chat'.index = chat.index /\ chat.pc = "select" /\ UNCHANGED openUntil
    BY <1>1, <1>8 DEF StartProbe, Locals, agent, Eligible
  <2>2. QED BY <1>8, <2>1, EligibleIsNotOpen DEF StartProbe, StepKind
<1>9. CASE ProbeReady
  <2>1. chat'.pc = "attempt" /\ chat'.index = chat.index /\ chat.pc = "probe" /\ UNCHANGED openUntil
    BY <1>1, <1>9 DEF ProbeReady, Locals, agent
  <2>2. QED BY <2>1 DEF StepKind, InFlight
<1>10. CASE ProbeEscapes
  <2>1. chat'.pc = "idle" /\ chat'.index = chat.index /\ chat.pc = "probe" /\ UNCHANGED openUntil
    BY <1>2, <1>10 DEF ProbeEscapes, agent, Outcomes
  <2>2. QED BY <2>1 DEF StepKind, InFlight
<1>11. ASSUME NEW status \in {"degraded", "failing"}, ProbeUnhealthy(status) PROVE StepKind
  <2>1. chat'.pc \in {"idle", "select"} /\ chat.pc = "probe" /\ clock' \in Nat
    BY <1>1, <1>3, <1>11, Duration DEF ProbeUnhealthy, Unhealthy, Skips
  <2>2. CountTransient(Provider, clock') \/ UNCHANGED openUntil
    BY <1>11 DEF ProbeUnhealthy, Unhealthy
  <2>3. QED BY <2>1, <2>2, TransientOpens DEF StepKind, InFlight
<1>12. CASE GiveUp
  <2>1. chat'.pc \in {"idle", "select"} /\ chat.pc = "attempt" /\ UNCHANGED openUntil
    BY <1>2, <1>3, <1>12 DEF GiveUp, Obstacle, Outcomes, Skips, agent
  <2>2. QED BY <2>1 DEF StepKind, InFlight
<1>13. CASE Generate
  <2>1. chat'.pc = "generate" /\ chat'.index = chat.index /\ chat.pc = "attempt"
        /\ UNCHANGED openUntil
    BY <1>1, <1>13 DEF Generate, Locals
  <2>2. QED BY <2>1 DEF StepKind
<1>14. CASE Answered \/ Refused
  <2>1. chat'.pc = "idle" /\ chat.pc = "generate" /\ CloseCircuit(Provider)
    BY <1>2, <1>14 DEF Answered, Refused, Outcomes
  <2>2. openUntil' = [openUntil EXCEPT ![Provider] = 0] /\ openUntil \in [Providers -> Nat]
    BY <1>1, <2>1 DEF CloseCircuit, TypeOK
  <2>3. QED BY <1>1, <2>1, <2>2 DEF StepKind, InFlight
<1>15. CASE Exhausted
  <2>1. chat'.pc \in {"idle", "select"} /\ chat.pc = "generate" /\ clock' \in Nat
    BY <1>1, <1>3, <1>15, Duration DEF Exhausted, Skips
  <2>2. CountTransient(Provider, clock')
    BY <1>15 DEF Exhausted
  <2>3. QED BY <2>1, <2>2, TransientOpens DEF StepKind, InFlight
<1>16. ASSUME NEW delay, Retry(delay)
       PROVE  chat'.pc \in {"attempt", "backoff"} /\ chat'.index = chat.index
  BY <1>1, <1>16 DEF Retry, Locals
<1>17. CASE Transient
  <2>1. chat'.pc \in {"idle", "attempt", "backoff"} /\ chat'.index = chat.index
        /\ chat.pc = "generate" /\ UNCHANGED openUntil
    BY <1>2, <1>16, <1>17 DEF Transient, Outcomes, agent
  <2>2. QED BY <2>1 DEF StepKind, InFlight
<1>18. CASE Sleep
  <2>1. chat'.pc \in {"idle", "attempt", "backoff"} /\ chat'.index = chat.index
        /\ chat.pc = "backoff" /\ UNCHANGED openUntil
    BY <1>2, <1>16, <1>18 DEF Sleep, Outcomes, agent
  <2>2. QED BY <2>1 DEF StepKind, InFlight
<1>19. QED
  BY <1>4, <1>5, <1>6, <1>7, <1>8, <1>9, <1>10, <1>11, <1>12, <1>13, <1>14, <1>15, <1>17, <1>18
     DEF Next, Work, Others

\* Time does not run backwards.
LEMMA ClockStep == Books /\ [Next]_vars => clock \in Nat /\ clock' \in Nat /\ clock <= clock'
<1> SUFFICES ASSUME Books, [Next]_vars PROVE clock \in Nat /\ clock' \in Nat /\ clock <= clock'
  OBVIOUS
<1>1. TypeOK /\ clock \in Nat /\ chat.sleeping \in Nat
  BY DEF Books, TypeOK
<1>2. CASE \/ ProbeReady \/ ProbeEscapes \/ Resend \/ Answered \/ Refused \/ Exhausted \/ Transient
           \/ \E status \in {"degraded", "failing"} : ProbeUnhealthy(status)
  BY <1>1, <1>2, Duration
     DEF ProbeReady, ProbeEscapes, Resend, Answered, Refused, Exhausted, Transient, ProbeUnhealthy
<1>3. CASE Sleep \/ Wait
  BY <1>1, <1>3, LimitsType DEF Sleep, Slice, Wait
<1>4. CASE \/ Refuse \/ RecallUnhealthy \/ StartProbe \/ GiveUp \/ Generate
           \/ Chat \/ Request \/ Clear
           \/ (\E i \in DOMAIN Plan : OtherProbe(Plan[i][1])) \/ UNCHANGED vars
  BY <1>1, <1>4 DEF Refuse, RecallUnhealthy, StartProbe, GiveUp, Generate, Chat, Request, Clear,
                    OtherProbe, vars
<1>5. QED BY <1>2, <1>3, <1>4 DEF Next, Work, Others

\* No step opens the circuit of a provider while it is asked.
LEMMA AskedIsNotOpenStep ==
  Books /\ Books' /\ AskedIsNotOpen /\ [Next]_vars => AskedIsNotOpen'
<1> SUFFICES ASSUME Books, Books', AskedIsNotOpen, [Next]_vars,
                    chat'.pc \in {"probe", "attempt", "generate", "backoff"}
             PROVE  openUntil'[Provider'] <= clock'
  BY DEF AskedIsNotOpen
<1>1. StepKind /\ clock \in Nat /\ clock' \in Nat /\ clock <= clock'
  BY KindOfStep, ClockStep
<1>2. Provider \in Providers /\ openUntil \in [Providers -> Nat]
  BY AtHand DEF Books, TypeOK
<1>3. openUntil[Provider] <= clock /\ UNCHANGED openUntil /\ chat'.index = chat.index
  BY <1>1 DEF StepKind, AskedIsNotOpen, InFlight
<1>4. Provider' = Provider
  BY <1>3 DEF Provider, Candidate
<1>5. openUntil[Provider] \in Nat
  BY <1>2
<1>6. QED BY <1>1, <1>3, <1>4, <1>5

\* While a circuit is left alone, all that can happen to it is that its time is over.
LEMMA PhaseAlone ==
  ASSUME NEW p \in Providers, openUntil[p] \in Nat, openUntil'[p] = openUntil[p],
         clock \in Nat, clock' \in Nat, clock <= clock'
  PROVE  Phase(p)' = Phase(p) \/ (Phase(p) = "open" /\ Phase(p)' = "trial")
BY DEF Phase

\* Each provider's circuit takes a step of a circuit breaker, or none.
LEMMA BreakerStep ==
  ASSUME Books, Books', AskedIsNotOpen, [Next]_vars, NEW p \in Providers
  PROVE  [Breaker(p)!BreakerNext]_(Breaker(p)!breaker)
<1>1. StepKind /\ clock \in Nat /\ clock' \in Nat /\ clock <= clock'
  BY KindOfStep, ClockStep
<1>2. /\ Provider \in Providers /\ openUntil \in [Providers -> Nat]
      /\ openUntil[p] \in Nat /\ openUntil'[p] \in Nat
  BY AtHand DEF Books, TypeOK
<1> DEFINE Alone == /\ openUntil'[p] = openUntil[p]
                    /\ Phase(p)' = Phase(p) \/ (Phase(p) = "open" /\ Phase(p)' = "trial")
<1>3. openUntil'[p] = openUntil[p] => Alone
  BY <1>1, <1>2, PhaseAlone
<1>4. chat'.index = chat.index => Provider' = Provider
  BY DEF Provider, Candidate
<1>5. chat' = chat => (Asked(p)' <=> Asked(p))
  BY <1>4 DEF Asked, InFlight
<1>6. Asked(p) => openUntil[p] <= clock
  BY DEF Asked, InFlight, AskedIsNotOpen
<1>7. openUntil[p] <= clock => Phase(p) # "open"
  BY <1>1, <1>2 DEF Phase
<1>8. openUntil'[p] = openUntil[p] /\ openUntil[p] <= clock => Phase(p)' = Phase(p)
  BY <1>3, <1>7
<1> HIDE DEF Alone
<1>9. CASE UNCHANGED <<chat, openUntil>>
  BY <1>3, <1>5, <1>9, BreakerSteps DEF Alone
<1>10. CASE ~ InFlight /\ ~ InFlight' /\ UNCHANGED openUntil
  <2>1. ~ Asked(p) /\ ~ Asked(p)'
    BY <1>10 DEF Asked
  <2>2. QED BY <1>3, <1>10, <2>1, BreakerSteps DEF Alone
<1>11. CASE /\ ~ InFlight /\ InFlight' /\ chat'.index = chat.index /\ UNCHANGED openUntil
            /\ openUntil[Provider] <= clock
  <2>1. CASE p = Provider
    <3>1. ~ Asked(p) /\ Asked(p)'
      BY <1>4, <1>11, <2>1 DEF Asked
    <3>2. Phase(p) # "open" /\ Phase(p)' = Phase(p)
      BY <1>7, <1>8, <1>11, <2>1
    <3>3. QED BY <3>1, <3>2, BreakerSteps
  <2>2. CASE p # Provider
    <3>1. ~ Asked(p) /\ ~ Asked(p)'
      BY <1>4, <1>11, <2>2 DEF Asked
    <3>2. QED BY <1>3, <1>11, <3>1, BreakerSteps DEF Alone
  <2>3. QED BY <2>1, <2>2
<1>12. CASE /\ InFlight /\ ~ InFlight' /\ UNCHANGED openUntil
  <2>1. ~ Asked(p)'
    BY <1>12 DEF Asked
  <2>2. CASE Asked(p)
    <3>1. Phase(p)' = Phase(p)
      BY <1>6, <1>8, <1>12, <2>2
    <3>2. QED BY <2>1, <2>2, <3>1, BreakerSteps
  <2>3. CASE ~ Asked(p)
    BY <1>3, <1>12, <2>1, <2>3, BreakerSteps DEF Alone
  <2>4. QED BY <2>2, <2>3
<1>13. CASE /\ ~ InFlight' /\ openUntil[Provider] <= clock
            /\ \/ InFlight /\ openUntil'[Provider] = 0
               \/ openUntil'[Provider] = openUntil[Provider]
               \/ openUntil'[Provider] > clock'
            /\ \A q \in Providers \ {Provider} : openUntil'[q] = openUntil[q]
  <2>1. ~ Asked(p)'
    BY <1>13 DEF Asked
  <2>2. CASE p # Provider
    <3>1. ~ Asked(p) /\ openUntil'[p] = openUntil[p]
      BY <1>13, <2>2 DEF Asked
    <3>2. QED BY <1>3, <2>1, <3>1, BreakerSteps DEF Alone
  <2>3. CASE p = Provider /\ InFlight /\ openUntil'[Provider] = 0
    <3>1. Asked(p) /\ Phase(p) # "open" /\ Phase(p)' = "closed"
      BY <1>7, <1>13, <2>3 DEF Asked, Phase
    <3>2. QED BY <2>1, <3>1, BreakerSteps
  <2>4. CASE p = Provider /\ openUntil'[Provider] = openUntil[Provider]
    <3>1. Phase(p)' = Phase(p)
      BY <1>8, <1>13, <2>4
    <3>2. (Asked(p) \/ ~ Asked(p)) /\ Asked(p) \in BOOLEAN
      BY DEF Asked, InFlight
    <3>3. QED BY <2>1, <3>1, <3>2, BreakerSteps
  <2>5. CASE p = Provider /\ openUntil'[Provider] > clock'
    <3>1. Phase(p) # "open"
      BY <1>7, <1>13, <2>5
    <3>2. Phase(p)' = "open"
      BY <1>1, <1>2, <2>5 DEF Phase
    <3>3. QED BY <2>1, <3>1, <3>2, BreakerSteps
  <2>6. QED BY <1>13, <2>2, <2>3, <2>4, <2>5
<1>14. /\ InFlight => openUntil[Provider] <= clock
       /\ chat.pc = "attempt" => openUntil[Provider] <= clock
  BY DEF InFlight, AskedIsNotOpen
<1>15. QED
  <2>1. CASE UNCHANGED <<chat, openUntil>>
    BY <1>9, <2>1
  <2>2. CASE ~ InFlight /\ ~ InFlight' /\ UNCHANGED openUntil
    BY <1>10, <2>2
  <2>3. CASE /\ chat.pc = "select" /\ chat'.pc = "probe" /\ chat'.index = chat.index
             /\ openUntil[Provider] <= clock /\ UNCHANGED openUntil
    BY <1>11, <2>3 DEF InFlight
  <2>4. CASE /\ chat.pc = "attempt" /\ chat'.pc = "generate" /\ chat'.index = chat.index
             /\ UNCHANGED openUntil
    BY <1>11, <1>14, <2>4 DEF InFlight
  <2>5. CASE InFlight /\ chat'.pc \in {"idle", "attempt", "backoff"} /\ UNCHANGED openUntil
    BY <1>12, <2>5 DEF InFlight
  <2>6. CASE /\ InFlight /\ chat'.pc = "idle" /\ openUntil'[Provider] = 0
             /\ \A q \in Providers \ {Provider} : openUntil'[q] = openUntil[q]
    BY <1>13, <1>14, <2>6 DEF InFlight
  <2>7. CASE /\ InFlight \/ (chat.pc = "select" /\ openUntil[Provider] <= clock)
             /\ chat'.pc \in {"idle", "select"}
             /\ openUntil'[Provider] = openUntil[Provider] \/ openUntil'[Provider] > clock'
             /\ \A q \in Providers \ {Provider} : openUntil'[q] = openUntil[q]
    BY <1>13, <1>14, <2>7 DEF InFlight
  <2>8. QED BY <1>1, <2>1, <2>2, <2>3, <2>4, <2>5, <2>6, <2>7 DEF StepKind

\* Whatever chats, probes and retries do, and for several candidates of one provider,
\* each provider's circuit is a circuit breaker: a provider whose circuit is open is
\* left alone, and only its answer closes the circuit.
THEOREM BreakerIsImplemented == Spec => ImplementsBreaker
<1>1. Init => AskedIsNotOpen
  BY DEF Init, AskedIsNotOpen
<1>2. Init => \A p \in Providers : Breaker(p)!BreakerInit
  BY DEF Init, Breaker!BreakerInit, Phase, InFlight
<1>3. Books /\ Books' /\ AskedIsNotOpen /\ [Next]_vars => AskedIsNotOpen'
  BY AskedIsNotOpenStep
<1>4. Books /\ Books' /\ AskedIsNotOpen /\ [Next]_vars
        => [\A p \in Providers : [Breaker(p)!BreakerNext]_(Breaker(p)!breaker)]_vars
  BY BreakerStep
<1>5. Spec => []AskedIsNotOpen
  BY <1>1, <1>3, BooksHold, PTL DEF Spec
<1>6. QED BY <1>2, <1>4, <1>5, BooksHold, PTL DEF Spec, ImplementsBreaker

-----------------------------------------------------------------------------
(* Time.                                                                   *)

\* A slice is slept at most, and no more than is left.
LEMMA SliceType ==
  ASSUME TypeOK
  PROVE  Slice \in Nat /\ Slice <= chat.sleeping /\ Slice <= CheckInterval
         /\ chat.sleeping \in Nat
BY LimitsType DEF TypeOK, Slice

\* A delay is a number.
LEMMA DelaysAreNumbers ==
  ASSUME NEW delay \in Delays
  PROVE  delay \in Int
BY DEF Delays

\* Every step keeps what is left of a backoff within the budget.
LEMMA SleepFitsStep == Books /\ SleepFits /\ [Next]_vars => SleepFits'
<1> SUFFICES ASSUME Books, SleepFits, [Next]_vars, chat'.pc = "backoff", ElapsedBudget > 0
             PROVE  clock' - chat'.startedAt + chat'.sleeping < ElapsedBudget
  BY DEF SleepFits
<1>1. TypeOK /\ chat \in Locals /\ clock \in Nat /\ ElapsedBudget \in Nat
      /\ (chat.pc \in {"generate", "backoff"} => chat.attempt > 0)
  BY AtHand, LimitsType DEF Books, TypeOK
<1>2. \A why \in Outcomes : ~ Raise(why)
  BY <1>1, Raised
<1>3. \A why \in Skips : ~ NextOrRaise(why)
  BY <1>1, Passed
<1>4. CASE Transient
  <2>1. PICK delay \in Delays :
          ~ (clock' - chat.startedAt + delay >= ElapsedBudget) /\ Retry(delay)
    BY <1>2, <1>4 DEF Transient, Outcomes
  <2>2. clock' \in Nat /\ chat.startedAt \in Nat /\ delay \in Int
    BY <1>1, <1>4, Duration, DelaysAreNumbers DEF Transient, Locals
  <2>3. 0 < chat.attempt /\ chat.attempt < MaxAttempts
    BY <1>1, <1>4 DEF Transient, Locals
  <2>4. chat'.startedAt = chat.startedAt /\ chat'.sleeping = delay
    BY <1>1, <2>1, <2>2, <2>3, Retried
  <2>5. QED BY <1>1, <2>1, <2>2, <2>4
<1>5. CASE Sleep
  <2>1. Retry(chat.sleeping - Slice) /\ clock' = clock + Slice /\ chat.pc = "backoff"
    BY <1>2, <1>5 DEF Sleep, Outcomes
  <2>2. 0 < chat.attempt /\ chat.attempt < MaxAttempts
    BY <1>1, <2>1 DEF Books, AttemptIsLeft, Locals
  <2>3. Slice \in Nat /\ chat.sleeping \in Nat /\ chat.startedAt \in Nat
    BY <1>1, SliceType DEF Locals
  <2>4. chat'.startedAt = chat.startedAt /\ chat'.sleeping = chat.sleeping - Slice
    BY <1>1, <2>1, <2>2, <2>3, Retried
  <2>5. QED BY <1>1, <2>1, <2>3, <2>4 DEF SleepFits
<1>6. CASE UNCHANGED <<clock, chat>>
  BY <1>6 DEF SleepFits
<1>7. CASE Chat \/ StartProbe \/ ProbeReady \/ Generate \/ Resend \/ Wait
  BY <1>1, <1>7 DEF Chat, StartProbe, ProbeReady, Generate, Resend, Wait, Locals
<1>8. CASE Refuse \/ GiveUp
  BY <1>2, <1>3, <1>8 DEF Refuse, GiveUp, Refusal, Obstacle, Outcomes, Skips
<1>9. CASE \/ RecallUnhealthy \/ Exhausted
           \/ \E status \in {"degraded", "failing"} : ProbeUnhealthy(status)
  BY <1>3, <1>9 DEF RecallUnhealthy, Exhausted, ProbeUnhealthy, Unhealthy, Skips
<1>10. CASE ProbeEscapes \/ Answered \/ Refused
  BY <1>2, <1>10 DEF ProbeEscapes, Answered, Refused, Outcomes
<1>11. CASE Request \/ Clear \/ (\E i \in DOMAIN Plan : OtherProbe(Plan[i][1])) \/ UNCHANGED vars
  BY <1>6, <1>11 DEF Request, Clear, OtherProbe, vars
<1>12. QED
  BY <1>4, <1>5, <1>7, <1>8, <1>9, <1>10, <1>11 DEF Next, Work, Others

\* Only sleep that is over lets an attempt follow a backoff.
LEMMA WakingIsUseful ==
  ASSUME Books, SleepFits, [Next]_vars, chat.pc = "backoff", chat'.pc = "attempt",
         ElapsedBudget > 0
  PROVE  clock' - chat'.startedAt < ElapsedBudget
<1>1. TypeOK /\ chat \in Locals /\ clock \in Nat /\ ElapsedBudget \in Nat
      /\ chat.attempt > 0 /\ chat.attempt < MaxAttempts
  BY AtHand, LimitsType DEF Books, TypeOK, AttemptIsLeft
<1>2. Sleep
  BY <1>1 DEF Next, Work, Others, Refuse, RecallUnhealthy, Eligible, StartProbe, ProbeReady,
    ProbeEscapes, ProbeUnhealthy, GiveUp, Generate, Resend, Answered, Refused, Exhausted,
    Transient, Chat, Request, Clear, Wait, OtherProbe, vars
<1>3. Retry(chat.sleeping - Slice) /\ clock' = clock + Slice
  <2>1. ~ Raise("cancelled")
    BY <1>1, Raised DEF Outcomes
  <2>2. QED BY <1>2, <2>1 DEF Sleep
<1>4. Slice \in Nat /\ chat.sleeping \in Nat /\ Slice <= chat.sleeping /\ chat.startedAt \in Nat
  BY <1>1, SliceType DEF Locals
<1>5. ~ (chat.sleeping - Slice > 0) /\ chat'.startedAt = chat.startedAt
  <2>1. chat.sleeping - Slice \in Int /\ 0 < chat.attempt
    BY <1>1, <1>4 DEF Locals
  <2>2. chat'.startedAt = chat.startedAt
    BY <1>1, <1>3, <2>1, Retried
  <2>3. ~ (chat.sleeping - Slice > 0)
    <3> SUFFICES ASSUME chat.sleeping - Slice > 0 PROVE FALSE
      OBVIOUS
    <3>1. chat' = [chat EXCEPT !.pc = "backoff", !.sleeping = chat.sleeping - Slice]
      BY <1>3 DEF Retry
    <3>2. QED BY <1>1, <3>1 DEF Locals
  <2>4. QED BY <2>2, <2>3
<1>6. QED BY <1>1, <1>3, <1>4, <1>5 DEF SleepFits

\* A backoff is slept only when the time budget lets the retry be made.
THEOREM SleepPays == Spec => SleepIsUseful
<1>1. Init => SleepFits
  BY DEF Init, SleepFits
<1>2. Books /\ SleepFits /\ [Next]_vars => SleepFits'
  BY SleepFitsStep
<1>3. Books /\ SleepFits /\ [Next]_vars =>
        [chat.pc = "backoff" /\ chat'.pc = "attempt" /\ ElapsedBudget > 0
           => clock' - chat'.startedAt < ElapsedBudget]_vars
  BY WakingIsUseful
<1>4. QED BY <1>1, <1>2, <1>3, BooksHold, PTL DEF Spec, SleepIsUseful

\* A request is sent again only once, by the client of OpenAI.
LEMMA ResendIsLearnt ==
  ASSUME TypeOK, NEW t, Called("resend", t)
  PROVE  Service[Provider] = "openai" /\ Candidate \notin learned /\ t <= clock + Latency
<1>1. Candidate[1] = Provider /\ Provider \in Providers /\ clock \in Nat /\ Latency \in Nat
  BY AtHand, LimitsType DEF Provider, TypeOK
<1>2. PICK call \in Generations(Candidate, learned) :
        call.result = "resend" /\ Passing(t, call.requests)
  BY DEF Called
<1> DEFINE answered == {[result |-> Generated(Candidate, r), requests |-> 1] :
                          r \in RepliesTo(Candidate, Carries(Candidate, learned))}
           answered2 == {[result |-> Generated(Candidate, r), requests |-> 2] :
                          r \in RepliesTo(Candidate, Carries(Candidate, learned))}
<1>3. ASSUME NEW r \in RepliesTo(Candidate, Carries(Candidate, learned)),
             Generated(Candidate, r) = "resend"
      PROVE  Service[Provider] = "openai" /\ Candidate \notin learned
  <2>1. r.kind = "temperature" /\ Service[Provider] = "openai"
    BY <1>1, <1>3 DEF Generated
  <2>2. \A a \in Answers[Provider] : a.kind # "temperature"
    BY <1>1, ClientsAssumption
  <2>3. QED BY <1>1, <1>3, <2>1, <2>2 DEF RepliesTo, Carries
<1>4. Service[Provider] = "openai" /\ Candidate \notin learned
  <2>1. CASE Service[Provider] # "ollama"
    <3>1. call \in answered
      BY <1>1, <1>2, <2>1 DEF Generations
    <3>2. QED BY <1>2, <1>3, <3>1
  <2>2. CASE Service[Provider] = "ollama"
    <3>1. call \in answered2 \/ call.result = "transient" \/ call.result = "refused"
      BY <1>1, <1>2, <2>2 DEF Generations
    <3>2. QED BY <1>2, <1>3, <3>1
  <2>3. QED BY <2>1, <2>2
<1>5. call.requests = 1
  BY <1>1, <1>2, <1>4, RequestsOfCalls
<1>6. QED BY <1>1, <1>2, <1>4, <1>5 DEF Passing

\* An answer of a client that sends one request comes in time for one.
LEMMA OneRequest ==
  ASSUME TypeOK, NEW t, NEW result, Called(result, t), Service[Provider] = "openai"
  PROVE  t <= clock + Latency
<1>1. Candidate[1] = Provider /\ clock \in Nat /\ Latency \in Nat
  BY AtHand, LimitsType DEF Provider, TypeOK
<1>2. PICK call \in Generations(Candidate, learned) : Passing(t, call.requests)
  BY DEF Called
<1>3. call.requests = 1
  BY <1>1, <1>2, RequestsOfCalls
<1>4. QED BY <1>1, <1>2, <1>3 DEF Passing

\* What has not been noticed for long, and takes a little longer.
LEMMA LaterBy ==
  ASSUME NEW before \in Nat, NEW after \in Nat, NEW since \in Nat, NEW more \in Nat,
         after <= before + more
  PROVE  /\ before <= since => after - since <= more
         /\ \A d \in Nat : before - since <= d => after - since <= d + more
OBVIOUS

\* What is within one request or two is within two and something more.
LEMMA OrMore ==
  ASSUME NEW x \in Int, NEW l \in Nat, NEW more \in Nat,
         x <= l \/ x <= l + l \/ x <= 2 * l
  PROVE  x <= 2 * l + more
OBVIOUS

\* No step lets an unnoticed cancellation grow older than that.
LEMMA NoticedStep == Books /\ Noticed /\ [Next]_vars => Noticed'
<1> SUFFICES ASSUME Books, Noticed, [Next]_vars, Cancelled' PROVE Noticed'
  BY DEF Noticed
<1>1. TypeOK /\ chat \in Locals /\ clock \in Nat /\ Latency \in Nat /\ chat.startedAt \in Nat
      /\ cancelledAt \in Nat \cup {Never}
  BY AtHand, LimitsType DEF Books, TypeOK, Locals
<1>2. Cancelled /\ UNCHANGED cancelledAt => cancelledAt \in Nat
  BY <1>1 DEF Cancelled
<1>3. ASSUME NEW why \in Outcomes, Raise(why) PROVE Noticed'
  BY <1>1, <1>3, Raised DEF Noticed
<1>4. ASSUME UNCHANGED <<clock, cancelledAt, chat, learned>> PROVE Noticed'
  <2>1. UNCHANGED <<Candidate, Provider>>
    BY <1>4 DEF Candidate, Provider
  <2>2. QED BY <1>4, <2>1 DEF Noticed, Cancelled
<1>5. CASE Request
  <2>1. CASE Cancelled
    BY <1>4, <1>5, <2>1 DEF Request, agent
  <2>2. CASE ~ Cancelled
    <3>1. cancelledAt' = clock /\ UNCHANGED <<clock, chat>>
      BY <1>5, <2>2 DEF Request
    <3>2. QED BY <1>1, <3>1 DEF Noticed
  <2>3. QED BY <2>1, <2>2
<1>6. CASE Clear
  BY <1>6 DEF Clear, Cancelled
<1>7. CASE Chat
  <2>1. chat'.pc = "select" /\ chat'.startedAt = clock /\ clock' = clock
    BY <1>1, <1>7 DEF Chat, Locals
  <2>2. QED BY <1>1, <2>1 DEF Noticed
<1>8. CASE Refuse
  <2>1. Cancelled
    BY <1>8 DEF Refuse, Cancelled
  <2>2. Refusal \in {"misconfigured", "cancelled"}
    BY <2>1 DEF Refusal
  <2>3. QED BY <1>3, <1>8, <2>2 DEF Refuse, Skips, Outcomes
<1>9. CASE RecallUnhealthy \/ StartProbe
  BY <1>9 DEF RecallUnhealthy, StartProbe, Eligible, Refusal, Cancelled
<1>10. CASE GiveUp
  <2>1. Obstacle = "cancelled"
    BY <1>10 DEF GiveUp, Cancelled, Obstacle
  <2>2. QED BY <1>3, <1>10, <2>1 DEF GiveUp, Skips, Outcomes
<1>11. CASE Generate
  BY <1>11 DEF Generate, Obstacle, Cancelled
<1>12. CASE ProbeEscapes \/ Answered \/ Refused
  BY <1>3, <1>12 DEF ProbeEscapes, Answered, Refused, Outcomes
<1>13. ASSUME UNCHANGED cancelledAt, NEW status,
              \/ chat.pc = "probe" /\ Checked(status, clock')
              \/ chat.pc = "generate" /\ Called(status, clock')
       PROVE  clock' - cancelledAt <= 2 * Latency
  <2>1. cancelledAt \in Nat /\ Cancelled
    BY <1>2, <1>13 DEF Cancelled
  <2>2. clock' \in Nat /\ clock' <= clock + 2 * Latency /\ 2 * Latency \in Nat
    BY <1>1, <1>13, Duration
  <2>3. CASE clock <= cancelledAt
    BY <1>1, <2>1, <2>2, <2>3, LaterBy
  <2>4. CASE ~ (clock <= cancelledAt)
    <3>1. chat.pc = "generate" /\ clock - cancelledAt <= Latency /\ Service[Provider] = "openai"
      BY <1>13, <2>1, <2>4 DEF Noticed
    <3>2. clock' <= clock + Latency
      BY <1>1, <1>13, <3>1, OneRequest
    <3>3. clock' - cancelledAt <= Latency + Latency
      BY <1>1, <2>1, <2>2, <3>1, <3>2, LaterBy
    <3>4. QED BY <1>1, <3>3
  <2>5. QED BY <2>3, <2>4
<1>14. CASE ProbeReady
  <2>1. chat'.pc = "attempt" /\ chat.pc = "probe" /\ UNCHANGED cancelledAt
        /\ Checked("ready", clock')
    BY <1>1, <1>14 DEF ProbeReady, Locals
  <2>2. clock' - cancelledAt <= 2 * Latency
    BY <1>13, <2>1
  <2>3. QED BY <2>1, <2>2 DEF Noticed
<1>15. ASSUME NEW status \in {"degraded", "failing"}, ProbeUnhealthy(status) PROVE Noticed'
  <2>1. chat'.pc \in {"idle", "select"}
    BY <1>1, <1>15, Passed DEF ProbeUnhealthy, Unhealthy, Skips
  <2>2. chat.pc = "probe" /\ UNCHANGED cancelledAt /\ Checked(status, clock')
    BY <1>15 DEF ProbeUnhealthy
  <2>3. clock' - cancelledAt <= 2 * Latency
    BY <1>13, <2>1, <2>2
  <2>4. QED BY <2>1, <2>2, <2>3 DEF Noticed
<1>16. CASE Exhausted
  <2>1. chat'.pc \in {"idle", "select"}
    BY <1>1, <1>16, Passed DEF Exhausted, Skips
  <2>2. chat.pc = "generate" /\ UNCHANGED cancelledAt /\ Called("transient", clock')
    BY <1>16 DEF Exhausted
  <2>3. clock' - cancelledAt <= 2 * Latency
    BY <1>13, <2>1, <2>2
  <2>4. QED BY <2>1, <2>2, <2>3 DEF Noticed
<1>17. CASE Transient
  <2>1. chat.pc = "generate" /\ UNCHANGED cancelledAt /\ Called("transient", clock')
    BY <1>17 DEF Transient
  <2>2. chat'.pc \in {"idle", "attempt", "backoff"}
    <3>1. \A delay : Retry(delay) => chat'.pc \in {"attempt", "backoff"}
      BY <1>1 DEF Retry, Locals
    <3>2. Raise("elapsed") => chat'.pc = "idle"
      BY <1>1, Raised DEF Outcomes
    <3>3. QED BY <1>17, <3>1, <3>2 DEF Transient
  <2>3. clock' - cancelledAt <= 2 * Latency
    BY <1>13, <2>1, <2>2
  <2>4. QED BY <2>1, <2>2, <2>3 DEF Noticed
<1>18. CASE Resend
  <2>1. chat.pc = "generate" /\ UNCHANGED <<cancelledAt, chat>> /\ Called("resend", clock')
        /\ learned' = learned \cup {Candidate}
    BY <1>18 DEF Resend
  <2>2. Service[Provider] = "openai" /\ Candidate \notin learned /\ clock' <= clock + Latency
        /\ clock' \in Nat
    BY <1>1, <2>1, ResendIsLearnt, Duration
  <2>3. cancelledAt \in Nat /\ Cancelled
    BY <1>2, <2>1 DEF Cancelled
  <2>4. clock <= cancelledAt
    BY <2>1, <2>2, <2>3 DEF Noticed
  <2>5. clock' - cancelledAt <= Latency
    BY <1>1, <2>2, <2>3, <2>4, LaterBy
  <2>6. UNCHANGED <<Candidate, Provider>>
    BY <2>1 DEF Candidate, Provider
  <2>7. QED BY <2>1, <2>2, <2>5, <2>6 DEF Noticed
<1>19. CASE Sleep
  BY <1>3, <1>19 DEF Sleep, Outcomes, Cancelled
<1>20. CASE Wait
  BY <1>20 DEF Wait, Noticed
<1>21. CASE (\E i \in DOMAIN Plan : OtherProbe(Plan[i][1])) \/ UNCHANGED vars
  BY <1>4, <1>21 DEF OtherProbe, vars, agent
<1>22. QED
  BY <1>5, <1>6, <1>7, <1>8, <1>9, <1>10, <1>11, <1>12, <1>14, <1>15, <1>16, <1>17, <1>18,
     <1>19, <1>20, <1>21 DEF Next, Work, Others

\* The step of a cancelled chat comes in time.
LEMMA CancelledStep ==
  ASSUME Books, Noticed, [Next]_vars, Cancelled, chat.pc # "idle", ~ UNCHANGED vars
  PROVE  \/ clock' - cancelledAt <= 2 * Latency + CheckInterval
         \/ clock' - chat.startedAt <= 2 * Latency + CheckInterval
<1>1. /\ TypeOK /\ chat \in Locals /\ clock \in Nat /\ Latency \in Nat /\ chat.startedAt \in Nat
      /\ cancelledAt \in Nat /\ CheckInterval \in Nat /\ clock' \in Nat
  BY AtHand, LimitsType, ClockStep DEF Books, TypeOK, Locals, Cancelled
<1>2. CASE clock' = clock
  <2>1. \/ clock - cancelledAt <= 2 * Latency \/ clock - chat.startedAt <= 2 * Latency
    BY <1>1 DEF Noticed, Locals, Points
  <2>2. QED BY <1>1, <1>2, <2>1
<1>3. CASE \/ ProbeReady \/ ProbeEscapes \/ Resend \/ Answered \/ Refused \/ Exhausted \/ Transient
           \/ \E status \in {"degraded", "failing"} : ProbeUnhealthy(status)
  <2>1. clock' <= clock + 2 * Latency
    BY <1>1, <1>3, Duration
       DEF ProbeReady, ProbeEscapes, Resend, Answered, Refused, Exhausted, Transient, ProbeUnhealthy
  <2>2. /\ clock' - cancelledAt \in Int /\ CheckInterval \in Nat /\ Latency \in Nat
        /\ 2 * Latency \in Nat
    BY <1>1
  <2>3. CASE clock <= cancelledAt
    <3>1. clock' - cancelledAt <= 2 * Latency
      BY <1>1, <2>1, <2>3, <2>2, LaterBy
    <3>2. QED BY <2>2, <3>1, OrMore
  <2>4. CASE ~ (clock <= cancelledAt)
    <3>1. chat.pc \in {"probe", "generate"}
      BY <1>3 DEF ProbeReady, ProbeEscapes, Resend, Answered, Refused, Exhausted, Transient,
                  ProbeUnhealthy
    <3>2. chat.pc = "generate" /\ clock - cancelledAt <= Latency /\ Service[Provider] = "openai"
      BY <2>4, <3>1 DEF Noticed
    <3>3. clock' <= clock + Latency
      BY <1>1, <1>3, <3>2, OneRequest
         DEF ProbeReady, ProbeEscapes, Resend, Answered, Refused, Exhausted, Transient, ProbeUnhealthy
    <3>4. clock' - cancelledAt <= Latency + Latency
      BY <1>1, <3>2, <3>3, LaterBy
    <3>5. QED BY <2>2, <3>4, OrMore
  <2>5. QED BY <2>3, <2>4
<1>4. CASE Sleep
  <2>1. clock - cancelledAt <= 2 * Latency /\ clock' = clock + Slice
    BY <1>4 DEF Sleep, Noticed
  <2>2. Slice \in Nat /\ Slice <= CheckInterval
    BY <1>1, SliceType
  <2>3. QED BY <1>1, <2>1, <2>2
<1>5. CASE \/ Refuse \/ RecallUnhealthy \/ StartProbe \/ GiveUp \/ Generate
           \/ Chat \/ Request \/ Clear \/ Wait
           \/ (\E i \in DOMAIN Plan : OtherProbe(Plan[i][1]))
  BY <1>2, <1>5 DEF Refuse, RecallUnhealthy, StartProbe, GiveUp, Generate, Chat, Request, Clear,
                    Wait, OtherProbe
<1>6. QED BY <1>3, <1>4, <1>5 DEF Next, Work, Others

\* A request to cancel ends the chat at the latest when the call that was under way
\* has come back, two requests at most, and one slice of the backoff is over.
THEOREM CancelledInTime == Spec => CancelIsPrompt
<1>1. Init => Noticed
  BY DEF Init, Noticed, Cancelled
<1>2. Books /\ Noticed /\ [Next]_vars => Noticed'
  BY NoticedStep
<1>3. Books /\ Noticed /\ [Next]_vars =>
        [Cancelled /\ chat.pc # "idle"
           => \/ clock' - cancelledAt <= 2 * Latency + CheckInterval
              \/ clock' - chat.startedAt <= 2 * Latency + CheckInterval]_vars
  BY CancelledStep
<1>4. QED BY <1>1, <1>2, <1>3, BooksHold, PTL DEF Spec, CancelIsPrompt

-----------------------------------------------------------------------------
(* A service that always answers.                                          *)

\* No client finds fault with the list of models of a reliable service.
LEMMA ReliableChecks ==
  ASSUME TypeOK, NEW c \in Candidates, IsReliable(c[1]), NEW L,
         NEW check \in HealthChecks(c, L)
  PROVE  check.status = "ready"
<1> DEFINE p == c[1]
<1>1. p \in Providers
  BY DEF Candidates
<1>2. \A l \in Listings[p] : l.kind = "model" /\ ~ l.status > 0
  BY <1>1, StatusAssumption DEF IsReliable
<1>3. \A l \in Listings[p] : ~ IsTransient(l) /\ Listed(l) = "ready"
  BY <1>2 DEF IsTransient, Listed
<1>4. \A l \in Listings[p] : Unread(l) = "none" /\ Tagged(l) = "ready"
  BY <1>2, <1>3 DEF Unread, Tagged
<1>5. Service[p] # "openai" => c \notin PickyAbout
  BY DEF IsReliable
<1>6. \A r \in Answers[p] : r.kind = "text"
  BY DEF IsReliable
<1>7. ASSUME ProbedLive(p), NEW r \in RepliesTo(c, Carries(c, L)) PROVE LiveProbe(r) = "ready"
  <2>1. r \in Answers[p]
    BY <1>5, <1>7 DEF RepliesTo, ProbedLive
  <2>2. QED BY <1>6, <2>1 DEF LiveProbe, IsPayload
<1>8. CASE Service[p] = "ollama"
  <2>1. check \in {[status |-> Tagged(l), requests |-> 1] : l \in Listings[p]}
    BY <1>8 DEF HealthChecks
  <2>2. QED BY <1>4, <2>1
<1>9. CASE Service[p] # "ollama" /\ p \notin Listable
  BY <1>9 DEF HealthChecks
<1>10. CASE Service[p] # "ollama" /\ p \in Listable /\ ~ ProbedLive(p)
  <2>1. check \in {[status |-> s, requests |-> 1] : s \in {Listed(l) : l \in Listings[p]}}
    BY <1>10 DEF HealthChecks
  <2>2. QED BY <1>3, <2>1
<1>11. CASE Service[p] # "ollama" /\ p \in Listable /\ ProbedLive(p)
  <2> DEFINE listed == {Listed(l) : l \in Listings[p]}
  <2>1. \/ check \in {[status |-> s, requests |-> 1] : s \in listed \ {"ready"}}
        \/ check \in {[status |-> LiveProbe(r), requests |-> 2] :
                        r \in RepliesTo(c, Carries(c, L))}
    BY <1>11 DEF HealthChecks
  <2>2. listed \ {"ready"} = {}
    BY <1>3
  <2>3. QED BY <1>7, <1>11, <2>1, <2>2
<1>12. QED BY <1>8, <1>9, <1>10, <1>11

\* A reliable service answers, perhaps only the request that is sent again.
LEMMA ReliableCalls ==
  ASSUME TypeOK, NEW c \in Candidates, IsReliable(c[1]), NEW L,
         NEW call \in Generations(c, L)
  PROVE  call.result \in {"response", "resend"}
<1> DEFINE p == c[1]
<1>1. p \in Providers
  BY DEF Candidates
<1>2. \A l \in Listings[p] : l.kind = "model" /\ ~ l.status > 0
  BY <1>1, StatusAssumption DEF IsReliable
<1>3. \A l \in Listings[p] : Unread(l) = "none"
  BY <1>2 DEF Unread, IsTransient
<1>4. ASSUME NEW r \in RepliesTo(c, Carries(c, L))
      PROVE  Generated(c, r) \in {"response", "resend"}
  <2>1. CASE r \in Answers[p]
    <3>1. r.kind = "text"
      BY <2>1 DEF IsReliable
    <3>2. QED BY <3>1 DEF Generated
  <2>2. CASE r \notin Answers[p]
    <3>1. r = Reply("temperature", 400) /\ c \in PickyAbout
      BY <1>4, <2>2 DEF RepliesTo
    <3>2. Service[p] = "openai" /\ r.kind = "temperature"
      BY <3>1 DEF IsReliable, Reply
    <3>3. QED BY <3>2 DEF Generated
  <2>3. QED BY <2>1, <2>2
<1> DEFINE answered(n) == {[result |-> Generated(c, r), requests |-> n] :
                             r \in RepliesTo(c, Carries(c, L))}
<1>5. CASE Service[p] # "ollama"
  <2>1. call \in answered(1)
    BY <1>5 DEF Generations
  <2>2. QED BY <1>4, <2>1
<1>6. CASE Service[p] = "ollama"
  <2> DEFINE unread == {Unread(l) : l \in Listings[p]}
  <2>1. \/ call \in {[result |-> IF u = "transient" THEN u ELSE "refused", requests |-> 1] :
                       u \in unread \ {"none"}}
        \/ call \in answered(2)
    BY <1>6 DEF Generations
  <2>2. unread \ {"none"} = {}
    BY <1>3
  <2>3. QED BY <1>4, <2>1, <2>2
<1>7. QED BY <1>5, <1>6

\* A failure is never that of a dependable provider.
LEMMA FaultyIsNotDependable ==
  ASSUME Books, Untouched,
         \/ RecallUnhealthy \/ ProbeEscapes \/ Exhausted \/ Transient \/ Refused
         \/ \E status \in {"degraded", "failing"} : ProbeUnhealthy(status)
  PROVE  ~ IsDependable(Provider)
<1>1. TypeOK /\ Candidate \in Candidates /\ Candidate[1] = Provider /\ Provider \in Providers
      /\ chat.index \in 1 .. Len(Plan) /\ Provider = Plan[chat.index][1]
  BY AtHand DEF Books, Provider
<1>2. CASE RecallUnhealthy
  <2>1. RuntimeModel(Settings, Provider) \in Models
    BY <1>1, RuntimeModelType
  <2>2. cache[<<Provider, RuntimeModel(Settings, Provider)>>] # NoSnapshot
    BY <1>2 DEF RecallUnhealthy, IsFresh, CacheKey, KeyOf
  <2>3. QED BY <1>1, <2>1, <2>2 DEF Untouched
<1>3. ASSUME NEW status \in {"degraded", "failing", "escaped"}, Checked(status, clock')
      PROVE  ~ IsDependable(Provider)
  <2>1. PICK check \in HealthChecks(Candidate, learned) : check.status = status
    BY <1>3 DEF Checked
  <2>2. ~ IsReliable(Provider)
    BY <1>1, <2>1, ReliableChecks
  <2>3. QED BY <2>2 DEF IsDependable
<1>4. CASE Exhausted \/ Transient \/ Refused
  <2>1. PICK call \in Generations(Candidate, learned) : call.result \in {"transient", "refused"}
    BY <1>4 DEF Exhausted, Transient, Refused, Called
  <2>2. ~ IsReliable(Provider)
    BY <1>1, <2>1, ReliableCalls
  <2>3. QED BY <2>2 DEF IsDependable
<1>5. QED BY <1>2, <1>3, <1>4 DEF ProbeEscapes, ProbeUnhealthy

\* Nothing that a step does is held against a dependable provider.
LEMMA UntouchedStep == Books /\ Untouched /\ [Next]_vars => Untouched'
<1> SUFFICES ASSUME Books, Untouched, [Next]_vars, NEW p \in Providers, IsDependable(p)
             PROVE  openUntil'[p] = 0 /\ \A m \in Models : cache'[<<p, m>>] = NoSnapshot
  BY DEF Untouched
<1>1. /\ TypeOK /\ Provider \in Providers /\ CacheKey[1] = Provider
      /\ openUntil \in [Providers -> Nat] /\ cache \in [Candidates -> Snapshot \cup {NoSnapshot}]
  BY AtHand DEF Books, TypeOK, CacheKey, KeyOf
<1>2. openUntil[p] = 0 /\ \A m \in Models : cache[<<p, m>>] = NoSnapshot
  BY DEF Untouched
<1>3. \A m \in Models : <<p, m>> \in Candidates
  BY DEF Candidates
<1>4. ASSUME NEW k, cache' = cache \/ cache' = [cache EXCEPT ![k] = NoSnapshot]
      PROVE  \A m \in Models : cache'[<<p, m>>] = NoSnapshot
  BY <1>1, <1>2, <1>3, <1>4
<1>5. ASSUME NEW k, NEW snapshot, k[1] # p, cache' = [cache EXCEPT ![k] = snapshot]
      PROVE  \A m \in Models : cache'[<<p, m>>] = NoSnapshot
  <2> TAKE m \in Models
  <2>1. k # <<p, m>>
    BY <1>5
  <2>2. QED BY <1>1, <1>2, <1>3, <1>5, <2>1
<1>6. ASSUME Provider # p, CountTransient(Provider, clock) \/ CountTransient(Provider, clock')
               \/ UNCHANGED openUntil, clock \in Nat, clock' \in Nat
      PROVE  openUntil'[p] = 0
  BY <1>2, <1>6, TransientOpens
<1>7. CASE RecallUnhealthy \/ Exhausted
  <2>1. Provider # p
    BY <1>7, FaultyIsNotDependable
  <2>2. clock \in Nat /\ clock' \in Nat
    BY ClockStep
  <2>3. openUntil'[p] = 0
    BY <1>6, <1>7, <2>1, <2>2 DEF RecallUnhealthy, Unhealthy, Exhausted
  <2>4. cache' = cache
    BY <1>7 DEF RecallUnhealthy, Exhausted
  <2>5. QED BY <1>4, <2>3, <2>4
<1>8. ASSUME NEW status \in {"degraded", "failing"}, ProbeUnhealthy(status)
      PROVE  openUntil'[p] = 0 /\ \A m \in Models : cache'[<<p, m>>] = NoSnapshot
  <2>1. Provider # p
    BY <1>8, FaultyIsNotDependable
  <2>2. clock \in Nat /\ clock' \in Nat
    BY ClockStep
  <2>3. openUntil'[p] = 0
    BY <1>6, <1>8, <2>1, <2>2 DEF ProbeUnhealthy, Unhealthy
  <2>4. PICK snapshot : cache' = [cache EXCEPT ![CacheKey] = snapshot]
    BY <1>8 DEF ProbeUnhealthy
  <2>5. QED BY <1>1, <1>5, <2>1, <2>3, <2>4
<1>9. CASE Answered \/ Refused
  <2>1. openUntil' = [openUntil EXCEPT ![Provider] = 0] /\ cache' = cache
    BY <1>9 DEF Answered, Refused, CloseCircuit
  <2>2. QED BY <1>1, <1>2, <1>4, <2>1
<1>10. CASE StartProbe
  <2>1. cache' = cache \/ cache' = [cache EXCEPT ![CacheKey] = NoSnapshot]
    BY <1>10 DEF StartProbe
  <2>2. UNCHANGED openUntil
    BY <1>10 DEF StartProbe, agent
  <2>3. QED BY <1>2, <1>4, <2>1, <2>2
<1>11. CASE ProbeReady
  BY <1>2, <1>4, <1>11 DEF ProbeReady
<1>12. ASSUME NEW i \in DOMAIN Plan, OtherProbe(Plan[i][1])
       PROVE  openUntil'[p] = 0 /\ \A m \in Models : cache'[<<p, m>>] = NoSnapshot
  <2> DEFINE q == Plan[i][1]
             c == KeyOf(q)
  <2>1. i \in 1 .. Len(Plan) /\ q \in Providers
    BY PlanType
  <2>2. c \in Candidates /\ c[1] = q
    BY <2>1, RuntimeModelType DEF KeyOf, Candidates
  <2>3. UNCHANGED openUntil
    BY <1>12 DEF OtherProbe, agent
  <2>4. PICK check \in HealthChecks(c, {}) :
          cache' = [cache EXCEPT ![c] =
            IF check.status = "ready" THEN NoSnapshot
            ELSE [model |-> c[2], at |-> clock, retryable |-> check.status = "degraded"]]
    BY <1>12 DEF OtherProbe
  <2> HIDE DEF c, q
  <2>5. CASE q # p
    BY <1>2, <1>5, <2>2, <2>3, <2>4, <2>5
  <2>6. CASE q = p
    <3>1. check.status = "ready"
      BY <1>1, <2>2, <2>6, ReliableChecks DEF IsDependable
    <3>2. QED BY <1>2, <1>4, <2>3, <2>4, <3>1
  <2>7. QED BY <2>5, <2>6
<1>13. CASE \/ Refuse \/ ProbeEscapes \/ GiveUp \/ Generate \/ Resend \/ Transient \/ Sleep
            \/ Chat \/ Request \/ Clear \/ Wait \/ UNCHANGED vars
  <2>1. UNCHANGED <<cache, openUntil>>
    BY <1>13 DEF Refuse, ProbeEscapes, GiveUp, Generate, Resend, Transient, Sleep, Chat,
                 Request, Clear, Wait, vars, agent
  <2>2. QED BY <1>2, <1>4, <2>1
<1>14. QED
  BY <1>7, <1>8, <1>9, <1>10, <1>11, <1>12, <1>13 DEF Next, Work, Others

\* A candidate that is not dependable may be passed over.
LEMMA PassedOver ==
  ASSUME Books, NonePassed, ~ IsDependable(Provider), chat.pc # "idle",
         NEW why \in Skips, NextOrRaise(why)
  PROVE  NonePassed'
<1>1. /\ TypeOK /\ chat.index \in 1 .. Len(Plan) /\ Len(Plan) \in Nat
      /\ Provider = Plan[chat.index][1] /\ chat.outcome = "none"
  BY AtHand, PlanType DEF Books, NonePassed
<1>2. ASSUME NEW i \in DOMAIN Plan, IsDependable(Plan[i][1])
      PROVE  i \in 1 .. Len(Plan) /\ chat.index < i
  <2>1. i \in 1 .. Len(Plan) /\ i # chat.index
    BY <1>1, <1>2, PlanType
  <2>2. chat.index <= i
    BY <1>2 DEF NonePassed, ReliableAnswers
  <2>3. QED BY <1>1, <2>1, <2>2
<1>3. CASE IsLast /\ chat'.pc = "idle"
  <2>1. \A i \in DOMAIN Plan : ~ IsDependable(Plan[i][1])
    BY <1>1, <1>2, <1>3 DEF IsLast
  <2>2. QED BY <1>3, <2>1 DEF NonePassed, ReliableAnswers
<1>4. CASE chat'.index = chat.index + 1 /\ chat'.outcome = chat.outcome
  <2>1. \A i \in DOMAIN Plan : IsDependable(Plan[i][1]) => chat'.index <= i
    BY <1>1, <1>2, <1>4
  <2>2. chat'.outcome = "none" /\ "none" \notin Skips
    BY <1>1, <1>4 DEF Skips
  <2>3. QED BY <2>1, <2>2 DEF NonePassed, ReliableAnswers
<1>5. QED BY <1>1, <1>3, <1>4, Passed

\* A chat may end for any reason that is not a candidate's, and at a candidate that
\* is not dependable also for one of its own.
LEMMA Ended ==
  ASSUME Books, NonePassed, NEW why \in Outcomes \ Skips, Raise(why),
         IsDependable(Provider) =>
           \/ why \in {"response", "cancelled"}
           \/ why = "call_budget" /\ AgentBudgetSpent'
           \/ why = "elapsed" /\ ElapsedBudgetSpent'
  PROVE  NonePassed'
<1>1. /\ chat'.pc = "idle" /\ chat'.index = chat.index /\ chat'.outcome = why
      /\ Provider = Plan[chat.index][1]
  BY AtHand, Raised DEF Books
<1>2. \A i \in DOMAIN Plan : IsDependable(Plan[i][1]) => chat'.index <= i
  BY <1>1 DEF NonePassed, ReliableAnswers
<1>3. QED BY <1>1, <1>2 DEF NonePassed, ReliableAnswers

\* A chat that goes on at the same candidate passes nobody over.
LEMMA GoesOn ==
  ASSUME NonePassed, chat.pc # "idle", chat'.index = chat.index, chat'.outcome = chat.outcome
  PROVE  NonePassed'
<1>1. chat'.outcome = "none" /\ "none" \notin Skips
  BY DEF NonePassed, Skips
<1>2. QED BY <1>1 DEF NonePassed, ReliableAnswers

\* What is used up stays used up.
LEMMA SpentStays ==
  ASSUME Books, Next, UNCHANGED chat
  PROVE  (AgentBudgetSpent => AgentBudgetSpent') /\ (ElapsedBudgetSpent => ElapsedBudgetSpent')
<1>1. /\ calls \in Nat /\ clock \in Nat /\ clock' \in Nat /\ clock <= clock'
      /\ chat.startedAt \in Nat
  BY ClockStep DEF Books, TypeOK
<1>2. calls' = calls \/ calls' = calls + 1
  BY DEF Next, Work, Others, Refuse, RecallUnhealthy, Unhealthy, StartProbe, ProbeReady,
         ProbeEscapes, ProbeUnhealthy, GiveUp, Generate, Resend, Answered, Refused, Exhausted,
         Transient, Sleep, Chat, Request, Clear, Wait, OtherProbe, agent
<1>3. QED BY <1>1, <1>2, LimitsType DEF AgentBudgetSpent, ElapsedBudgetSpent

\* No step passes a dependable provider over.
LEMMA NonePassedStep == Books /\ Untouched /\ NonePassed /\ [Next]_vars => NonePassed'
<1> SUFFICES ASSUME Books, Untouched, NonePassed, [Next]_vars PROVE NonePassed'
  OBVIOUS
<1>1. /\ TypeOK /\ chat \in Locals /\ Provider \in Providers /\ clock \in Nat
      /\ chat.index \in 1 .. Len(Plan) /\ Provider = Plan[chat.index][1]
      /\ openUntil \in [Providers -> Nat]
  BY AtHand DEF Books, TypeOK
<1>2. CircuitOpen(Provider, clock) => ~ IsDependable(Provider)
  BY <1>1 DEF CircuitOpen, Untouched
<1>3. ProviderBudgetSpent => ~ IsDependable(Provider)
  BY DEF ProviderBudgetSpent, IsDependable
<1>4. Provider \in Unusable => ~ IsDependable(Provider)
  BY DEF Unusable, IsDependable
<1>5. ASSUME NEW delay \in Int, Retry(delay), chat.pc \in {"generate", "backoff"} PROVE NonePassed'
  <2>1. chat'.index = chat.index /\ chat'.outcome = chat.outcome
    BY <1>1, <1>5 DEF Retry, Locals
  <2>2. QED BY <1>5, <2>1, GoesOn
<1>6. CASE Refuse
  <2>1. CASE Refusal \in {"misconfigured", "cancelled"}
    BY <1>4, <1>6, <2>1, Ended DEF Refuse, Refusal, Skips, Outcomes
  <2>2. CASE Refusal \in {"open_circuit", "provider_budget"}
    <3>1. ~ IsDependable(Provider)
      BY <1>2, <1>3, <2>2 DEF Refusal
    <3>2. Refusal \in Skips /\ NextOrRaise(Refusal) /\ chat.pc # "idle"
      BY <1>6, <2>2 DEF Refuse, Skips
    <3>3. QED BY <3>1, <3>2, PassedOver
  <2>3. QED BY <1>6, <2>1, <2>2 DEF Refuse, Refusal
<1>7. CASE GiveUp
  <2>1. UNCHANGED <<clock, calls>>
    BY <1>7 DEF GiveUp, agent
  <2>2. CASE Obstacle \in {"cancelled", "elapsed", "call_budget"}
    <3>1. Raise(Obstacle) /\ Obstacle \in Outcomes \ Skips
      BY <1>7, <2>2 DEF GiveUp, Skips, Outcomes
    <3>2. chat'.startedAt = chat.startedAt
      BY <1>1, <3>1, Raised
    <3>3. /\ Obstacle = "elapsed" => ElapsedBudgetSpent'
          /\ Obstacle = "call_budget" => AgentBudgetSpent'
      BY <2>1, <3>2 DEF Obstacle, ElapsedBudgetSpent, AgentBudgetSpent
    <3>4. QED BY <2>2, <3>1, <3>3, Ended
  <2>3. CASE Obstacle = "provider_budget"
    <3>1. ~ IsDependable(Provider)
      BY <1>3, <2>3 DEF Obstacle
    <3>2. Obstacle \in Skips /\ NextOrRaise(Obstacle) /\ chat.pc # "idle"
      BY <1>7, <2>3 DEF GiveUp, Skips
    <3>3. QED BY <3>1, <3>2, PassedOver
  <2>4. QED BY <1>7, <2>2, <2>3 DEF GiveUp, Obstacle
<1>8. CASE RecallUnhealthy
  <2>1. ~ IsDependable(Provider)
    BY <1>8, FaultyIsNotDependable
  <2>2. NextOrRaise("unhealthy") /\ chat.pc # "idle"
    BY <1>8 DEF RecallUnhealthy, Unhealthy, Eligible
  <2>3. QED BY <2>1, <2>2, PassedOver DEF Skips
<1>9. ASSUME NEW status \in {"degraded", "failing"}, ProbeUnhealthy(status) PROVE NonePassed'
  <2>1. ~ IsDependable(Provider)
    BY <1>9, FaultyIsNotDependable
  <2>2. NextOrRaise("unhealthy") /\ chat.pc # "idle"
    BY <1>9 DEF ProbeUnhealthy, Unhealthy
  <2>3. QED BY <2>1, <2>2, PassedOver DEF Skips
<1>10. CASE Exhausted
  <2>1. ~ IsDependable(Provider)
    BY <1>10, FaultyIsNotDependable
  <2>2. NextOrRaise("transient") /\ chat.pc # "idle"
    BY <1>10 DEF Exhausted
  <2>3. QED BY <2>1, <2>2, PassedOver DEF Skips
<1>11. CASE Refused \/ ProbeEscapes
  <2>1. ~ IsDependable(Provider)
    BY <1>11, FaultyIsNotDependable
  <2>2. QED BY <1>11, <2>1, Ended DEF Refused, ProbeEscapes, Skips, Outcomes
<1>12. CASE Answered
  BY <1>12, Ended DEF Answered, Skips, Outcomes
<1>13. CASE Transient
  <2>1. ~ IsDependable(Provider)
    BY <1>13, FaultyIsNotDependable
  <2>2. CASE Raise("elapsed")
    BY <2>1, <2>2, Ended DEF Skips, Outcomes
  <2>3. QED BY <1>5, <1>13, <2>2, DelaysAreNumbers DEF Transient
<1>14. CASE Sleep
  <2>1. chat.sleeping - Slice \in Int
    BY <1>1, SliceType
  <2>2. CASE Raise("cancelled")
    BY <2>2, Ended DEF Skips, Outcomes
  <2>3. QED BY <1>5, <1>14, <2>1, <2>2 DEF Sleep
<1>15. CASE StartProbe \/ ProbeReady \/ Generate
  <2>1. chat'.index = chat.index /\ chat'.outcome = chat.outcome /\ chat.pc # "idle"
    BY <1>1, <1>15 DEF StartProbe, ProbeReady, Generate, Eligible, Locals
  <2>2. QED BY <2>1, GoesOn
<1>16. CASE Chat
  <2>1. chat'.index = 1 /\ chat'.outcome = "none" /\ "none" \notin Skips
    BY <1>1, <1>16 DEF Chat, Locals, Skips
  <2>2. \A i \in DOMAIN Plan : chat'.index <= i
    BY <2>1, PlanType
  <2>3. QED BY <2>1, <2>2 DEF NonePassed, ReliableAnswers
<1>17. CASE \/ Resend \/ Request \/ Clear \/ Wait
            \/ (\E i \in DOMAIN Plan : OtherProbe(Plan[i][1]))
  <2>1. UNCHANGED chat /\ Next
    BY <1>17 DEF Resend, Request, Clear, Wait, OtherProbe, Next, Work, Others
  <2>2. QED BY <2>1, SpentStays DEF NonePassed, ReliableAnswers
<1>18. CASE UNCHANGED vars
  BY <1>18 DEF vars, agent, NonePassed, ReliableAnswers, AgentBudgetSpent, ElapsedBudgetSpent
<1>19. QED
  BY <1>6, <1>7, <1>8, <1>9, <1>10, <1>11, <1>12, <1>13, <1>14, <1>15, <1>16, <1>17, <1>18
     DEF Next, Work, Others

\* For every plan, a chat that comes to a candidate that can be depended on ends
\* there, with its answer unless the chat is cancelled or the agent's own budgets are
\* used up; and it never ends before for a failure that a fallback is there for.
THEOREM DependableAnswers == Spec => []ReliableAnswers
<1>1. Init => Untouched /\ NonePassed
  <2>1. \A p \in Providers, m \in Models : <<p, m>> \in Candidates
    BY DEF Candidates
  <2>2. \A i \in DOMAIN Plan : 1 <= i
    BY PlanType
  <2>3. QED BY <2>1, <2>2 DEF Init, Untouched, NonePassed, ReliableAnswers, Skips
<1>2. Books /\ Untouched /\ [Next]_vars => Untouched'
  BY UntouchedStep
<1>3. Books /\ Untouched /\ NonePassed /\ [Next]_vars => NonePassed'
  BY NonePassedStep
<1>4. NonePassed => ReliableAnswers
  BY DEF NonePassed
<1>5. QED BY <1>1, <1>2, <1>3, <1>4, BooksHold, PTL DEF Spec
=============================================================================
