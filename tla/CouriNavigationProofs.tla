----------------------- MODULE CouriNavigationProofs -----------------------
(***************************************************************************)
(* What holds of the shopping screens for every library.                   *)
(***************************************************************************)
EXTENDS CouriNavigation, MenuDetailProofs, SequenceTheorems

-----------------------------------------------------------------------------
(***************************************************************************)
(* Stacks of screens.                                                      *)
(***************************************************************************)
LEMMA RankFacts ==
  /\ Rank \in [Screen -> Nat]
  /\ Rank["Home"] = 1 /\ Rank["RestaurantList"] = 2
  /\ Rank["RestaurantDetail"] = 3 /\ Rank["MenuDetail"] = 4
  /\ Rank["Transfer"] = 5
  BY DEF Rank, Screen

\* The last screen of an ascending stack has the highest rank on it.
LEMMA TopHighest ==
  ASSUME NEW st \in Seq(Screen), st # <<>>, Ascending(st)
  PROVE  /\ Len(st) \in Nat \ {0} /\ st[Len(st)] \in Screen
         /\ \A k \in DOMAIN st :
              /\ st[k] \in Screen
              /\ Rank[st[k]] <= Rank[st[Len(st)]]
              /\ k # Len(st) => Rank[st[k]] < Rank[st[Len(st)]]
  <1>1. Len(st) \in Nat \ {0} /\ DOMAIN st = 1..Len(st) /\ \A k \in DOMAIN st : st[k] \in Screen
    OBVIOUS
  <1>2. Len(st) \in DOMAIN st /\ \A k \in DOMAIN st : k # Len(st) => k < Len(st)
    BY <1>1
  <1>3. \A k \in DOMAIN st : k # Len(st) => Rank[st[k]] < Rank[st[Len(st)]]
    BY <1>2 DEF Ascending
  <1>4. \A k \in DOMAIN st : Rank[st[k]] \in Nat
    BY <1>1, RankFacts
  <1>5. \A k \in DOMAIN st : Rank[st[k]] <= Rank[st[Len(st)]]
    <2> TAKE k \in DOMAIN st
    <2>1. CASE k = Len(st)
      BY <1>4, <2>1
    <2>2. CASE k # Len(st)
      BY <1>2, <1>3, <1>4, <2>2
    <2> QED
      BY <2>1, <2>2
  <1> QED
    BY <1>1, <1>2, <1>3, <1>5

\* nx is an ascending stack of exactly these screens, Home at its root.
IsStack(nx, top, screens) ==
  /\ nx \in Seq(Screen) /\ nx # <<>> /\ Ascending(nx)
  /\ nx[1] = "Home" /\ nx[Len(nx)] = top
  /\ \A t : (\E k \in DOMAIN nx : nx[k] = t) <=> t \in screens

Screens(st) == {st[k] : k \in DOMAIN st}

\* Pushing a screen of a higher rank than the top adds that screen only.
LEMMA Pushing ==
  ASSUME NEW st \in Seq(Screen), st # <<>>, Ascending(st), st[1] = "Home",
         NEW s \in Screen, Rank[st[Len(st)]] < Rank[s],
         NEW nx, nx = Append(st, s)
  PROVE  IsStack(nx, s, Screens(st) \cup {s})
  <1>1. /\ nx \in Seq(Screen) /\ nx # <<>> /\ Len(nx) = Len(st) + 1
        /\ Len(st) \in Nat \ {0} /\ nx[Len(nx)] = s
        /\ \A k \in 1..Len(st) : nx[k] = st[k]
        /\ DOMAIN st = 1..Len(st) /\ DOMAIN nx = 1..(Len(st) + 1)
    OBVIOUS
  <1>2. Ascending(nx)
    <2> SUFFICES ASSUME NEW j \in DOMAIN nx, NEW k \in DOMAIN nx, j < k
                 PROVE  Rank[nx[j]] < Rank[nx[k]]
      BY DEF Ascending
    <2>1. CASE k \in 1..Len(st)
      BY <1>1, <2>1 DEF Ascending
    <2>2. CASE k = Len(st) + 1
      <3>1. j \in DOMAIN st /\ nx[j] = st[j] /\ nx[k] = s
        BY <1>1, <2>2
      <3>2. Rank[st[j]] <= Rank[st[Len(st)]] /\ st[j] \in Screen
            /\ st[Len(st)] \in Screen
        BY <3>1, TopHighest
      <3> QED
        BY <3>1, <3>2, RankFacts
    <2> QED
      BY <1>1, <2>1, <2>2
  <1>3. ASSUME NEW t
        PROVE  (\E k \in DOMAIN nx : nx[k] = t)
                 <=> (t = s \/ \E k \in DOMAIN st : st[k] = t)
    BY <1>1
  <1>4. nx[1] = "Home"
    <2>1. 1 \in 1..Len(st)
      BY <1>1
    <2> QED
      BY <1>1, <2>1
  <1>5. \A t : (\E k \in DOMAIN nx : nx[k] = t) <=> t \in Screens(st) \cup {s}
    <2>1. \A t : t \in Screens(st) <=> \E k \in DOMAIN st : st[k] = t
      BY DEF Screens
    <2> HIDE DEF Screens
    <2>2. \A t : t \in Screens(st) \cup {s} <=> (t = s \/ t \in Screens(st))
      OBVIOUS
    <2> QED
      BY <2>1, <2>2, <1>3, Zenon
  <1> QED
    BY <1>1, <1>2, <1>4, <1>5, Zenon DEF IsStack

\* Popping removes the top screen only.
LEMMA Popping ==
  ASSUME NEW st \in Seq(Screen), st # <<>>, Ascending(st),
         st[1] = "Home", st[Len(st)] # "Home",
         NEW nx, nx = SubSeq(st, 1, Len(st) - 1)
  PROVE  IsStack(nx, st[Len(st) - 1], Screens(st) \ {st[Len(st)]})
  <1>1. Len(st) \in Nat /\ Len(st) > 1
    BY TopHighest
  <1>2. /\ nx \in Seq(Screen) /\ nx # <<>> /\ Len(nx) = Len(st) - 1
        /\ DOMAIN st = 1..Len(st) /\ DOMAIN nx = 1..(Len(st) - 1)
        /\ \A k \in 1..(Len(st) - 1) : nx[k] = st[k]
    <2> DEFINE m == Len(st) - 1
    <2>1. m \in Nat /\ m >= 1 /\ m <= Len(st) /\ nx = SubSeq(st, 1, m)
      BY <1>1
    <2> HIDE DEF m
    <2>2. \A k \in 1..m : st[k] \in Screen
      BY <2>1
    <2>3. nx \in Seq(Screen) /\ Len(nx) = m
          /\ \A k \in 1..m : nx[k] = st[k]
      BY <2>1, <2>2, SubSeqProperties
    <2>4. nx # <<>> /\ DOMAIN nx = 1..m /\ DOMAIN st = 1..Len(st)
      BY <2>1, <2>3
    <2> QED
      BY <2>3, <2>4 DEF m
  <1>3. Ascending(nx)
    BY <1>1, <1>2 DEF Ascending
  <1>4. ASSUME NEW t
        PROVE  (\E k \in DOMAIN nx : nx[k] = t)
                 <=> (t # st[Len(st)] /\ \E k \in DOMAIN st : st[k] = t)
    <2>1. \A k \in 1..(Len(st) - 1) : st[k] # st[Len(st)]
      <3> SUFFICES ASSUME NEW k \in 1..(Len(st) - 1)
                   PROVE  st[k] # st[Len(st)]
        OBVIOUS
      <3>1. Rank[st[k]] < Rank[st[Len(st)]]
        BY <1>1, TopHighest
      <3>2. st[k] \in Screen
        BY <1>1, <1>2
      <3>3. Rank[st[k]] \in Nat
        BY <3>2, RankFacts
      <3>4. ASSUME st[k] = st[Len(st)] PROVE FALSE
        <4>1. Rank[st[k]] < Rank[st[k]]
          BY <3>1, <3>4, Zenon
        <4> QED
          BY <3>3, <4>1
      <3> QED
        BY <3>4
    <2>2. ASSUME NEW k \in DOMAIN nx, nx[k] = t
          PROVE  t # st[Len(st)] /\ \E j \in DOMAIN st : st[j] = t
      <3>1. k \in 1..(Len(st) - 1) /\ k \in DOMAIN st /\ st[k] = t
        BY <1>1, <1>2, <2>2
      <3> QED
        BY <2>1, <3>1
    <2>3. ASSUME NEW k \in DOMAIN st, st[k] = t, t # st[Len(st)]
          PROVE  \E j \in DOMAIN nx : nx[j] = t
      <3>1. k \in 1..(Len(st) - 1)
        BY <1>1, <1>2, <2>3
      <3> QED
        BY <1>2, <2>3, <3>1
    <2> QED
      BY <2>2, <2>3
  <1>5. nx[1] = "Home" /\ nx[Len(nx)] = st[Len(st) - 1]
    BY <1>1, <1>2
  <1>6. \A t : (\E k \in DOMAIN nx : nx[k] = t)
                <=> t \in Screens(st) \ {st[Len(st)]}
    <2>1. \A t : t \in Screens(st) <=> \E k \in DOMAIN st : st[k] = t
      BY DEF Screens
    <2> QED
      BY <1>4, <2>1
  <1> QED
    BY <1>2, <1>3, <1>5, <1>6, Zenon DEF IsStack

-----------------------------------------------------------------------------
(***************************************************************************)
(* The inductive invariant.  What the runs check is strengthened by three  *)
(* facts: an order screen is consistent (MenuDetail), nothing can open the *)
(* side menu over the transfer screen, and the scrim has a recognizer from *)
(* the moment the menu starts to appear.                                   *)
(***************************************************************************)
NavInv ==
  /\ AppTypeOK /\ NoTrap /\ StackOrdered /\ TrailMatches
  /\ On("MenuDetail") => Consistent(order) /\ TotalNotStale(order)
  /\ On("Transfer") => sidebar = "hidden"
  /\ sidebar # "hidden" => recognizers > 0

\* The screens on the stack are ranked at most as high as the top one.
LEMMA OnRanks ==
  ASSUME NavInv
  PROVE  /\ stack \in Seq(Screen) /\ stack # <<>> /\ Ascending(stack)
         /\ Top \in Screen /\ On(Top) /\ On("Home") /\ stack[1] = "Home"
         /\ \A s : On(s) => s \in Screen /\ Rank[s] <= Rank[Top]
  <1>1. stack \in Seq(Screen) /\ stack # <<>> /\ Ascending(stack) /\ stack[1] = "Home"
    BY DEF NavInv, AppTypeOK, StackOrdered
  <1>2. /\ Len(stack) \in DOMAIN stack /\ 1 \in DOMAIN stack
    BY <1>1
  <1> QED
    BY <1>1, <1>2, TopHighest DEF Top, On

LEMMA PushOn ==
  ASSUME NavInv, NEW s \in Screen, Rank[Top] < Rank[s], Push(s)
  PROVE  /\ stack' \in Seq(Screen) /\ stack' # <<>>
         /\ Ascending(stack') /\ stack'[1] = "Home" /\ Top' = s
         /\ \A t : On(t)' <=> (t = s \/ On(t))
  <1>1. /\ stack \in Seq(Screen) /\ stack # <<>> /\ Ascending(stack)
        /\ stack[1] = "Home" /\ Rank[stack[Len(stack)]] < Rank[s]
        /\ stack' = Append(stack, s)
    BY OnRanks DEF Top, Push
  <1>2. IsStack(stack', s, Screens(stack) \cup {s})
    BY <1>1, Pushing
  <1>3. /\ stack' \in Seq(Screen) /\ stack' # <<>> /\ Ascending(stack')
        /\ stack'[1] = "Home" /\ stack'[Len(stack')] = s
        /\ \A t : (\E k \in DOMAIN stack' : stack'[k] = t) <=> t \in Screens(stack) \cup {s}
    BY <1>2, Zenon DEF IsStack
  <1>4. \A t : t \in Screens(stack) <=> \E k \in DOMAIN stack : stack[k] = t
    BY DEF Screens
  <1>5. \A t : (\E k \in DOMAIN stack' : stack'[k] = t)
                <=> t = s \/ \E k \in DOMAIN stack : stack[k] = t
    BY <1>3, <1>4
  <1> QED
    BY <1>3, <1>5 DEF Top, On

LEMMA PopOn ==
  ASSUME NavInv, Top # "Home", Pop
  PROVE  /\ stack' \in Seq(Screen) /\ stack' # <<>>
         /\ Ascending(stack') /\ stack'[1] = "Home"
         /\ Top' = stack[Len(stack) - 1]
         /\ \A t : On(t)' <=> (t # Top /\ On(t))
  <1>1. /\ stack \in Seq(Screen) /\ stack # <<>> /\ Ascending(stack)
        /\ stack[1] = "Home" /\ stack[Len(stack)] # "Home"
        /\ stack' = SubSeq(stack, 1, Len(stack) - 1)
    BY OnRanks DEF Top, Pop
  <1>2. IsStack(stack', stack[Len(stack) - 1], Screens(stack) \ {Top})
    BY <1>1, Popping DEF Top
  <1>3. /\ stack' \in Seq(Screen) /\ stack' # <<>> /\ Ascending(stack')
        /\ stack'[1] = "Home" /\ stack'[Len(stack')] = stack[Len(stack) - 1]
        /\ \A t : (\E k \in DOMAIN stack' : stack'[k] = t) <=> t \in Screens(stack) \ {Top}
    BY <1>2, Zenon DEF IsStack
  <1>4. \A t : t \in Screens(stack) <=> \E k \in DOMAIN stack : stack[k] = t
    BY DEF Screens
  <1>5. \A t : (\E k \in DOMAIN stack' : stack'[k] = t)
                <=> t # Top /\ \E k \in DOMAIN stack : stack[k] = t
    BY <1>3, <1>4
  <1> QED
    BY <1>3, <1>5 DEF Top, On

-----------------------------------------------------------------------------
\* What a screen pushed by a tap on a row needs, and what it gives.
LEMMA ShownDetail ==
  ASSUME NavInv, NEW row \in DOMAIN Restaurants, ShowDetail(row)
  PROVE  /\ detail' = LoadedDetail(row) /\ detail' \in Detail
         /\ detail'.restaurant = Restaurants[row]
         /\ Push("RestaurantDetail") /\ trapped' = trapped /\ row # NoRow
  <1>1. row # NoRow
    BY LibraryAssumption DEF NoRow
  <1>2. Restaurants[row] \in Restaurant
    BY LibraryAssumption
  <1> QED
    BY <1>1, <1>2 DEF ShowDetail, LoadedDetail, Detail, NoRow

LEMMA TapHomeRowKeeps ==
  ASSUME NavInv, NEW r \in DOMAIN Restaurants, TapHomeRow(r)
  PROVE  NavInv'
  <1>1. /\ Top = "Home" /\ homeRow' = r /\ ShowDetail(r)
        /\ listRow' = listRow /\ order' = order /\ sidebar' = sidebar
        /\ recognizers' = recognizers
    BY DEF TapHomeRow, Touchable
  <1>2. \A s : On(s) <=> s = "Home"
    BY <1>1, OnRanks, RankFacts DEF Screen
  <1>3. /\ detail' \in Detail /\ detail'.restaurant = Restaurants[r]
        /\ Push("RestaurantDetail") /\ trapped' = trapped /\ r # NoRow
    BY <1>1, ShownDetail
  <1>4. "RestaurantDetail" \in Screen /\ Rank[Top] < Rank["RestaurantDetail"]
    BY <1>1, RankFacts DEF Screen
  <1>5. /\ stack' \in Seq(Screen) /\ stack' # <<>>
        /\ Ascending(stack') /\ stack'[1] = "Home"
        /\ \A t : On(t)' <=> t \in {"Home", "RestaurantDetail"}
    BY <1>2, <1>3, <1>4, PushOn
  <1>6. /\ On("RestaurantDetail")' /\ ~On("MenuDetail")'
        /\ ~On("RestaurantList")' /\ ~On("Transfer")'
    BY <1>5
  <1>7. AppTypeOK'
    BY <1>1, <1>2, <1>3, <1>5, <1>6 DEF NavInv, AppTypeOK
  <1>8. TrailMatches' /\ StackOrdered' /\ NoTrap'
    BY <1>1, <1>3, <1>5, <1>6
       DEF NavInv, TrailMatches, OpenedFromRow, StackOrdered, NoTrap
  <1> QED
    BY <1>1, <1>6, <1>7, <1>8 DEF NavInv

LEMMA TapListRowKeeps ==
  ASSUME NavInv, NEW r \in DOMAIN Restaurants, TapListRow(r)
  PROVE  NavInv'
  <1>1. /\ Top = "RestaurantList" /\ listRow' = r /\ ShowDetail(r)
        /\ homeRow' = homeRow /\ order' = order /\ sidebar' = sidebar
        /\ recognizers' = recognizers
    BY DEF TapListRow, Touchable
  <1>2. /\ On("RestaurantList")
        /\ ~On("RestaurantDetail") /\ ~On("MenuDetail") /\ ~On("Transfer")
    BY <1>1, OnRanks, RankFacts DEF Screen
  <1>3. /\ detail' \in Detail /\ detail'.restaurant = Restaurants[r]
        /\ Push("RestaurantDetail") /\ trapped' = trapped /\ r # NoRow
    BY <1>1, ShownDetail
  <1>4. "RestaurantDetail" \in Screen /\ Rank[Top] < Rank["RestaurantDetail"]
    BY <1>1, RankFacts DEF Screen
  <1>5. /\ stack' \in Seq(Screen) /\ stack' # <<>>
        /\ Ascending(stack') /\ stack'[1] = "Home"
        /\ \A t : On(t)' <=> (t = "RestaurantDetail" \/ On(t))
    BY <1>3, <1>4, PushOn
  <1>6. /\ On("RestaurantDetail")' /\ ~On("MenuDetail")'
        /\ On("RestaurantList")' /\ ~On("Transfer")'
    BY <1>2, <1>5
  <1>7. AppTypeOK'
    BY <1>1, <1>2, <1>3, <1>5, <1>6 DEF NavInv, AppTypeOK
  <1>8. TrailMatches' /\ StackOrdered' /\ NoTrap'
    BY <1>1, <1>3, <1>5, <1>6
       DEF NavInv, TrailMatches, OpenedFromRow, StackOrdered, NoTrap
  <1> QED
    BY <1>1, <1>6, <1>7, <1>8 DEF NavInv

LEMMA TapNextPageKeeps ==
  ASSUME NavInv, TapNextPage
  PROVE  NavInv'
  <1>1. /\ Top = "Home" /\ Push("RestaurantList") /\ listRow' = NoRow
        /\ UNCHANGED <<homeRow, detail, order, sidebar, recognizers, trapped>>
    BY DEF TapNextPage, Touchable
  <1>2. \A s : On(s) <=> s = "Home"
    BY <1>1, OnRanks, RankFacts DEF Screen
  <1>3. "RestaurantList" \in Screen /\ Rank[Top] < Rank["RestaurantList"]
    BY <1>1, RankFacts DEF Screen
  <1>4. /\ stack' \in Seq(Screen) /\ stack' # <<>>
        /\ Ascending(stack') /\ stack'[1] = "Home"
        /\ \A t : On(t)' <=> t \in {"Home", "RestaurantList"}
    BY <1>1, <1>2, <1>3, PushOn
  <1>5. ~On("RestaurantDetail")' /\ ~On("MenuDetail")' /\ ~On("Transfer")'
    BY <1>4
  <1>6. AppTypeOK'
    BY <1>1, <1>2, <1>4, <1>5 DEF NavInv, AppTypeOK
  <1> QED
    BY <1>1, <1>4, <1>5, <1>6
       DEF NavInv, TrailMatches, StackOrdered, NoTrap

LEMMA BackPageKeeps ==
  ASSUME NavInv, BackPage
  PROVE  NavInv'
  <1>1. /\ Top = "RestaurantList" /\ stack' = <<stack[1]>> /\ listRow' = NoRow
        /\ UNCHANGED <<homeRow, detail, order, sidebar, recognizers, trapped>>
    BY DEF BackPage, Touchable
  <1>2. ~On("RestaurantDetail") /\ ~On("MenuDetail") /\ ~On("Transfer")
    BY <1>1, OnRanks, RankFacts
  <1>3. stack' = <<"Home">>
    BY <1>1, OnRanks
  <1>4. /\ stack' \in Seq(Screen) /\ stack' # <<>> /\ Ascending(stack')
        /\ stack'[1] = "Home" /\ \A t : On(t)' <=> t = "Home"
    BY <1>3 DEF Screen, Ascending, On
  <1>5. ~On("RestaurantDetail")' /\ ~On("MenuDetail")' /\ ~On("Transfer")'
    BY <1>4
  <1>6. AppTypeOK'
    BY <1>1, <1>2, <1>4, <1>5 DEF NavInv, AppTypeOK
  <1> QED
    BY <1>1, <1>4, <1>5, <1>6
       DEF NavInv, TrailMatches, StackOrdered, NoTrap

-----------------------------------------------------------------------------
\* The object of a screen that is on the stack.
LEMMA StackedObjects ==
  ASSUME NavInv
  PROVE  /\ On("RestaurantDetail") =>
              /\ detail \in Detail /\ detail.restaurant \in Restaurant
              /\ detail.row \in Nat /\ detail.category \in Nat
         /\ On("MenuDetail") =>
              /\ order \in Order /\ On("RestaurantDetail")
              /\ Consistent(order) /\ TotalNotStale(order)
  BY DEF NavInv, AppTypeOK, StackOrdered, Detail

\* Changing only the category or the selected row of the restaurant screen.
LEMMA DetailUpdate ==
  ASSUME NEW d \in Detail, NEW n \in Nat
  PROVE  /\ [d EXCEPT !.category = n] \in Detail
         /\ [d EXCEPT !.category = n].restaurant = d.restaurant
         /\ [d EXCEPT !.category = n].row = d.row
         /\ [d EXCEPT !.row = n] \in Detail
         /\ [d EXCEPT !.row = n].restaurant = d.restaurant
         /\ [d EXCEPT !.row = n].row = n
  BY DEF Detail

LEMMA SameStack ==
  ASSUME NavInv, stack' = stack
  PROVE  /\ stack' \in Seq(Screen) /\ stack' # <<>> /\ StackOrdered'
         /\ \A s : On(s)' <=> On(s)
  BY OnRanks DEF NavInv, StackOrdered, On

LEMMA SelectCategoryKeeps ==
  ASSUME NavInv, SelectCategory
  PROVE  NavInv'
  <1>1. /\ Top = "RestaurantDetail" /\ On("RestaurantDetail")
        /\ UNCHANGED <<stack, homeRow, listRow, order, sidebar, recognizers, trapped>>
    BY OnRanks DEF SelectCategory, Touchable
  <1>2. PICK c \in 1..Categories[detail.restaurant] :
          detail' = [detail EXCEPT !.category = c]
    BY DEF SelectCategory
  <1>3. /\ detail' \in Detail /\ detail'.restaurant = detail.restaurant
        /\ detail'.row = detail.row
    <2>1. detail \in Detail /\ Categories[detail.restaurant] \in Nat
      BY <1>1, StackedObjects, LibraryAssumption
    <2>2. c \in Nat
      BY <2>1
    <2> QED
      BY <1>2, <2>1, <2>2, DetailUpdate
  <1>4. AppTypeOK'
    BY <1>1, <1>3, SameStack DEF NavInv, AppTypeOK
  <1>5. TrailMatches'
    BY <1>1, <1>3, SameStack DEF NavInv, TrailMatches, OpenedFromRow
  <1> QED
    BY <1>1, <1>4, <1>5, SameStack DEF NavInv, NoTrap

LEMMA TapMenuRowKeeps ==
  ASSUME NavInv, NEW k, TapMenuRow(k)
  PROVE  NavInv'
  <1>1. /\ Top = "RestaurantDetail" /\ k \in DOMAIN Menu[detail.restaurant]
        /\ detail' = [detail EXCEPT !.row = k] /\ ShowOrder(detail'.row)
        /\ UNCHANGED <<homeRow, listRow, sidebar, recognizers>>
    BY DEF TapMenuRow, Touchable
  <1>2. /\ On("RestaurantDetail") /\ ~On("MenuDetail") /\ ~On("Transfer")
    BY <1>1, OnRanks, RankFacts
  <1>3. /\ k \in Nat /\ k # NoRow /\ Menu[detail.restaurant][k] \in Item
    BY <1>1, <1>2, StackedObjects, LibraryAssumption DEF NoRow
  <1>4. /\ detail' \in Detail /\ detail'.restaurant = detail.restaurant
        /\ detail'.row = k
    BY <1>1, <1>2, <1>3, StackedObjects, DetailUpdate
  <1>5. /\ order' = Loaded(Menu[detail.restaurant][k])
        /\ Push("MenuDetail") /\ trapped' = trapped
    BY <1>1, <1>3, <1>4 DEF ShowOrder
  <1>6. /\ order' \in Order /\ order'.item = Menu[detail.restaurant][k]
        /\ Consistent(order)' /\ TotalNotStale(order)'
    <2>1. order'.item = Menu[detail.restaurant][k]
      BY <1>5 DEF Loaded
    <2>2. order' \in Order /\ Consistent(order') /\ TotalNotStale(order')
      BY <1>3, <1>5, LoadedGood
    <2> QED
      BY <2>1, <2>2 DEF Consistent, TotalNotStale
  <1>7. "MenuDetail" \in Screen /\ Rank[Top] < Rank["MenuDetail"]
    BY <1>1, RankFacts DEF Screen
  <1>8. /\ stack' \in Seq(Screen) /\ stack' # <<>>
        /\ Ascending(stack') /\ stack'[1] = "Home"
        /\ \A t : On(t)' <=> (t = "MenuDetail" \/ On(t))
    BY <1>5, <1>7, PushOn
  <1>9. /\ On("RestaurantDetail")' /\ On("MenuDetail")' /\ ~On("Transfer")'
        /\ On("RestaurantList")' <=> On("RestaurantList")
    BY <1>2, <1>8
  <1>10. AppTypeOK'
    BY <1>1, <1>4, <1>5, <1>6, <1>8, <1>9 DEF NavInv, AppTypeOK
  <1>11. TrailMatches'
    BY <1>1, <1>2, <1>4, <1>6, <1>9 DEF NavInv, TrailMatches, OpenedFromRow
  <1> QED
    BY <1>1, <1>5, <1>6, <1>8, <1>9, <1>10, <1>11
       DEF NavInv, StackOrdered, NoTrap

LEMMA LeaveDetailKeeps ==
  ASSUME NavInv, LeaveDetail
  PROVE  NavInv'
  <1>1. /\ Top = "RestaurantDetail" /\ Pop /\ detail' = None
        /\ UNCHANGED <<homeRow, listRow, order, sidebar, recognizers, trapped>>
    BY DEF LeaveDetail, Touchable
  <1>2. ~On("MenuDetail") /\ ~On("Transfer")
    BY <1>1, OnRanks, RankFacts
  <1>3. /\ stack' \in Seq(Screen) /\ stack' # <<>>
        /\ Ascending(stack') /\ stack'[1] = "Home"
        /\ \A t : On(t)' <=> (t # "RestaurantDetail" /\ On(t))
    BY <1>1, PopOn
  <1>4. ~On("RestaurantDetail")' /\ ~On("MenuDetail")' /\ ~On("Transfer")'
    BY <1>2, <1>3
  <1>5. AppTypeOK'
    BY <1>1, <1>2, <1>3, <1>4 DEF NavInv, AppTypeOK
  <1> QED
    BY <1>1, <1>3, <1>4, <1>5 DEF NavInv, TrailMatches, StackOrdered, NoTrap

LEMMA LeaveOrderKeeps ==
  ASSUME NavInv, LeaveOrder
  PROVE  NavInv'
  <1>1. /\ Top = "MenuDetail" /\ Pop /\ order' = None
        /\ detail' = [detail EXCEPT !.category = 1]
        /\ UNCHANGED <<homeRow, listRow, sidebar, recognizers, trapped>>
    BY DEF LeaveOrder, Touchable, Appearing
  <1>2. On("MenuDetail") /\ On("RestaurantDetail") /\ ~On("Transfer")
    BY <1>1, OnRanks, RankFacts, StackedObjects
  <1>3. /\ detail' \in Detail /\ detail'.restaurant = detail.restaurant
        /\ detail'.row = detail.row
    BY <1>1, <1>2, StackedObjects, DetailUpdate
  <1>4. /\ stack' \in Seq(Screen) /\ stack' # <<>>
        /\ Ascending(stack') /\ stack'[1] = "Home"
        /\ \A t : On(t)' <=> (t # "MenuDetail" /\ On(t))
    BY <1>1, PopOn
  <1>5. /\ On("RestaurantDetail")' /\ ~On("MenuDetail")' /\ ~On("Transfer")'
        /\ On("RestaurantList")' <=> On("RestaurantList")
    BY <1>2, <1>4
  <1>6. AppTypeOK'
    BY <1>1, <1>3, <1>4, <1>5 DEF NavInv, AppTypeOK
  <1>7. TrailMatches'
    BY <1>1, <1>2, <1>3, <1>5 DEF NavInv, TrailMatches, OpenedFromRow
  <1> QED
    BY <1>1, <1>4, <1>5, <1>6, <1>7 DEF NavInv, StackOrdered, NoTrap

\* The two buttons of the order screen replace the order by a consistent one
\* of the same item.
LEMMA OrderChanged ==
  ASSUME NavInv, Top = "MenuDetail",
         order' \in Order, Consistent(order'), TotalNotStale(order'),
         order'.item = order.item,
         UNCHANGED <<stack, homeRow, listRow, detail, sidebar, recognizers, trapped>>
  PROVE  NavInv'
  <1>1. On("MenuDetail") /\ ~On("Transfer")
    BY OnRanks, RankFacts
  <1>2. AppTypeOK'
    BY <1>1, SameStack DEF NavInv, AppTypeOK
  <1>3. TrailMatches'
    BY <1>1, SameStack DEF NavInv, TrailMatches, OpenedFromRow
  <1>4. Consistent(order)' /\ TotalNotStale(order)'
    BY DEF Consistent, TotalNotStale
  <1> QED
    BY <1>1, <1>2, <1>3, <1>4, SameStack DEF NavInv, NoTrap

LEMMA TapPlusKeeps ==
  ASSUME NavInv, TapPlus
  PROVE  NavInv'
  <1>1. /\ Top = "MenuDetail" /\ order' = Increased(order)
        /\ UNCHANGED <<stack, homeRow, listRow, detail, sidebar, recognizers, trapped>>
    BY DEF TapPlus, Touchable, increaseCount
  <1>2. order \in Order /\ Consistent(order)
    BY <1>1, OnRanks, StackedObjects
  <1>3. /\ order' \in Order /\ Consistent(order')
        /\ order'.updatedOrderPrice = order'.priceLabelSimple
    BY <1>1, <1>2, IncreasedGood
  <1>4. order'.item = order.item
    BY <1>1, <1>2 DEF Increased, Order
  <1>5. TotalNotStale(order')
    BY <1>3 DEF TotalNotStale
  <1> QED
    BY <1>1, <1>3, <1>4, <1>5, OrderChanged

LEMMA TapMinusKeeps ==
  ASSUME NavInv, TapMinus
  PROVE  NavInv'
  <1>1. /\ Top = "MenuDetail" /\ order' = Decreased(order)
        /\ UNCHANGED <<stack, homeRow, listRow, detail, sidebar, recognizers, trapped>>
    BY DEF TapMinus, Touchable, decreaseCount
  <1>2. order \in Order /\ Consistent(order)
    BY <1>1, OnRanks, StackedObjects
  <1>3. /\ order' \in Order /\ Consistent(order')
        /\ order'.updatedOrderPrice = order'.priceLabelSimple
    BY <1>1, <1>2, DecreasedGood
  <1>4. order'.item = order.item
    BY <1>1, <1>2 DEF Decreased, Lowered, Reset, Order
  <1>5. TotalNotStale(order')
    BY <1>3 DEF TotalNotStale
  <1> QED
    BY <1>1, <1>3, <1>4, <1>5, OrderChanged

\* The side menu's own steps leave the screens alone.
LEMMA SidebarKeeps ==
  ASSUME NavInv, Hamburger \/ SidebarAnimated \/ TapScrim
  PROVE  NavInv'
  <1>1. nav' = nav /\ trapped' = trapped
    BY DEF Hamburger, SidebarAnimated, TapScrim
  <1>2. UNCHANGED <<stack, homeRow, listRow, detail, order>>
    BY <1>1 DEF nav
  <1>3. /\ sidebar' \in {"hidden", "appearing", "shown"}
        /\ recognizers' \in Nat
        /\ sidebar' # "hidden" => recognizers' > 0
    BY DEF NavInv, AppTypeOK, Hamburger, SidebarAnimated, TapScrim
  <1>4. On("Transfer") => sidebar' = "hidden"
    <2>1. CASE Hamburger
      <3>1. Top = "Home"
        BY <2>1 DEF Hamburger, Touchable
      <3>2. ~On("Transfer")
        BY <3>1, OnRanks, RankFacts
      <3> QED
        BY <3>2
    <2>2. CASE SidebarAnimated
      BY <2>2 DEF SidebarAnimated, NavInv
    <2>3. CASE TapScrim
      BY <2>3 DEF TapScrim
    <2> QED
      BY <2>1, <2>2, <2>3
  <1>5. AppTypeOK'
    BY <1>1, <1>2, <1>3, SameStack DEF NavInv, AppTypeOK
  <1>6. TrailMatches'
    BY <1>2, SameStack DEF NavInv, TrailMatches, OpenedFromRow
  <1>7. (On("MenuDetail") => Consistent(order) /\ TotalNotStale(order))'
    BY <1>2, SameStack DEF NavInv, Consistent, TotalNotStale
  <1> QED
    BY <1>1, <1>2, <1>3, <1>4, <1>5, <1>6, <1>7, SameStack DEF NavInv, NoTrap

LEMMA TransferWasTappedKeeps ==
  ASSUME NavInv, TransferWasTapped
  PROVE  NavInv'
  <1>1. /\ sidebar = "shown" /\ sidebar' = "hidden" /\ Push("Transfer")
        /\ UNCHANGED <<homeRow, listRow, detail, order, recognizers, trapped>>
    BY DEF TransferWasTapped
  <1>2. ~On("Transfer")
    BY <1>1 DEF NavInv
  <1>3. "Transfer" \in Screen /\ Rank[Top] < Rank["Transfer"]
    BY <1>2, OnRanks, RankFacts DEF Screen
  <1>4. /\ stack' \in Seq(Screen) /\ stack' # <<>>
        /\ Ascending(stack') /\ stack'[1] = "Home"
        /\ \A t : On(t)' <=> (t = "Transfer" \/ On(t))
    BY <1>1, <1>3, PushOn
  <1>5. /\ On("RestaurantDetail")' <=> On("RestaurantDetail")
        /\ On("MenuDetail")' <=> On("MenuDetail")
        /\ On("RestaurantList")' <=> On("RestaurantList")
    BY <1>4
  <1>6. AppTypeOK'
    BY <1>1, <1>4, <1>5 DEF NavInv, AppTypeOK
  <1>7. TrailMatches'
    BY <1>1, <1>5 DEF NavInv, TrailMatches, OpenedFromRow
  <1>8. (On("MenuDetail") => Consistent(order) /\ TotalNotStale(order))'
    BY <1>1, <1>5 DEF NavInv, Consistent, TotalNotStale
  <1> QED
    BY <1>1, <1>4, <1>5, <1>6, <1>7, <1>8 DEF NavInv, StackOrdered, NoTrap

LEMMA CancelTransferKeeps ==
  ASSUME NavInv, CancelTransfer
  PROVE  NavInv'
  <1>1. /\ Top = "Transfer" /\ Pop
        /\ detail' = IF stack[Len(stack) - 1] = "RestaurantDetail"
                     THEN [detail EXCEPT !.category = 1] ELSE detail
        /\ UNCHANGED <<homeRow, listRow, order, sidebar, recognizers, trapped>>
    BY DEF CancelTransfer, Touchable, Appearing
  <1>2. /\ stack' \in Seq(Screen) /\ stack' # <<>>
        /\ Ascending(stack') /\ stack'[1] = "Home"
        /\ Top' = stack[Len(stack) - 1]
        /\ \A t : On(t)' <=> (t # "Transfer" /\ On(t))
    BY <1>1, PopOn
  <1>3. /\ On("RestaurantDetail")' <=> On("RestaurantDetail")
        /\ On("MenuDetail")' <=> On("MenuDetail")
        /\ On("RestaurantList")' <=> On("RestaurantList")
        /\ ~On("Transfer")'
    BY <1>2
  <1>4. Top' = "RestaurantDetail" => On("RestaurantDetail")
    <2>1. Len(stack') \in DOMAIN stack'
      BY <1>2
    <2> QED
      BY <1>3, <2>1 DEF Top, On
  <1>5. /\ On("RestaurantDetail") =>
             /\ detail' \in Detail /\ detail'.restaurant = detail.restaurant
             /\ detail'.row = detail.row
        /\ ~On("RestaurantDetail") => detail' = detail
    BY <1>1, <1>2, <1>4, StackedObjects, DetailUpdate
  <1>6. AppTypeOK'
    BY <1>1, <1>2, <1>3, <1>5 DEF NavInv, AppTypeOK
  <1>7. TrailMatches'
    BY <1>1, <1>3, <1>5 DEF NavInv, TrailMatches, OpenedFromRow, StackOrdered
  <1>8. (On("MenuDetail") => Consistent(order) /\ TotalNotStale(order))'
    BY <1>1, <1>3 DEF NavInv, Consistent, TotalNotStale
  <1> QED
    BY <1>1, <1>2, <1>3, <1>6, <1>7, <1>8 DEF NavInv, StackOrdered, NoTrap

LEMMA NavInit ==
  AppInit => NavInv
  <1> SUFFICES ASSUME AppInit PROVE NavInv
    OBVIOUS
  <1>1. \A t : On(t) <=> t = "Home"
    BY DEF AppInit, On
  <1>2. stack \in Seq(Screen) /\ stack # <<>> /\ Ascending(stack) /\ stack[1] = "Home"
    BY DEF AppInit, Screen, Ascending
  <1>3. ~On("RestaurantDetail") /\ ~On("MenuDetail") /\ ~On("Transfer")
    BY <1>1
  <1> QED
    BY <1>2, <1>3
       DEF AppInit, NavInv, AppTypeOK, NoTrap, StackOrdered, TrailMatches, NoRow

LEMMA NavStep ==
  NavInv /\ [AppNext]_app => NavInv'
  <1> SUFFICES ASSUME NavInv, [AppNext]_app PROVE NavInv'
    OBVIOUS
  <1>1. ASSUME NEW r \in DOMAIN Restaurants, TapHomeRow(r) \/ TapListRow(r)
        PROVE  NavInv'
    BY <1>1, TapHomeRowKeeps, TapListRowKeeps
  <1>2. CASE TapNextPage \/ BackPage
    BY <1>2, TapNextPageKeeps, BackPageKeeps
  <1>3. CASE SelectCategory
    BY <1>3, SelectCategoryKeeps
  <1>4. ASSUME NEW k, TapMenuRow(k)
        PROVE  NavInv'
    BY <1>4, TapMenuRowKeeps
  <1>5. CASE LeaveDetail \/ LeaveOrder
    BY <1>5, LeaveDetailKeeps, LeaveOrderKeeps
  <1>6. CASE TapPlus \/ TapMinus
    BY <1>6, TapPlusKeeps, TapMinusKeeps
  <1>7. CASE Hamburger \/ SidebarAnimated \/ TapScrim
    BY <1>7, SidebarKeeps
  <1>8. CASE TransferWasTapped \/ CancelTransfer
    BY <1>8, TransferWasTappedKeeps, CancelTransferKeeps
  <1>9. CASE UNCHANGED app
    <2>1. UNCHANGED <<stack, homeRow, listRow, detail, order, sidebar, recognizers, trapped>>
      BY <1>9 DEF app, nav
    <2>2. AppTypeOK'
      BY <2>1, SameStack DEF NavInv, AppTypeOK
    <2>3. TrailMatches'
      BY <2>1, SameStack DEF NavInv, TrailMatches, OpenedFromRow
    <2>4. (On("MenuDetail") => Consistent(order) /\ TotalNotStale(order))'
      BY <2>1, SameStack DEF NavInv, Consistent, TotalNotStale
    <2> QED
      BY <2>1, <2>2, <2>3, <2>4, SameStack DEF NavInv, NoTrap
  <1> QED
    BY <1>1, <1>2, <1>3, <1>4, <1>5, <1>6, <1>7, <1>8, <1>9 DEF AppNext

LEMMA NavInvariant == AppSpec => []NavInv
  BY NavInit, NavStep, PTL DEF AppSpec

\* For every library, the navigation state is well typed, and the objects of
\* the screens live exactly while the screens are stacked.
THEOREM NavigationTyped == AppSpec => []AppTypeOK
  BY NavInvariant, PTL DEF NavInv

(***************************************************************************)
(* For every library: no force unwrap ever fails, the screens are stacked  *)
(* in the storyboard's order, what a screen shows is what was tapped on    *)
(* the screens below it, and an open side menu can be dismissed.           *)
(***************************************************************************)
THEOREM NavigationSafe ==
  AppSpec => [](NoTrap /\ StackOrdered /\ TrailMatches /\ ScrimDismissable)
  <1>1. NavInv => NoTrap /\ StackOrdered /\ TrailMatches /\ ScrimDismissable
    BY DEF NavInv, ScrimDismissable
  <1> QED
    BY <1>1, NavInvariant, PTL

(***************************************************************************)
(* For every library: whenever a segue is prepared the table it reads the  *)
(* row from has one selected, so no force unwrap of it fails.              *)
(***************************************************************************)
THEOREM NothingTraps == AppSpec => []NoTrap
  BY NavigationSafe, PTL

(***************************************************************************)
(* For every library: the screens are stacked in the storyboard's order,   *)
(* each at most once, however the side menu interferes.                    *)
(***************************************************************************)
THEOREM StackStaysOrdered == AppSpec => []StackOrdered
  BY NavigationSafe, PTL

(***************************************************************************)
(* For every library: a side menu that covers the application always has a *)
(* recognizer that dismisses it, on whichever screen it was opened.        *)
(***************************************************************************)
THEOREM ScrimStays == AppSpec => []ScrimDismissable
  BY NavigationSafe, PTL

-----------------------------------------------------------------------------
(***************************************************************************)
(* For every library, a covered screen keeps its selection, restaurant and *)
(* order: an action reads or writes only the screen on top, and the two    *)
(* that uncover another one change at most its category.                   *)
(***************************************************************************)
Frozen ==
  /\ Top # "Home" => homeRow' = homeRow
  /\ On("RestaurantList") /\ Top # "RestaurantList" => listRow' = listRow
  /\ On("RestaurantDetail") /\ Top # "RestaurantDetail" =>
       /\ detail'.restaurant = detail.restaurant
       /\ detail'.row = detail.row
  /\ On("MenuDetail") /\ Top # "MenuDetail" => order' = order

THEOREM CoveredFrozen == AppSpec => CoveredScreensFrozen
  <1>1. NavInv /\ [AppNext]_app => [Frozen]_app
    <2> SUFFICES ASSUME NavInv, AppNext PROVE Frozen
      OBVIOUS
    <2>1. /\ Top = "Home" => /\ ~On("RestaurantList") /\ ~On("RestaurantDetail")
                             /\ ~On("MenuDetail")
          /\ Top = "RestaurantList" => ~On("RestaurantDetail") /\ ~On("MenuDetail")
          /\ Top = "RestaurantDetail" => ~On("MenuDetail")
      BY OnRanks, RankFacts
    <2>2. On("RestaurantDetail") =>
            /\ Appearing(detail).restaurant = detail.restaurant
            /\ Appearing(detail).row = detail.row
      BY StackedObjects, DetailUpdate DEF Appearing
    <2>3. ASSUME NEW r, TapHomeRow(r)
          PROVE  Frozen
      BY <2>1, <2>3 DEF TapHomeRow, Touchable, Frozen
    <2>4. ASSUME NEW r, TapListRow(r)
          PROVE  Frozen
      BY <2>1, <2>4 DEF TapListRow, Touchable, Frozen
    <2>5. CASE TapNextPage
      BY <2>1, <2>5 DEF TapNextPage, Touchable, Frozen
    <2>6. CASE BackPage
      BY <2>1, <2>6 DEF BackPage, Touchable, Frozen
    <2>7. CASE SelectCategory
      BY <2>1, <2>7 DEF SelectCategory, Touchable, Frozen
    <2>8. ASSUME NEW k, TapMenuRow(k)
          PROVE  Frozen
      BY <2>1, <2>8 DEF TapMenuRow, Touchable, Frozen
    <2>9. CASE LeaveDetail
      BY <2>1, <2>9 DEF LeaveDetail, Touchable, Frozen
    <2>10. CASE LeaveOrder
      BY <2>1, <2>2, <2>10 DEF LeaveOrder, Touchable, Frozen
    <2>11. CASE TapPlus \/ TapMinus
      BY <2>1, <2>11 DEF TapPlus, TapMinus, Touchable, Frozen
    <2>12. CASE Hamburger \/ SidebarAnimated \/ TapScrim
      BY <2>12 DEF Hamburger, SidebarAnimated, TapScrim, nav, Frozen
    <2>13. CASE TransferWasTapped
      BY <2>13 DEF TransferWasTapped, Frozen
    <2>14. CASE CancelTransfer
      BY <2>2, <2>14 DEF CancelTransfer, Frozen
    <2> QED
      BY <2>3, <2>4, <2>5, <2>6, <2>7, <2>8, <2>9, <2>10, <2>11, <2>12,
         <2>13, <2>14 DEF AppNext
  <1>2. AppSpec => [][Frozen]_app
    BY <1>1, NavInvariant, PTL DEF AppSpec
  <1> QED
    BY <1>2 DEF CoveredScreensFrozen, Frozen

(***************************************************************************)
(* For every library, a restaurant that comes to the top, freshly opened   *)
(* from a list or uncovered by an order or a transfer, highlights its      *)
(* first category: viewWillAppear runs on each of these ways.              *)
(***************************************************************************)
Highlighted ==
  Top # "RestaurantDetail" /\ Top' = "RestaurantDetail" => detail'.category = 1

\* The restaurant opened by a row of either list.
LEMMA OpenedHighlighted ==
  ASSUME NavInv, NEW r \in DOMAIN Restaurants, TapHomeRow(r) \/ TapListRow(r)
  PROVE  detail'.category = 1
  <1>1. ShowDetail(r)
    BY DEF TapHomeRow, TapListRow
  <1> QED
    BY <1>1, ShownDetail DEF LoadedDetail

\* The restaurant uncovered when the screen above it is popped.
LEMMA UncoveredHighlighted ==
  ASSUME NavInv, On("RestaurantDetail")
  PROVE  Appearing(detail).category = 1
  BY StackedObjects DEF Appearing, Detail

THEOREM FirstCategory == AppSpec => FirstCategoryOnAppearing
  <1>1. NavInv /\ [AppNext]_app => [Highlighted]_app
    <2> SUFFICES ASSUME NavInv, AppNext, Top # "RestaurantDetail",
                        Top' = "RestaurantDetail"
                 PROVE  detail'.category = 1
      BY DEF Highlighted
    <2>1. ASSUME NEW r \in DOMAIN Restaurants, TapHomeRow(r) \/ TapListRow(r)
          PROVE  detail'.category = 1
      BY <2>1, OpenedHighlighted
    <2>2. stack' # stack
      BY DEF Top
    <2>3. CASE TapNextPage
      BY <2>3, RankFacts, PushOn DEF TapNextPage, Touchable, Screen
    <2>4. CASE BackPage
      BY <2>4, OnRanks DEF BackPage, Top
    <2>5. CASE SelectCategory \/ LeaveDetail \/ (\E k \in MenuRows : TapMenuRow(k))
      BY <2>5 DEF SelectCategory, LeaveDetail, TapMenuRow, Touchable
    <2>6. CASE LeaveOrder
      <3>1. On("MenuDetail") /\ detail' = Appearing(detail)
        BY <2>6, OnRanks DEF LeaveOrder, Touchable
      <3> QED
        BY <3>1, StackedObjects, UncoveredHighlighted
    <2>7. CASE TapPlus \/ TapMinus \/ Hamburger \/ SidebarAnimated \/ TapScrim
      BY <2>2, <2>7 DEF TapPlus, TapMinus, Hamburger, SidebarAnimated, TapScrim, nav
    <2>8. CASE TransferWasTapped
      <3>1. Top' = "Transfer"
        BY <2>8, OnRanks DEF TransferWasTapped, Push, Top
      <3> QED
        BY <3>1
    <2>9. CASE CancelTransfer
      <3>1. Top = "Transfer" /\ Pop
            /\ detail' = IF stack[Len(stack) - 1] = "RestaurantDetail"
                         THEN Appearing(detail) ELSE detail
        BY <2>9 DEF CancelTransfer, Touchable
      <3>2. /\ stack' \in Seq(Screen) /\ stack' # <<>>
            /\ Top' = stack[Len(stack) - 1]
            /\ \A t : On(t)' <=> (t # "Transfer" /\ On(t))
        BY <3>1, PopOn
      <3>3. On("RestaurantDetail")'
        <4>1. Len(stack') \in DOMAIN stack'
          BY <3>2
        <4> QED
          BY <4>1 DEF Top, On
      <3> QED
        BY <3>1, <3>2, <3>3, UncoveredHighlighted
    <2> QED
      BY <2>1, <2>3, <2>4, <2>5, <2>6, <2>7, <2>8, <2>9 DEF AppNext
  <1>2. AppSpec => [][Highlighted]_app
    BY <1>1, NavInvariant, PTL DEF AppSpec
  <1> QED
    BY <1>2 DEF FirstCategoryOnAppearing, Highlighted
-----------------------------------------------------------------------------
(***************************************************************************)
(* The screens implement OrderFlow.  Each action is one of its steps or    *)
(* changes nothing OrderFlow can see.                                      *)
(***************************************************************************)
LEMMA FlowStutter ==
  ASSUME \A s \in {"RestaurantDetail", "MenuDetail", "Transfer"} : On(s)' <=> On(s),
         On("RestaurantDetail") => detail'.restaurant = detail.restaurant,
         On("MenuDetail") => order' = order
  PROVE  UNCHANGED Flow!flow
  <1>1. /\ On("RestaurantDetail")' <=> On("RestaurantDetail")
        /\ On("MenuDetail")' <=> On("MenuDetail")
        /\ On("Transfer")' <=> On("Transfer")
    OBVIOUS
  <1>2. flowRestaurant' = flowRestaurant
    BY <1>1 DEF flowRestaurant
  <1>3. flowItem' = flowItem /\ flowQuantity' = flowQuantity /\ flowTotal' = flowTotal
    BY <1>1 DEF flowItem, flowQuantity, flowTotal
  <1>4. flowTransferring' = flowTransferring
    BY <1>1 DEF flowTransferring
  <1> QED
    BY <1>2, <1>3, <1>4 DEF Flow!flow

\* A row of either list: the restaurant is entered.
LEMMA RowEnters ==
  ASSUME NavInv, NEW row \in DOMAIN Restaurants, ShowDetail(row),
         Top \in {"Home", "RestaurantList"}, order' = order
  PROVE  Flow!Next
  <1>1. /\ ~On("RestaurantDetail") /\ ~On("MenuDetail") /\ ~On("Transfer")
    BY OnRanks, RankFacts
  <1>2. /\ detail'.restaurant = Restaurants[row] /\ Push("RestaurantDetail")
        /\ Restaurants[row] \in Restaurant
    BY ShownDetail, LibraryAssumption
  <1>3. \A t : On(t)' <=> (t = "RestaurantDetail" \/ On(t))
    <2>1. "RestaurantDetail" \in Screen /\ Rank[Top] < Rank["RestaurantDetail"]
      BY RankFacts DEF Screen
    <2> QED
      BY <1>2, <2>1, PushOn
  <1>4. On("RestaurantDetail")' /\ ~On("MenuDetail")' /\ ~On("Transfer")'
    BY <1>1, <1>3
  <1>5. flowRestaurant = None /\ flowRestaurant' = Restaurants[row]
    BY <1>1, <1>2, <1>4 DEF flowRestaurant
  <1>6. UNCHANGED <<flowItem, flowQuantity, flowTotal, flowTransferring>>
    BY <1>1, <1>4 DEF flowItem, flowQuantity, flowTotal, flowTransferring
  <1>7. flowTransferring = FALSE
    BY <1>1 DEF flowTransferring
  <1>8. Flow!EnterRestaurant(Restaurants[row])
    BY <1>5, <1>6, <1>7 DEF Flow!EnterRestaurant
  <1> QED
    BY <1>2, <1>8 DEF Flow!Next

\* A row of a menu: the item is picked, one of it.
LEMMA RowPicks ==
  ASSUME NavInv, NEW k, TapMenuRow(k)
  PROVE  Flow!Next
  <1>1. /\ Top = "RestaurantDetail" /\ k \in DOMAIN Menu[detail.restaurant]
        /\ detail' = [detail EXCEPT !.row = k] /\ ShowOrder(detail'.row)
    BY DEF TapMenuRow, Touchable
  <1>2. /\ On("RestaurantDetail") /\ ~On("MenuDetail") /\ ~On("Transfer")
    BY <1>1, OnRanks, RankFacts
  <1>3. /\ detail \in Detail /\ detail.restaurant \in Restaurant
        /\ detail.restaurant # None
    BY <1>2, StackedObjects, NoneAssumption
  <1>4. Menu[detail.restaurant] \in Seq(Item)
    BY <1>3, LibraryAssumption
  <1> DEFINE i == Menu[detail.restaurant][k]
  <1>5. k \in Nat /\ k # NoRow /\ i \in Item /\ i \in ItemsOf[detail.restaurant]
    BY <1>1, <1>3, <1>4 DEF NoRow, ItemsOf
  <1>6. detail'.restaurant = detail.restaurant /\ detail'.row = k
    BY <1>1, <1>3, <1>5, DetailUpdate
  <1>7. order' = Loaded(i) /\ Push("MenuDetail")
    BY <1>1, <1>5, <1>6 DEF ShowOrder
  <1>8. \A t : On(t)' <=> (t = "MenuDetail" \/ On(t))
    <2>1. "MenuDetail" \in Screen /\ Rank[Top] < Rank["MenuDetail"]
      BY <1>1, RankFacts DEF Screen
    <2> QED
      BY <1>7, <2>1, PushOn
  <1>9. On("RestaurantDetail")' /\ On("MenuDetail")' /\ ~On("Transfer")'
    BY <1>2, <1>8
  <1> HIDE DEF i
  <1>10. /\ order'.item = i /\ order'.countLabel = 1
         /\ order'.priceLabelSimple = Price[i]
    BY <1>7 DEF Loaded
  <1>11. flowRestaurant = detail.restaurant /\ flowRestaurant' = flowRestaurant
    BY <1>2, <1>6, <1>9 DEF flowRestaurant
  <1>12. /\ flowItem = None /\ flowItem' = i /\ flowQuantity' = 1
         /\ flowTotal' = Price[i]
    BY <1>2, <1>9, <1>10 DEF flowItem, flowQuantity, flowTotal
  <1>13. flowTransferring = FALSE /\ flowTransferring' = FALSE
    BY <1>2, <1>9 DEF flowTransferring
  <1>14. Flow!PickItem(i)
    BY <1>3, <1>5, <1>11, <1>12, <1>13 DEF Flow!PickItem
  <1> QED
    BY <1>5, <1>14 DEF Flow!Next

\* The back button of a restaurant.
LEMMA BackLeavesRestaurant ==
  ASSUME NavInv, LeaveDetail
  PROVE  Flow!Next
  <1>1. /\ Top = "RestaurantDetail" /\ Pop /\ order' = order
    BY DEF LeaveDetail, Touchable
  <1>2. /\ On("RestaurantDetail") /\ ~On("MenuDetail") /\ ~On("Transfer")
    BY <1>1, OnRanks, RankFacts
  <1>3. \A t : On(t)' <=> (t # "RestaurantDetail" /\ On(t))
    BY <1>1, PopOn
  <1>4. ~On("RestaurantDetail")' /\ ~On("MenuDetail")' /\ ~On("Transfer")'
    BY <1>2, <1>3
  <1>5. flowRestaurant # None /\ flowRestaurant' = None
    BY <1>2, <1>4, StackedObjects, NoneAssumption DEF flowRestaurant
  <1>6. flowItem = None /\ UNCHANGED <<flowItem, flowQuantity, flowTotal>>
    BY <1>2, <1>4 DEF flowItem, flowQuantity, flowTotal
  <1>7. flowTransferring = FALSE /\ flowTransferring' = FALSE
    BY <1>2, <1>4 DEF flowTransferring
  <1> QED
    BY <1>5, <1>6, <1>7 DEF Flow!LeaveRestaurant, Flow!Next

\* The back button of an order screen.
LEMMA BackLeavesItem ==
  ASSUME NavInv, LeaveOrder
  PROVE  Flow!Next
  <1>1. /\ Top = "MenuDetail" /\ Pop /\ detail' = Appearing(detail)
    BY DEF LeaveOrder, Touchable
  <1>2. /\ On("RestaurantDetail") /\ On("MenuDetail") /\ ~On("Transfer")
    BY <1>1, OnRanks, RankFacts, StackedObjects
  <1>3. \A t : On(t)' <=> (t # "MenuDetail" /\ On(t))
    BY <1>1, PopOn
  <1>4. On("RestaurantDetail")' /\ ~On("MenuDetail")' /\ ~On("Transfer")'
    BY <1>2, <1>3
  <1>5. flowRestaurant' = flowRestaurant
    BY <1>1, <1>2, <1>4, StackedObjects, DetailUpdate DEF flowRestaurant, Appearing
  <1>6. order.item # None
    BY <1>2, StackedObjects, NoneAssumption DEF Order
  <1>7. /\ flowItem # None /\ flowItem' = None /\ flowQuantity' = 0
        /\ flowTotal' = 0
    BY <1>2, <1>4, <1>6 DEF flowItem, flowQuantity, flowTotal
  <1>8. flowTransferring = FALSE /\ flowTransferring' = FALSE
    BY <1>2, <1>4 DEF flowTransferring
  <1> QED
    BY <1>5, <1>7, <1>8 DEF Flow!LeaveItem, Flow!Next

\* What a tap on plus or minus does to a consistent order screen: the count
\* goes up or down by one, or nothing that can be seen changes.
LEMMA ButtonsChangeByOne ==
  ASSUME NEW o \in Order, Consistent(o),
         NEW p, p = Increased(o) \/ p = Decreased(o)
  PROVE  /\ p.item = o.item /\ p.countLabel \in Nat /\ p.countLabel > 0
         /\ \/ p.countLabel = o.countLabel + 1
            \/ p.countLabel + 1 = o.countLabel
            \/ p.countLabel = o.countLabel
         /\ p.priceLabelSimple = p.countLabel * Price[o.item]
  <1>1. p \in Order /\ Consistent(p)
    BY IncreasedGood, DecreasedGood
  <1>2. p.item = o.item
    BY DEF Increased, Decreased, Lowered, Reset, Order
  <1>3. /\ p.countLabel = p.itemCount /\ p.itemCount >= 1
        /\ p.priceLabelSimple = p.itemCount * p.orderPrice
        /\ p.orderPrice = Price[p.item]
        /\ o.countLabel = o.itemCount /\ o.itemCount >= 1
    BY <1>1 DEF Consistent, Order
  <1>4. p.itemCount \in Nat /\ o.itemCount \in Nat
    BY <1>1 DEF Order
  <1>5. \/ p.itemCount = o.itemCount + 1
        \/ p.itemCount + 1 = o.itemCount
        \/ p.itemCount = o.itemCount
    <2>1. CASE p = Increased(o)
      BY <2>1 DEF Increased, Order
    <2>2. CASE p = Decreased(o) /\ o.itemCount > 2
      <3>1. p.itemCount = o.itemCount - 1
        BY <2>2 DEF Decreased, Lowered, Order
      <3> QED
        BY <1>4, <3>1
    <2>3. CASE p = Decreased(o) /\ ~(o.itemCount > 2)
      <3>1. p.itemCount = 1
        BY <2>3 DEF Decreased, Reset, Order
      <3> QED
        BY <1>3, <1>4, <2>3, <3>1
    <2> QED
      BY <2>1, <2>2, <2>3
  <1> QED
    BY <1>2, <1>3, <1>4, <1>5

LEMMA ButtonsChangeQuantity ==
  ASSUME NavInv, TapPlus \/ TapMinus
  PROVE  [Flow!Next]_(Flow!flow)
  <1>1. /\ Top = "MenuDetail" /\ stack' = stack /\ detail' = detail
        /\ order' = Increased(order) \/ order' = Decreased(order)
    BY DEF TapPlus, TapMinus, Touchable, increaseCount, decreaseCount
  <1>2. /\ On("RestaurantDetail") /\ On("MenuDetail") /\ ~On("Transfer")
    BY <1>1, OnRanks, RankFacts, StackedObjects
  <1>3. /\ On("RestaurantDetail")' /\ On("MenuDetail")' /\ ~On("Transfer")'
    BY <1>1, <1>2 DEF On
  <1>4. order \in Order /\ Consistent(order) /\ order.item # None
    BY <1>2, StackedObjects, NoneAssumption DEF Order
  <1>5. /\ order'.item = order.item /\ order'.countLabel \in Nat
        /\ order'.countLabel > 0
        /\ \/ order'.countLabel = order.countLabel + 1
           \/ order'.countLabel + 1 = order.countLabel
           \/ order'.countLabel = order.countLabel
        /\ order'.priceLabelSimple = order'.countLabel * Price[order.item]
    BY <1>1, <1>4, ButtonsChangeByOne
  <1>6. flowRestaurant' = flowRestaurant
    BY <1>1, <1>2, <1>3 DEF flowRestaurant
  <1>7. flowTransferring = FALSE /\ flowTransferring' = FALSE
    BY <1>2, <1>3 DEF flowTransferring
  <1>8. /\ flowItem = order.item /\ flowItem' = order'.item
        /\ flowQuantity = order.countLabel /\ flowQuantity' = order'.countLabel
        /\ flowTotal = order.priceLabelSimple
        /\ flowTotal' = order'.priceLabelSimple
    BY <1>2, <1>3 DEF flowItem, flowQuantity, flowTotal
  <1>9. /\ order.countLabel \in Nat
        /\ order.priceLabelSimple = order.countLabel * Price[order.item]
    BY <1>4 DEF Consistent, Order
  <1>10. CASE order'.countLabel = order.countLabel
    <2>1. order'.priceLabelSimple = order.priceLabelSimple
      BY <1>5, <1>9, <1>10
    <2> QED
      BY <1>5, <1>6, <1>7, <1>8, <1>10, <2>1 DEF Flow!flow
  <1>11. CASE order'.countLabel # order.countLabel
    <2>1. Flow!ChangeQuantity(flowQuantity')
      BY <1>4, <1>5, <1>6, <1>7, <1>8, <1>11 DEF Flow!ChangeQuantity
    <2>2. flowQuantity' \in {flowQuantity + 1, flowQuantity - 1}
      BY <1>5, <1>8, <1>9, <1>11
    <2> QED
      BY <2>1, <2>2 DEF Flow!Next
  <1> QED
    BY <1>10, <1>11

\* The side menu's transfer entry, over whatever screen is on top.
LEMMA TransferBegins ==
  ASSUME NavInv, TransferWasTapped
  PROVE  Flow!Next
  <1>1. /\ sidebar = "shown" /\ Push("Transfer")
        /\ detail' = detail /\ order' = order
    BY DEF TransferWasTapped
  <1>2. ~On("Transfer")
    BY <1>1 DEF NavInv
  <1>3. "Transfer" \in Screen /\ Rank[Top] < Rank["Transfer"]
    BY <1>2, OnRanks, RankFacts DEF Screen
  <1>4. \A t : On(t)' <=> (t = "Transfer" \/ On(t))
    BY <1>1, <1>3, PushOn
  <1>5. /\ On("RestaurantDetail")' <=> On("RestaurantDetail")
        /\ On("MenuDetail")' <=> On("MenuDetail")
        /\ On("Transfer")'
    BY <1>4
  <1>6. UNCHANGED <<flowRestaurant, flowItem, flowQuantity, flowTotal>>
    BY <1>1, <1>5 DEF flowRestaurant, flowItem, flowQuantity, flowTotal
  <1>7. flowTransferring = FALSE /\ flowTransferring' = TRUE
    BY <1>2, <1>5 DEF flowTransferring
  <1> QED
    BY <1>6, <1>7 DEF Flow!BeginTransfer, Flow!Next

LEMMA TransferEnds ==
  ASSUME NavInv, CancelTransfer
  PROVE  Flow!Next
  <1>1. /\ Top = "Transfer" /\ Pop /\ order' = order
        /\ detail' \in {Appearing(detail), detail}
    BY DEF CancelTransfer, Touchable
  <1>2. On("Transfer")
    BY <1>1, OnRanks
  <1>3. \A t : On(t)' <=> (t # "Transfer" /\ On(t))
    BY <1>1, PopOn
  <1>4. /\ On("RestaurantDetail")' <=> On("RestaurantDetail")
        /\ On("MenuDetail")' <=> On("MenuDetail")
        /\ ~On("Transfer")'
    BY <1>3
  <1>5. On("RestaurantDetail") => detail'.restaurant = detail.restaurant
    <2>1. On("RestaurantDetail") =>
            Appearing(detail).restaurant = detail.restaurant
      BY StackedObjects, DetailUpdate DEF Appearing
    <2> QED
      BY <1>1, <2>1
  <1>6. flowRestaurant' = flowRestaurant
    BY <1>4, <1>5 DEF flowRestaurant
  <1>7. UNCHANGED <<flowItem, flowQuantity, flowTotal>>
    BY <1>1, <1>4 DEF flowItem, flowQuantity, flowTotal
  <1>8. flowTransferring = TRUE /\ flowTransferring' = FALSE
    BY <1>2, <1>4 DEF flowTransferring
  <1> QED
    BY <1>6, <1>7, <1>8 DEF Flow!EndTransfer, Flow!Next

\* The list behind the "next page" button is invisible in the flow.
LEMMA ListIsInvisible ==
  ASSUME NavInv, TapNextPage \/ BackPage
  PROVE  UNCHANGED Flow!flow
  <1>1. detail' = detail /\ order' = order
    BY DEF TapNextPage, BackPage
  <1>2. \A s \in {"RestaurantDetail", "MenuDetail", "Transfer"} : ~On(s)
    BY OnRanks, RankFacts DEF TapNextPage, BackPage, Touchable
  <1>3. \A s \in {"RestaurantDetail", "MenuDetail", "Transfer"} : ~On(s)'
    <2>1. CASE TapNextPage
      <3>1. /\ "RestaurantList" \in Screen /\ Rank[Top] < Rank["RestaurantList"]
            /\ Push("RestaurantList")
        BY <2>1, RankFacts DEF Screen, TapNextPage, Touchable
      <3>2. \A t : On(t)' <=> (t = "RestaurantList" \/ On(t))
        BY <3>1, PushOn
      <3> QED
        BY <1>2, <3>2
    <2>2. CASE BackPage
      <3>1. stack' = <<"Home">>
        BY <2>2, OnRanks DEF BackPage
      <3> QED
        BY <3>1 DEF On
    <2> QED
      BY <2>1, <2>2
  <1> QED
    BY <1>1, <1>2, <1>3, FlowStutter

LEMMA FlowStep ==
  ASSUME NavInv, [AppNext]_app
  PROVE  [Flow!Next]_(Flow!flow)
  <1>1. ASSUME NEW r \in DOMAIN Restaurants, TapHomeRow(r) \/ TapListRow(r)
        PROVE  Flow!Next
    <2>1. /\ Top \in {"Home", "RestaurantList"} /\ ShowDetail(r)
          /\ order' = order
      BY <1>1 DEF TapHomeRow, TapListRow, Touchable
    <2> QED
      BY <2>1, RowEnters
  <1>2. CASE TapNextPage \/ BackPage
    BY <1>2, ListIsInvisible
  <1>3. CASE SelectCategory
    <2>1. /\ stack' = stack /\ order' = order /\ Top = "RestaurantDetail"
          /\ \E c \in 1..Categories[detail.restaurant] :
               detail' = [detail EXCEPT !.category = c]
      BY <1>3 DEF SelectCategory, Touchable
    <2>2. detail \in Detail /\ Categories[detail.restaurant] \in Nat
      BY <2>1, OnRanks, StackedObjects, LibraryAssumption
    <2>3. detail'.restaurant = detail.restaurant
      <3>1. PICK c \in 1..Categories[detail.restaurant] :
              detail' = [detail EXCEPT !.category = c]
        BY <2>1
      <3>2. c \in Nat
        BY <2>2
      <3> QED
        BY <2>2, <3>1, <3>2, DetailUpdate
    <2>4. \A s : On(s)' <=> On(s)
      BY <2>1, SameStack
    <2> QED
      BY <2>1, <2>3, <2>4, FlowStutter
  <1>4. ASSUME NEW k, TapMenuRow(k)
        PROVE  Flow!Next
    BY <1>4, RowPicks
  <1>5. CASE LeaveDetail \/ LeaveOrder
    BY <1>5, BackLeavesRestaurant, BackLeavesItem
  <1>6. CASE TapPlus \/ TapMinus
    BY <1>6, ButtonsChangeQuantity
  <1>7. CASE Hamburger \/ SidebarAnimated \/ TapScrim \/ UNCHANGED app
    <2>1. stack' = stack /\ detail' = detail /\ order' = order
      BY <1>7 DEF Hamburger, SidebarAnimated, TapScrim, app, nav
    <2>2. \A s : On(s)' <=> On(s)
      BY <2>1, SameStack
    <2> QED
      BY <2>1, <2>2, FlowStutter
  <1>8. CASE TransferWasTapped \/ CancelTransfer
    BY <1>8, TransferBegins, TransferEnds
  <1> QED
    BY <1>1, <1>2, <1>3, <1>4, <1>5, <1>6, <1>7, <1>8 DEF AppNext

(***************************************************************************)
(* For every library, the stack, the selected rows and the side menu       *)
(* implement OrderFlow: the screens never show a total, an item or a       *)
(* restaurant that a customer could not have reached step by step.         *)
(***************************************************************************)
THEOREM NavigationImplementsFlow == AppSpec => ImplementsOrderFlow
  <1>1. AppInit => Flow!Init
    <2> SUFFICES ASSUME AppInit PROVE Flow!Init
      OBVIOUS
    <2>1. ~On("RestaurantDetail") /\ ~On("MenuDetail") /\ ~On("Transfer")
      BY DEF AppInit, On
    <2> QED
      BY <2>1 DEF Flow!Init, flowRestaurant, flowItem, flowQuantity, flowTotal,
                  flowTransferring
  <1>2. NavInv /\ [AppNext]_app => [Flow!Next]_(Flow!flow)
    BY FlowStep
  <1> QED
    BY <1>1, <1>2, NavInvariant, PTL DEF AppSpec, Flow!Spec, ImplementsOrderFlow
=============================================================================
