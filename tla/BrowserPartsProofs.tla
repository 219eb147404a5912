------------------------- MODULE BrowserPartsProofs -------------------------
(***************************************************************************)
(* The parts of the page keep what they promise.  One section per part:    *)
(* the facts about its operators, the inductive invariant (IInv in the     *)
(* part's module) step by step, and the theorem about the run's property.  *)
(***************************************************************************)
EXTENDS TranscriptTerms, Sequences, SequenceTheorems, FiniteSets, FiniteSetTheorems,
        WellFoundedInduction, TLAPS

------------------------
\* HistoryWindow

USE DEF Accounted, PickerFine, BoardFine, OnlyPolled

\* A stretch of rows is a sequence of its numbers.
LEMMA RowsShape ==
  ASSUME NEW lo \in Nat, NEW hi \in Nat, lo <= hi + 1
  PROVE  /\ H!Rows(lo, hi) \in Seq(Nat) /\ Len(H!Rows(lo, hi)) = hi - lo + 1
         /\ \A i \in 1 .. (hi - lo + 1) : H!Rows(lo, hi)[i] = lo + i - 1
BY DEF H!Rows

\* It starts and ends with its bounds.
LEMMA RowsEnds ==
  ASSUME NEW win, NEW lo \in Nat, NEW hi \in Nat, lo <= hi, win.items = H!Rows(lo, hi)
  PROVE  win.items # <<>> /\ H!First(win) = lo /\ H!End(win) = hi
<1>1. win.items \in Seq(Nat) /\ Len(win.items) = hi - lo + 1
      /\ win.items[1] = lo /\ win.items[hi - lo + 1] = hi
  BY DEF H!Rows
<1>2. win.items # <<>> BY <1>1
<1> QED BY <1>1, <1>2 DEF H!First, H!End

\* Two stretches that meet are one.
LEMMA RowsConcat ==
  ASSUME NEW a \in Nat, NEW b \in Nat, NEW c \in Nat, NEW d \in Nat,
         a <= d, d = b + 1, b <= c
  PROVE  Joined(H!Rows(a, b), H!Rows(d, c), H!Rows(a, c))
<1> DEFINE s == H!Rows(a, b)  t == H!Rows(d, c)  u == H!Rows(a, c)
<1>1. s \in Seq(Nat) /\ t \in Seq(Nat) /\ u \in Seq(Nat) BY DEF H!Rows
<1>2. Len(s) = b - a + 1 /\ Len(t) = c - b /\ Len(u) = c - a + 1 BY DEF H!Rows
<1>3. /\ \A i \in 1 .. (b - a + 1) : s[i] = a + i - 1
      /\ \A i \in 1 .. (c - b) : t[i] = b + i
      /\ \A i \in 1 .. (c - a + 1) : u[i] = a + i - 1
  BY DEF H!Rows
<1> HIDE DEF s, t, u
<1>4. s \o t \in Seq(Nat) /\ Len(s \o t) = c - a + 1
 <2>1. s \o t \in Seq(Nat) /\ Len(s \o t) = Len(s) + Len(t) BY <1>1
 <2>2. (b - a + 1) + (c - b) = c - a + 1 OBVIOUS
 <2> QED BY <1>2, <2>1, <2>2
<1>5. ASSUME NEW i \in 1 .. Len(u)
      PROVE  (s \o t)[i] = u[i]
 <2>1. CASE i <= Len(s)
  <3>1. (s \o t)[i] = s[i] BY <1>1, <1>2, <2>1
  <3> QED BY <1>2, <1>3, <2>1, <3>1
 <2>2. CASE i > Len(s)
  <3>1. (s \o t)[i] = t[i - Len(s)] BY <1>1, <1>2, <2>2
  <3>2. i - Len(s) \in 1 .. (c - b) BY <1>2, <2>2
  <3>3. t[i - Len(s)] = b + (i - Len(s)) BY <1>3, <3>2
  <3> QED BY <1>2, <1>3, <2>2, <3>1, <3>3
 <2> QED BY <1>2, <2>1, <2>2
<1>6. s \o t = u BY <1>1, <1>2, <1>4, <1>5, SeqEqual
<1> QED BY <1>6 DEF s, t, u, Joined

\* A piece of a stretch is a stretch.
LEMMA RowsPiece ==
  ASSUME NEW a \in Nat, NEW b \in Nat, NEW i \in Nat, NEW j \in Nat,
         NEW lo \in Nat, NEW hi \in Nat,
         1 <= i, i <= j, j <= b - a + 1, lo = a + i - 1, hi = a + j - 1
  PROVE  Cut(H!Rows(a, b), i, j, H!Rows(lo, hi))
<1> DEFINE s == H!Rows(a, b)  t == SubSeq(s, i, j)  u == H!Rows(lo, hi)
<1>1. s \in Seq(Nat) /\ Len(s) = b - a + 1 /\ \A k \in 1 .. (b - a + 1) : s[k] = a + k - 1
  BY DEF H!Rows
<1>2. u \in Seq(Nat) /\ Len(u) = j - i + 1 /\ \A k \in 1 .. (j - i + 1) : u[k] = lo + k - 1
  BY DEF H!Rows
<1>3. t \in Seq(Nat) /\ Len(t) = j - i + 1 BY <1>1
<1>4. \A k \in 1 .. Len(u) : t[k] = u[k] BY <1>1, <1>2
<1>5. t = u
 <2>1. Len(t) = Len(u) BY <1>2, <1>3
 <2> HIDE DEF t, u
 <2> QED BY <1>2, <1>3, <1>4, <2>1, SeqEqual
<1> QED BY <1>5 DEF Cut

\* A page holds its rows and says whether there is more on either side.
LEMMA PageShape ==
  ASSUME NEW lo \in Nat, NEW hi \in Nat, NEW n \in Nat
  PROVE  \E b \in BOOLEAN, c \in BOOLEAN :
            /\ H!PageOf(lo, hi, n) = [items |-> H!Rows(lo, hi), before |-> b, after |-> c]
            /\ b <=> lo <= hi /\ lo > 1
            /\ c <=> lo <= hi /\ hi < n
<1>1. (lo <= hi /\ lo > 1) \in BOOLEAN /\ (lo <= hi /\ hi < n) \in BOOLEAN OBVIOUS
<1> WITNESS (lo <= hi /\ lo > 1) \in BOOLEAN, (lo <= hi /\ hi < n) \in BOOLEAN
<1> QED BY DEF H!PageOf

\* What is installed has the page's rows.
LEMMA InstallShape ==
  ASSUME NEW id \in Nat, NEW b \in BOOLEAN, NEW c \in BOOLEAN, NEW items \in Seq(Nat),
         NEW thePage,
         thePage = [items |-> items, before |-> b, after |-> c]
  PROVE  /\ H!installMessageWindow(id, thePage) \in WindowType
         /\ H!installMessageWindow(id, thePage).items = items
         /\ H!installMessageWindow(id, thePage).before = b
BY DEF H!installMessageWindow, WindowType

\* The window that is installed from the last page ends with the last row.
LEMMA Installed ==
  ASSUME NEW id \in Nat, NEW n \in Nat, NEW win,
         win = H!installMessageWindow(id, H!history_page("tail", 0, n))
  PROVE  /\ win \in WindowType
         /\ Len(win.items) <= WindowSize
         /\ win.items # <<>> => /\ win.items = H!Rows(H!First(win), H!End(win))
                                /\ 1 <= H!First(win) /\ H!First(win) <= H!End(win)
         /\ H!End(win) = n
         /\ H!First(win) > 1 => win.before
<1> DEFINE lo == H!Larger(1, n - PageSize + 1)
<1>1. lo \in Nat /\ 1 <= lo /\ lo <= n + 1 /\ n - lo + 1 <= PageSize /\ (n >= 1 => lo <= n)
      /\ (n = 0 => lo = 1)
  BY WindowAssumption DEF H!Larger
<1>2. H!history_page("tail", 0, n) = H!PageOf(lo, n, n) BY DEF H!history_page
<1> HIDE DEF lo
<1>3. H!Rows(lo, n) \in Seq(Nat) /\ Len(H!Rows(lo, n)) = n - lo + 1 BY <1>1, RowsShape
<1>4. PICK b \in BOOLEAN, c \in BOOLEAN :
         /\ H!PageOf(lo, n, n) = [items |-> H!Rows(lo, n), before |-> b, after |-> c]
         /\ b <=> lo <= n /\ lo > 1
  BY <1>1, PageShape
<1>5. win \in WindowType /\ win.items = H!Rows(lo, n) /\ win.before = b
  BY <1>2, <1>3, <1>4, InstallShape
<1>6. Len(win.items) <= WindowSize BY <1>1, <1>3, <1>5, WindowAssumption
<1>7. CASE n >= 1
 <2>1. win.items # <<>> /\ H!First(win) = lo /\ H!End(win) = n BY <1>1, <1>5, <1>7, RowsEnds
 <2> QED BY <1>1, <1>4, <1>5, <1>6, <1>7, <2>1
<1>8. CASE n = 0
 <2>1. win.items = <<>> BY <1>1, <1>3, <1>5, <1>8
 <2>2. H!First(win) = 0 /\ H!End(win) = 0 BY <2>1 DEF H!First, H!End
 <2> QED BY <1>5, <1>6, <1>8, <2>1, <2>2
<1> QED BY <1>7, <1>8

\* Stretches apart have no row in common: all of a page beyond the window is added.
LEMMA AddedAll ==
  ASSUME NEW win, NEW items, NEW a \in Nat, NEW b \in Nat, NEW c \in Nat, NEW d \in Nat,
         a <= b, c <= d + 1, b < c \/ d < a,
         win.items = H!Rows(a, b), items = H!Rows(c, d)
  PROVE  H!Added(win, items) = items
<1>1. ASSUME NEW i \in DOMAIN items, NEW j \in DOMAIN win.items
      PROVE  items[i] # win.items[j]
 <2>1. i \in 1 .. (d - c + 1) /\ items[i] = c + i - 1 BY <1>1 DEF H!Rows
 <2>2. j \in 1 .. (b - a + 1) /\ win.items[j] = a + j - 1 BY <1>1 DEF H!Rows
 <2> QED BY <2>1, <2>2
<1>2. H!Range(items) \cap H!Range(win.items) = {} BY <1>1 DEF H!Range
<1> QED BY <1>2 DEF H!Added

\* A page before the window makes it start with the page, and end where it ended or
\* with a sequel.
LEMMA EarlierShape ==
  ASSUME NEW win \in WindowType, NEW page1, NEW a \in Nat, NEW b \in Nat, NEW lo \in Nat,
         1 <= a, a <= b, win.items = H!Rows(a, b),
         1 <= lo, lo <= a, page1.items = H!Rows(lo, a - 1), page1.before \in BOOLEAN,
         Len(win.items) <= WindowSize
  PROVE  \E e \in Nat :
            /\ lo <= e /\ e <= b
            /\ H!earlier(win, page1) \in WindowType
            /\ H!earlier(win, page1).items = H!Rows(lo, e)
            /\ Len(H!earlier(win, page1).items) <= WindowSize
            /\ H!earlier(win, page1).before = page1.before
            /\ H!earlier(win, page1).overtaken = win.overtaken
            /\ H!earlier(win, page1).after \/ (e = b /\ ~win.after)
<1> DEFINE all == H!Added(win, page1.items) \o win.items
           v == H!earlier(win, page1)
<1>1. a - 1 \in Nat /\ lo <= (a - 1) + 1 /\ (a - 1) + 1 = a OBVIOUS
<1>2. H!Added(win, page1.items) = page1.items BY <1>1, AddedAll
<1>3. all = H!Rows(lo, b)
 <2>1. Joined(H!Rows(lo, a - 1), H!Rows(a, b), H!Rows(lo, b)) BY <1>1, RowsConcat
 <2> QED BY <1>2, <2>1 DEF Joined
<1> HIDE DEF all
<1>4. Len(all) = b - lo + 1 /\ H!Rows(lo, b) \in Seq(Nat) BY <1>3 DEF H!Rows
<1>5. Len(win.items) = b - a + 1 BY DEF H!Rows
<1>6. CASE Len(all) > WindowSize
 <2> DEFINE e == lo + WindowSize - 1
 <2>1. e \in Nat /\ lo <= e /\ e <= b /\ e - lo + 1 = WindowSize
   BY <1>4, <1>5, <1>6, WindowAssumption
 <2> HIDE DEF e
 <2>2. SubSeq(all, 1, WindowSize) = H!Rows(lo, e)
  <3>1. /\ 1 \in Nat /\ WindowSize \in Nat /\ 1 <= WindowSize /\ WindowSize <= b - lo + 1
        /\ lo = lo + 1 - 1 /\ e = lo + WindowSize - 1
    BY <1>4, <1>6, <2>1, WindowAssumption
  <3>2. Cut(H!Rows(lo, b), 1, WindowSize, H!Rows(lo, e)) BY <2>1, <3>1, RowsPiece
  <3> QED BY <1>3, <3>2 DEF Cut
 <2>4. v = [win EXCEPT !.items = H!Rows(lo, e), !.before = page1.before, !.after = TRUE]
   BY <1>6, <2>2 DEF H!earlier, all
 <2>5. H!Rows(lo, e) \in Seq(Nat) /\ Len(H!Rows(lo, e)) = WindowSize BY <2>1 DEF H!Rows
 <2> HIDE DEF v
 <2>6. /\ v \in WindowType /\ v.items = H!Rows(lo, e) /\ v.before = page1.before
       /\ v.overtaken = win.overtaken /\ v.after
   BY <2>4, <2>5 DEF WindowType
 <2> QED BY <2>1, <2>5, <2>6, WindowAssumption DEF v
<1>7. CASE ~(Len(all) > WindowSize)
 <2>4. (win.after \/ Len(all) > WindowSize) = win.after BY <1>7 DEF WindowType
 <2>1. v = [win EXCEPT !.items = H!Rows(lo, b), !.before = page1.before, !.after = win.after]
   BY <1>3, <1>7, <2>4 DEF H!earlier, all
 <2> HIDE DEF v
 <2>2. /\ v \in WindowType /\ v.items = H!Rows(lo, b) /\ v.before = page1.before
       /\ v.overtaken = win.overtaken /\ v.after = win.after
   BY <1>4, <2>1 DEF WindowType
 <2>3. Len(v.items) <= WindowSize /\ lo <= b BY <1>3, <1>4, <1>7, <2>2, WindowAssumption
 <2> QED BY <2>2, <2>3 DEF v
<1> QED BY <1>6, <1>7

\* A page after the window makes it end with the page, and start where it started
\* or after something.
LEMMA LaterShape ==
  ASSUME NEW win \in WindowType, NEW page1, NEW a \in Nat, NEW b \in Nat, NEW hi \in Nat,
         1 <= a, a <= b, win.items = H!Rows(a, b),
         b <= hi, page1.items = H!Rows(b + 1, hi), page1.after \in BOOLEAN,
         Len(win.items) <= WindowSize
  PROVE  \E f \in Nat :
            /\ a <= f /\ f <= hi
            /\ H!later(win, page1) \in WindowType
            /\ H!later(win, page1).items = H!Rows(f, hi)
            /\ Len(H!later(win, page1).items) <= WindowSize
            /\ H!later(win, page1).after = page1.after
            /\ H!later(win, page1).overtaken = win.overtaken
            /\ H!later(win, page1).before \/ (f = a /\ ~win.before)
<1> DEFINE all == win.items \o H!Added(win, page1.items)
           v == H!later(win, page1)
<1>1. b + 1 \in Nat OBVIOUS
<1>2. H!Added(win, page1.items) = page1.items BY <1>1, AddedAll
<1>3. all = H!Rows(a, hi)
 <2>1. Joined(H!Rows(a, b), H!Rows(b + 1, hi), H!Rows(a, hi)) BY <1>1, RowsConcat
 <2> QED BY <1>2, <2>1 DEF Joined
<1> HIDE DEF all
<1>4. Len(all) = hi - a + 1 /\ H!Rows(a, hi) \in Seq(Nat) BY <1>3 DEF H!Rows
<1>5. Len(win.items) = b - a + 1 BY DEF H!Rows
<1>6. CASE Len(all) > WindowSize
 <2> DEFINE i == Len(all) - WindowSize + 1
            f == hi - WindowSize + 1
 <2>1. /\ f \in Nat /\ a <= f /\ f <= hi /\ hi - f + 1 = WindowSize
       /\ i \in Nat /\ 1 <= i /\ i <= Len(all) /\ a + i - 1 = f /\ a + Len(all) - 1 = hi
       /\ Len(all) \in Nat /\ Len(all) <= hi - a + 1
  <3> DEFINE n == Len(all)
  <3>1. n = hi - a + 1 /\ n > WindowSize /\ WindowSize \in Nat /\ 1 <= WindowSize
    BY <1>4, <1>6, WindowAssumption
  <3> HIDE DEF n
  <3>2. /\ f \in Nat /\ a <= f /\ f <= hi /\ hi - f + 1 = WindowSize
        /\ n - WindowSize + 1 \in Nat /\ 1 <= n - WindowSize + 1 /\ n - WindowSize + 1 <= n
        /\ a + (n - WindowSize + 1) - 1 = f /\ a + n - 1 = hi
        /\ n \in Nat /\ n <= hi - a + 1
    BY <3>1
  <3> QED BY <3>2 DEF n
 <2> HIDE DEF f
 <2>2. Cut(H!Rows(a, hi), i, Len(all), H!Rows(f, hi))
  <3> HIDE DEF i
  <3> QED BY <2>1, RowsPiece
 <2>3. SubSeq(all, i, Len(all)) = H!Rows(f, hi) BY <1>3, <2>2 DEF Cut
 <2>4. v = [win EXCEPT !.items = H!Rows(f, hi), !.before = TRUE, !.after = page1.after]
   BY <1>6, <2>3 DEF H!later, all
 <2>5. H!Rows(f, hi) \in Seq(Nat) /\ Len(H!Rows(f, hi)) = WindowSize BY <2>1 DEF H!Rows
 <2> HIDE DEF v
 <2>6. /\ v \in WindowType /\ v.items = H!Rows(f, hi) /\ v.after = page1.after
       /\ v.overtaken = win.overtaken /\ v.before
   BY <2>4, <2>5 DEF WindowType
 <2> QED BY <2>1, <2>5, <2>6, WindowAssumption DEF v
<1>7. CASE ~(Len(all) > WindowSize)
 <2>4. (win.before \/ Len(all) > WindowSize) = win.before BY <1>7 DEF WindowType
 <2>1. v = [win EXCEPT !.items = H!Rows(a, hi), !.before = win.before, !.after = page1.after]
   BY <1>3, <1>7, <2>4 DEF H!later, all
 <2> HIDE DEF v
 <2>2. /\ v \in WindowType /\ v.items = H!Rows(a, hi) /\ v.after = page1.after
       /\ v.overtaken = win.overtaken /\ v.before = win.before
   BY <1>4, <2>1 DEF WindowType
 <2>3. Len(v.items) <= WindowSize /\ a <= hi BY <1>3, <1>4, <1>7, <2>2, WindowAssumption
 <2> QED BY <2>2, <2>3 DEF v
<1> QED BY <1>6, <1>7

\* The numbers in the state are natural ones.
LEMMA WindowNumbers ==
  ASSUME H!TypeInv
  PROVE  /\ w \in WindowType /\ w.id + 1 \in Nat /\ store \in Nat
         /\ load.cursor \in Nat /\ H!First(w) \in Nat /\ H!End(w) \in Nat
<1>1. w \in WindowType /\ w.id + 1 \in Nat /\ store \in Nat /\ load.cursor \in Nat
  BY DEF H!TypeInv, WindowType
<1>2. w.items \in Seq(Nat) BY <1>1 DEF WindowType
<1>3. H!First(w) \in Nat /\ H!End(w) \in Nat BY <1>2 DEF H!First, H!End
<1> QED BY <1>1, <1>3

LEMMA WindowInit == H!Init => H!IInv
<1> SUFFICES ASSUME H!Init PROVE H!IInv OBVIOUS
<1> USE DEF H!Init
<1>1. w = H!installMessageWindow(1, H!history_page("tail", 0, FirstRows)) /\ 1 \in Nat
      /\ FirstRows \in Nat /\ store = FirstRows
  BY WindowAssumption
<1>2. /\ w \in WindowType /\ Len(w.items) <= WindowSize
      /\ w.items # <<>> => /\ w.items = H!Rows(H!First(w), H!End(w))
                           /\ 1 <= H!First(w) /\ H!First(w) <= H!End(w)
      /\ H!End(w) = store
      /\ H!First(w) > 1 => w.before
  BY <1>1, Installed
<1>3. H!TypeInv BY <1>1, <1>2 DEF H!TypeInv, H!NoLoad, H!NoTail, WindowType
<1>4. H!LiveInv /\ H!TailInv /\ H!LoadInv
  BY DEF H!LiveInv, H!TailInv, H!LoadInv, H!NoLoad, H!NoTail
<1>5. H!WindowInv /\ H!Contiguous /\ H!EarlierReachable
  BY <1>1, <1>2 DEF H!WindowInv, H!Contiguous, H!EarlierReachable
<1>6. H!LaterReachable BY <1>1, <1>2 DEF H!LaterReachable
<1> QED BY <1>3, <1>4, <1>5, <1>6 DEF H!IInv, H!WindowFaithful, H!LaterReachableUnlessOvertaken

\* A window installed from all that is stored, with no page on its way, is right
\* whatever the reader sees beside it.
LEMMA Reinstalled ==
  ASSUME H!TypeInv, H!TypeInv', H!LiveInv', H!TailInv',
         w' = H!installMessageWindow(w.id + 1, H!history_page("tail", 0, store)),
         load' = H!NoLoad, store' = store
  PROVE  H!IInv'
<1>1. w.id + 1 \in Nat /\ store \in Nat BY WindowNumbers
<1>2. /\ Len(w'.items) <= WindowSize
      /\ w'.items # <<>> => /\ w'.items = H!Rows(H!First(w'), H!End(w'))
                            /\ 1 <= H!First(w') /\ H!First(w') <= H!End(w')
      /\ H!End(w') = store
      /\ H!First(w') > 1 => w'.before
  BY <1>1, Installed
<1>3. H!LoadInv' BY DEF H!LoadInv, H!NoLoad
<1>4. H!WindowInv' /\ H!Contiguous' /\ H!EarlierReachable'
  BY <1>1, <1>2 DEF H!WindowInv, H!Contiguous, H!EarlierReachable
<1>5. H!LaterReachable' BY <1>1, <1>2 DEF H!LaterReachable
<1> QED BY <1>3, <1>4, <1>5 DEF H!IInv, H!WindowFaithful, H!LaterReachableUnlessOvertaken

\* While the window is left alone and more is drawn, everything reachable stays so.
LEMMA WindowKept ==
  ASSUME H!IInv, H!TypeInv', w' = w, load' = load, store' = store,
         \A r \in Nat : r \in live => r \in live',
         H!LiveInv', H!TailInv'
  PROVE  H!IInv'
<1> USE DEF H!IInv
<1>1. H!LoadInv'
 <2>1. CASE load.dir = "after" /\ load.read
  <3>1. PICK hi \in load.cursor .. store :
           /\ hi - load.cursor <= PageSize
           /\ load.items = H!Rows(load.cursor + 1, hi)
           /\ ~load.after /\ ~w.overtaken => \A r \in (hi + 1)..store : r \in live
    BY <2>1 DEF H!LoadInv
  <3>2. \A r \in (hi + 1)..store : r \in Nat BY WindowNumbers
  <3> QED BY <2>1, <3>1, <3>2 DEF H!LoadInv
 <2>2. CASE ~(load.dir = "after" /\ load.read) BY <2>2 DEF H!LoadInv
 <2> QED BY <2>1, <2>2
<1>2. H!WindowInv' /\ H!Contiguous' /\ H!EarlierReachable'
  BY DEF H!WindowInv, H!Contiguous, H!EarlierReachable, H!WindowFaithful
<1>3. H!LaterReachableUnlessOvertaken'
 <2>1. ASSUME ~w.overtaken, NEW r \in (H!End(w) + 1)..store PROVE r \in live \/ w.after
   BY <2>1 DEF H!WindowFaithful, H!LaterReachableUnlessOvertaken, H!LaterReachable
 <2>2. \A r \in (H!End(w) + 1)..store : r \in live => r \in Nat /\ r \in live'
  <3>1. H!End(w) \in Nat /\ store \in Nat BY WindowNumbers
  <3> QED BY <3>1
 <2> QED BY <2>1, <2>2 DEF H!LaterReachableUnlessOvertaken, H!LaterReachable
<1> QED BY <1>1, <1>2, <1>3 DEF H!WindowFaithful

\* The rows of a running turn are drawn before they are stored.
LEMMA WindowStored ==
  ASSUME H!IInv, H!TurnStored
  PROVE  H!IInv'
<1> USE DEF H!IInv
<1>1. /\ store \in Nat /\ store' = store + 2 /\ w' = w /\ load' = load /\ live' = live
      /\ tail' = tail /\ turn.st = "running" /\ turn' = [turn EXCEPT !.st = "stored"]
      /\ view' = view /\ turn \in [n : Nat, st : {"running", "stored", "over"}]
  BY DEF H!TurnStored, H!TypeInv
<1>2. H!TypeInv'
 <2>1. turn' \in [n : Nat, st : {"running", "stored", "over"}] /\ store' \in Nat BY <1>1
 <2> QED BY <1>1, <2>1 DEF H!TypeInv
<1>3. H!LiveInv' /\ H!TailInv' BY <1>1 DEF H!LiveInv, H!TailInv, H!TypeInv
<1>4. ASSUME NEW k \in Nat, \A r \in (k + 1)..store : r \in live
      PROVE  \A r \in (k + 1)..store' : r \in live'
 <2>1. \A r \in (k + 1)..store' : r \in (k + 1)..store \/ r = store + 1 \/ r = store + 2 BY <1>1
 <2> QED BY <1>1, <1>4, <2>1 DEF H!LiveInv
<1>5. H!LoadInv'
 <2>1. CASE load.dir = "after" /\ load.read
  <3>1. PICK hi \in load.cursor .. store :
           /\ hi - load.cursor <= PageSize
           /\ load.items = H!Rows(load.cursor + 1, hi)
           /\ ~load.after /\ ~w.overtaken => \A r \in (hi + 1)..store : r \in live
    BY <2>1 DEF H!LoadInv
  <3>2. hi \in Nat /\ hi \in load.cursor .. store' BY <1>1, WindowNumbers
  <3> QED BY <1>1, <1>4, <2>1, <3>1, <3>2 DEF H!LoadInv
 <2>2. CASE ~(load.dir = "after" /\ load.read) BY <1>1, <2>2 DEF H!LoadInv
 <2> QED BY <2>1, <2>2
<1>6. H!WindowInv' /\ H!EarlierReachable'
  BY <1>1 DEF H!WindowInv, H!EarlierReachable, H!WindowFaithful
<1>7. H!Contiguous'
 <2>1. w.items # <<>> => H!End(w) <= store'
   BY <1>1, WindowNumbers DEF H!Contiguous, H!WindowFaithful
 <2> QED BY <1>1, <2>1 DEF H!Contiguous, H!WindowFaithful
<1>8. H!LaterReachableUnlessOvertaken'
 <2>1. CASE w.overtaken \/ w.after
   BY <1>1, <2>1 DEF H!LaterReachableUnlessOvertaken, H!LaterReachable
 <2>2. CASE ~w.overtaken /\ ~w.after
  <3>1. \A r \in (H!End(w) + 1)..store : r \in live
    BY <2>2 DEF H!WindowFaithful, H!LaterReachableUnlessOvertaken, H!LaterReachable
  <3>2. \A r \in (H!End(w) + 1)..store' : r \in live' BY <1>4, <3>1, WindowNumbers
  <3> QED BY <1>1, <3>2 DEF H!LaterReachableUnlessOvertaken, H!LaterReachable
 <2> QED BY <2>1, <2>2
<1> QED BY <1>2, <1>3, <1>5, <1>6, <1>7, <1>8 DEF H!WindowFaithful

\* A turn that ends leaves its rows to the refresh, or to the page after the window.
LEMMA WindowTurnEnd ==
  ASSUME H!IInv, H!TurnEnd
  PROVE  H!IInv'
<1> USE DEF H!IInv
<1>1. /\ store' = store /\ load' = load /\ view' = view /\ turn.st = "stored"
      /\ turn' = [turn EXCEPT !.st = "over"]
      /\ turn \in [n : Nat, st : {"running", "stored", "over"}]
  BY DEF H!TurnEnd, H!TypeInv
<1>2. CASE ~H!AtTail /\ H!ReadingHistory
 <2> DEFINE over == load.dir = "after"
 <2>1. live' = {} /\ tail' = tail /\ w' = [w EXCEPT !.after = TRUE, !.overtaken = over]
   BY <1>2 DEF H!TurnEnd
 <2>2. over \in BOOLEAN /\ (load.dir = "after" <=> over) OBVIOUS
 <2> HIDE DEF over
 <2>3. /\ w' \in WindowType /\ w'.items = w.items /\ w'.after /\ w'.before = w.before
       /\ w'.overtaken = over
   BY <2>1, <2>2, WindowNumbers DEF WindowType
 <2>4. H!First(w') = H!First(w) /\ H!End(w') = H!End(w) BY <2>3 DEF H!First, H!End
 <2>5. H!TypeInv' BY <1>1, <2>1, <2>3 DEF H!TypeInv, WindowType
 <2>6. H!LiveInv' /\ H!TailInv' BY <1>1, <2>1 DEF H!LiveInv, H!TailInv, H!TypeInv
 <2>7. H!LoadInv'
  <3>1. CASE load.dir = "after" /\ load.read BY <1>1, <2>2, <2>3, <2>4, <3>1 DEF H!LoadInv
  <3>2. CASE ~(load.dir = "after" /\ load.read) BY <1>1, <2>3, <2>4, <3>2 DEF H!LoadInv
  <3> QED BY <3>1, <3>2
 <2>8. H!WindowInv' /\ H!Contiguous' /\ H!EarlierReachable'
   BY <1>1, <2>3, <2>4 DEF H!WindowInv, H!Contiguous, H!EarlierReachable, H!WindowFaithful
 <2>9. H!LaterReachableUnlessOvertaken'
   BY <2>3 DEF H!LaterReachableUnlessOvertaken, H!LaterReachable
 <2> QED BY <2>5, <2>6, <2>7, <2>8, <2>9 DEF H!WindowFaithful
<1>3. CASE ~(~H!AtTail /\ H!ReadingHistory)
 <2>1. /\ tail' = [on |-> TRUE, gen |-> view.gen, rev |-> view.rev, turn |-> turn.n,
                   win |-> w.id, first |-> H!First(w), upto |-> 0]
       /\ live' = live /\ w' = w
   BY <1>3 DEF H!TurnEnd
 <2>2. H!TypeInv' BY <1>1, <2>1, WindowNumbers DEF H!TypeInv
 <2>3. H!LiveInv' /\ H!TailInv' BY <1>1, <2>1 DEF H!LiveInv, H!TailInv
 <2> QED BY <1>1, <2>1, <2>2, <2>3, WindowKept
<1> QED BY <1>2, <1>3

\* The refresh shows all that is stored, or nothing new.
LEMMA WindowTailApply ==
  ASSUME H!IInv, H!TailApply
  PROVE  H!IInv'
<1> USE DEF H!IInv
<1>1. /\ store' = store /\ turn' = turn /\ view' = view /\ tail' = H!NoTail
      /\ tail.on /\ tail.upto > 0
  BY DEF H!TailApply
<1>2. H!TailInv' BY <1>1 DEF H!TailInv, H!NoTail
<1>3. tail' \in [on : BOOLEAN, gen : Nat, rev : Nat, turn : Nat, win : Nat, first : Nat,
                 upto : Nat]
  BY <1>1 DEF H!NoTail
<1>4. CASE /\ tail.gen = view.gen /\ tail.rev = view.rev /\ tail.turn = turn.n
           /\ turn.st = "over" /\ tail.win = w.id /\ tail.first = H!First(w)
 <2>1. tail.upto = store BY <1>1, <1>4 DEF H!TailInv
 <2>2. /\ w' = H!installMessageWindow(w.id + 1, H!history_page("tail", 0, store))
       /\ load' = H!NoLoad
   BY <1>4, <2>1 DEF H!TailApply
 <2>3. w' \in WindowType BY <2>2, WindowNumbers, Installed
 <2>4. H!TypeInv' BY <1>1, <1>3, <2>2, <2>3 DEF H!TypeInv, H!NoLoad, WindowType
 <2>5. H!LiveInv' BY <1>1, <1>4 DEF H!LiveInv
 <2> QED BY <1>1, <1>2, <2>2, <2>4, <2>5, Reinstalled
<1>5. CASE ~(/\ tail.gen = view.gen /\ tail.rev = view.rev /\ tail.turn = turn.n
             /\ turn.st = "over" /\ tail.win = w.id /\ tail.first = H!First(w))
 <2>1. w' = w /\ live' = live /\ load' = load BY <1>5 DEF H!TailApply
 <2>2. H!TypeInv' /\ H!LiveInv' BY <1>1, <1>3, <2>1 DEF H!TypeInv, H!LiveInv
 <2> QED BY <1>1, <1>2, <2>1, <2>2, WindowKept
<1> QED BY <1>4, <1>5

\* A prompt is drawn with the rows its turn will store.
LEMMA WindowTurnStart ==
  ASSUME H!IInv, H!TurnStart
  PROVE  H!IInv'
<1> USE DEF H!IInv
<1>1. /\ turn.st = "over" /\ turn' = [n |-> turn.n + 1, st |-> "running"]
      /\ live' = live \cup {store + 1, store + 2} /\ view' = [view EXCEPT !.rev = @ + 1]
      /\ store' = store /\ w' = w /\ load' = load /\ tail' = tail
  BY DEF H!TurnStart
<1>2. turn.n \in Nat /\ turn' \in [n : Nat, st : {"running", "stored", "over"}]
  BY <1>1 DEF H!TypeInv
<1>3. view' \in [gen : Nat, rev : Nat, at : {"tail", "live", "history"}]
 <2>1. view \in [gen : Nat, rev : Nat, at : {"tail", "live", "history"}] BY DEF H!TypeInv
 <2> QED BY ONLY <1>1, <2>1
<1>4. H!TypeInv' BY <1>1, <1>2, <1>3 DEF H!TypeInv
<1>5. H!LiveInv' BY <1>1 DEF H!LiveInv
<1>6. H!TailInv' BY <1>1, <1>2 DEF H!TailInv, H!TypeInv
<1> QED BY <1>1, <1>4, <1>5, <1>6, WindowKept

\* The refresh reads all that is stored.
LEMMA WindowTailRead ==
  ASSUME H!IInv, H!TailRead
  PROVE  H!IInv'
<1> USE DEF H!IInv
<1>1. /\ tail.on /\ tail.upto = 0 /\ tail' = [tail EXCEPT !.upto = store]
      /\ store' = store /\ w' = w /\ load' = load /\ turn' = turn /\ live' = live
      /\ view' = view
  BY DEF H!TailRead
<1>2. /\ tail' \in [on : BOOLEAN, gen : Nat, rev : Nat, turn : Nat, win : Nat, first : Nat,
                    upto : Nat]
      /\ tail'.turn = tail.turn /\ tail'.upto = store
  BY <1>1 DEF H!TypeInv
<1>3. H!TypeInv' BY <1>1, <1>2 DEF H!TypeInv
<1>4. H!LiveInv' /\ H!TailInv' BY <1>1, <1>2 DEF H!LiveInv, H!TailInv
<1> QED BY <1>1, <1>3, <1>4, WindowKept

LEMMA WindowScroll ==
  ASSUME H!IInv, NEW at \in {"tail", "live", "history"}, H!Scroll(at)
  PROVE  H!IInv'
<1> USE DEF H!IInv
<1>1. /\ view' = [view EXCEPT !.at = at]
      /\ store' = store /\ w' = w /\ load' = load /\ tail' = tail /\ turn' = turn
      /\ live' = live
  BY DEF H!Scroll
<1>2. view' \in [gen : Nat, rev : Nat, at : {"tail", "live", "history"}] BY <1>1 DEF H!TypeInv
<1>3. H!TypeInv' BY <1>1, <1>2 DEF H!TypeInv
<1>4. H!LiveInv' /\ H!TailInv' BY <1>1 DEF H!LiveInv, H!TailInv
<1> QED BY <1>1, <1>3, <1>4, WindowKept

LEMMA WindowReopen ==
  ASSUME H!IInv, H!Reopen
  PROVE  H!IInv'
<1> USE DEF H!IInv
<1>1. /\ w' = H!installMessageWindow(w.id + 1, H!history_page("tail", 0, store))
      /\ load' = H!NoLoad
      /\ live' = (IF turn.st = "running" THEN {store + 1, store + 2} ELSE {})
      /\ turn' = (IF turn.st = "stored" THEN [turn EXCEPT !.st = "over"] ELSE turn)
      /\ view' = [gen |-> view.gen + 1, rev |-> view.rev, at |-> "tail"]
      /\ store' = store /\ tail' = tail
  BY DEF H!Reopen
<1>2. w' \in WindowType BY <1>1, WindowNumbers, Installed
<1>3. /\ turn' \in [n : Nat, st : {"running", "stored", "over"}]
      /\ turn'.n = turn.n /\ turn'.st = "running" => turn.st = "running"
      /\ turn.st = "over" => turn'.st = "over"
  BY <1>1 DEF H!TypeInv
<1>4. view' \in [gen : Nat, rev : Nat, at : {"tail", "live", "history"}] BY <1>1 DEF H!TypeInv
<1>5. H!TypeInv' BY <1>1, <1>2, <1>3, <1>4 DEF H!TypeInv, H!NoLoad, WindowType
<1>6. H!LiveInv' /\ H!TailInv' BY <1>1, <1>3 DEF H!LiveInv, H!TailInv
<1> QED BY <1>1, <1>5, <1>6, Reinstalled

\* What holds of a window holds when only its error mark changes.
LEMMA WindowMarked ==
  ASSUME H!IInv, NEW e \in BOOLEAN, w' = [w EXCEPT !.error = e],
         store' = store, tail' = tail, turn' = turn, live' = live, view' = view,
         load' \in [dir : {"none", "before", "after"}, cursor : Nat, read : BOOLEAN,
                    items : Seq(Nat), before : BOOLEAN, after : BOOLEAN]
  PROVE  /\ H!LoadInv' => H!IInv'
         /\ w'.items = w.items /\ w'.before = w.before /\ w'.after = w.after
         /\ H!First(w') = H!First(w) /\ H!End(w') = H!End(w)
<1> USE DEF H!IInv
<1>1. /\ w' \in WindowType /\ w'.items = w.items /\ w'.before = w.before
      /\ w'.after = w.after /\ w'.overtaken = w.overtaken
  BY WindowNumbers DEF WindowType
<1>2. H!First(w') = H!First(w) /\ H!End(w') = H!End(w) BY <1>1 DEF H!First, H!End
<1>3. H!TypeInv' BY <1>1 DEF H!TypeInv, WindowType
<1>4. H!LiveInv' /\ H!TailInv' BY DEF H!LiveInv, H!TailInv
<1>5. H!WindowInv' /\ H!Contiguous' /\ H!EarlierReachable'
  BY <1>1, <1>2 DEF H!WindowInv, H!Contiguous, H!EarlierReachable, H!WindowFaithful
<1>6. H!LaterReachableUnlessOvertaken'
  BY <1>1, <1>2 DEF H!LaterReachableUnlessOvertaken, H!LaterReachable, H!WindowFaithful
<1> QED BY <1>1, <1>2, <1>3, <1>4, <1>5, <1>6 DEF H!WindowFaithful

\* A page is asked for from the end of the window it will join.
LEMMA WindowLoad ==
  ASSUME H!IInv, NEW dir \in {"before", "after"}, H!loadMessagePage(dir)
  PROVE  H!IInv'
<1> DEFINE cursor == IF dir = "before" THEN H!First(w) ELSE H!End(w)
<1>1. /\ load' = [H!NoLoad EXCEPT !.dir = dir, !.cursor = cursor]
      /\ w' = [w EXCEPT !.error = FALSE] /\ w.items # <<>>
      /\ IF dir = "before" THEN w.before ELSE w.after
      /\ store' = store /\ tail' = tail /\ turn' = turn /\ live' = live /\ view' = view
  BY DEF H!loadMessagePage
<1>2. cursor \in Nat BY WindowNumbers DEF H!IInv
<1>3. dir = "before" => cursor = H!First(w) OBVIOUS
<1>4. dir = "after" => cursor = H!End(w) OBVIOUS
<1> HIDE DEF cursor
<1>5. load' \in [dir : {"none", "before", "after"}, cursor : Nat, read : BOOLEAN,
                 items : Seq(Nat), before : BOOLEAN, after : BOOLEAN]
      /\ load'.dir = dir /\ load'.cursor = cursor /\ ~load'.read
 <2>1. load' = [dir |-> dir, cursor |-> cursor, read |-> FALSE,
                items |-> <<>>, before |-> FALSE, after |-> FALSE]
   BY <1>1 DEF H!NoLoad
 <2> QED BY ONLY <1>2, <2>1, dir \in {"before", "after"}
<1>6. /\ H!LoadInv' => H!IInv'
      /\ w'.items = w.items /\ w'.before = w.before /\ w'.after = w.after
      /\ H!First(w') = H!First(w) /\ H!End(w') = H!End(w)
  BY <1>1, <1>5, WindowMarked
<1>7. H!LoadInv' BY <1>1, <1>3, <1>4, <1>5, <1>6 DEF H!LoadInv
<1> QED BY <1>6, <1>7

\* A page that fails to arrive leaves the window as it was.
LEMMA WindowLoadFail ==
  ASSUME H!IInv, H!LoadFail
  PROVE  H!IInv'
<1>1. /\ load' = H!NoLoad /\ w' = [w EXCEPT !.error = TRUE]
      /\ store' = store /\ tail' = tail /\ turn' = turn /\ live' = live /\ view' = view
  BY DEF H!LoadFail
<1>2. load' \in [dir : {"none", "before", "after"}, cursor : Nat, read : BOOLEAN,
                 items : Seq(Nat), before : BOOLEAN, after : BOOLEAN]
  BY <1>1 DEF H!NoLoad
<1>3. H!LoadInv' BY <1>1 DEF H!LoadInv, H!NoLoad
<1> QED BY <1>1, <1>2, <1>3, WindowMarked

\* A page holds its stretch, and its two marks say whether there is more.
LEMMA PageHolds ==
  ASSUME NEW lo \in Nat, NEW hi \in Nat, NEW n \in Nat, lo <= hi + 1, NEW pg,
         pg = H!PageOf(lo, hi, n)
  PROVE  /\ pg.items = H!Rows(lo, hi) /\ pg.items \in Seq(Nat)
         /\ pg.before \in BOOLEAN /\ pg.after \in BOOLEAN
         /\ lo <= hi /\ lo > 1 => pg.before
         /\ lo <= hi /\ hi < n => pg.after
<1>1. PICK b \in BOOLEAN, c \in BOOLEAN :
         /\ H!PageOf(lo, hi, n) = [items |-> H!Rows(lo, hi), before |-> b, after |-> c]
         /\ b <=> lo <= hi /\ lo > 1
         /\ c <=> lo <= hi /\ hi < n
  BY PageShape
<1>2. pg.items = H!Rows(lo, hi) /\ pg.before = b /\ pg.after = c BY <1>1
<1>3. H!Rows(lo, hi) \in Seq(Nat) BY RowsShape
<1> QED BY <1>1, <1>2, <1>3

\* The page read is the stretch before or after the row it was asked for from, and
\* a page after it that is the last leaves only what is drawn live.
LEMMA WindowLoadRead ==
  ASSUME H!IInv, H!LoadRead
  PROVE  H!IInv'
<1> USE DEF H!IInv
<1> DEFINE pg == H!history_page(load.dir, load.cursor, store)
<1>1. /\ load.dir # "none" /\ ~load.read
      /\ load' = [load EXCEPT !.read = TRUE, !.items = pg.items,
                              !.before = pg.before, !.after = pg.after]
      /\ store' = store /\ w' = w /\ tail' = tail /\ turn' = turn /\ live' = live
      /\ view' = view
  BY DEF H!LoadRead
<1>2. /\ load.cursor \in Nat /\ store \in Nat /\ load.dir \in {"before", "after"}
      /\ load \in [dir : {"none", "before", "after"}, cursor : Nat, read : BOOLEAN,
                   items : Seq(Nat), before : BOOLEAN, after : BOOLEAN]
  BY <1>1 DEF H!TypeInv
<1>3. w.items # <<>> /\ 1 <= H!First(w) /\ H!First(w) <= H!End(w) /\ H!End(w) <= store
      /\ H!First(w) \in Nat /\ H!End(w) \in Nat
  BY <1>1, WindowNumbers DEF H!LoadInv, H!WindowInv, H!Contiguous, H!WindowFaithful
<1> HIDE DEF pg
<1>4. ASSUME pg.items \in Seq(Nat), pg.before \in BOOLEAN, pg.after \in BOOLEAN,
             load.dir = "before" => \E lo \in Nat :
                /\ lo = H!Larger(1, load.cursor - PageSize)
                /\ pg.items = H!Rows(lo, load.cursor - 1) /\ (lo > 1 => pg.before),
             load.dir = "after" => \E hi \in load.cursor .. store :
                /\ hi - load.cursor <= PageSize
                /\ pg.items = H!Rows(load.cursor + 1, hi)
                /\ ~pg.after /\ ~w.overtaken => \A r \in (hi + 1)..store : r \in live
      PROVE  H!IInv'
 <2>1. /\ load' \in [dir : {"none", "before", "after"}, cursor : Nat, read : BOOLEAN,
                     items : Seq(Nat), before : BOOLEAN, after : BOOLEAN]
       /\ load'.dir = load.dir /\ load'.cursor = load.cursor /\ load'.items = pg.items
       /\ load'.before = pg.before /\ load'.after = pg.after
   BY <1>1, <1>2, <1>4
 <2>2. H!TypeInv' BY <1>1, <2>1 DEF H!TypeInv
 <2>3. H!LoadInv'
  <3>1. w.items # <<>> /\ load'.dir # "none" BY <1>1, <1>3, <2>1
  <3>2. CASE load.dir = "before"
   <4>1. load.cursor = H!First(w) BY <3>2 DEF H!LoadInv
   <4>2. PICK lo \in Nat : /\ lo = H!Larger(1, load.cursor - PageSize)
                           /\ pg.items = H!Rows(lo, load.cursor - 1) /\ (lo > 1 => pg.before)
     BY <1>4, <3>2
   <4>3. /\ load'.items = H!Rows(lo, load'.cursor - 1) /\ (lo > 1 => load'.before)
         /\ load'.dir = "before" /\ lo = H!Larger(1, load'.cursor - PageSize)
         /\ load'.cursor = H!First(w')
     BY <1>1, <2>1, <3>2, <4>1, <4>2
   <4> QED BY <1>1, <3>1, <4>3 DEF H!LoadInv
  <3>3. CASE load.dir = "after"
   <4>1. load.cursor = H!End(w) /\ w.after BY <3>3 DEF H!LoadInv
   <4> QED BY <1>1, <1>4, <2>1, <3>1, <3>3, <4>1 DEF H!LoadInv
  <3> QED BY <1>2, <3>2, <3>3
 <2>4. H!LiveInv' /\ H!TailInv' /\ H!WindowInv' BY <1>1 DEF H!LiveInv, H!TailInv, H!WindowInv
 <2>5. H!WindowFaithful'
   BY <1>1 DEF H!WindowFaithful, H!Contiguous, H!EarlierReachable,
               H!LaterReachableUnlessOvertaken, H!LaterReachable
 <2> QED BY <2>2, <2>3, <2>4, <2>5
<1>5. CASE load.dir = "before"
 <2> DEFINE lo == H!Larger(1, load.cursor - PageSize)
            hi == load.cursor - 1
 <2>1. load.cursor = H!First(w) BY <1>5 DEF H!LoadInv
 <2>2. lo \in Nat /\ hi \in Nat /\ lo <= hi + 1 /\ (lo > 1 => lo <= hi)
   BY <1>2, <1>3, <2>1, WindowAssumption DEF H!Larger
 <2>3. pg = H!PageOf(lo, hi, store) BY <1>5 DEF H!history_page, pg
 <2>4. lo = H!Larger(1, load.cursor - PageSize) /\ hi = load.cursor - 1 OBVIOUS
 <2> HIDE DEF lo, hi
 <2>5. /\ pg.items = H!Rows(lo, hi) /\ pg.items \in Seq(Nat)
       /\ pg.before \in BOOLEAN /\ pg.after \in BOOLEAN
       /\ lo <= hi /\ lo > 1 => pg.before
   BY <1>2, <2>2, <2>3, PageHolds
 <2>6. lo > 1 => pg.before BY <2>2, <2>5
 <2> QED BY <1>4, <1>5, <2>2, <2>4, <2>5, <2>6
<1>6. CASE load.dir = "after"
 <2> DEFINE lo == load.cursor + 1
            hi == H!Smaller(store, load.cursor + PageSize)
 <2>1. load.cursor = H!End(w) BY <1>6 DEF H!LoadInv
 <2>2. /\ lo \in Nat /\ hi \in Nat /\ hi <= store /\ hi - load.cursor <= PageSize
       /\ hi \in load.cursor .. store /\ (hi < store => lo <= hi) /\ lo <= hi + 1
   BY <1>2, <1>3, <2>1, WindowAssumption DEF H!Smaller
 <2>3. pg = H!PageOf(lo, hi, store) BY <1>6 DEF H!history_page, pg
 <2>4. lo = load.cursor + 1 OBVIOUS
 <2> HIDE DEF lo, hi
 <2>5. /\ pg.items = H!Rows(lo, hi) /\ pg.items \in Seq(Nat)
       /\ pg.before \in BOOLEAN /\ pg.after \in BOOLEAN
       /\ lo <= hi /\ hi < store => pg.after
   BY <1>2, <2>2, <2>3, PageHolds
 <2>6. ~pg.after => \A r \in (hi + 1)..store : r \in live BY <1>2, <2>2, <2>5
 <2> QED BY <1>4, <1>6, <2>2, <2>4, <2>5, <2>6
<1> QED BY <1>2, <1>5, <1>6

\* A page joins the window it was asked for from.
LEMMA WindowLoadApply ==
  ASSUME H!IInv, H!LoadApply
  PROVE  H!IInv'
<1> USE DEF H!IInv
<1>1. /\ load.read /\ load' = H!NoLoad
      /\ w' = (IF load.dir = "before" THEN H!earlier(w, load) ELSE H!later(w, load))
      /\ store' = store /\ tail' = tail /\ turn' = turn /\ live' = live /\ view' = view
  BY DEF H!LoadApply
<1> DEFINE a == H!First(w)  b == H!End(w)
<1>2. /\ load.dir \in {"before", "after"} /\ load.cursor \in Nat /\ store \in Nat
      /\ load.before \in BOOLEAN /\ load.after \in BOOLEAN
  BY <1>1 DEF H!TypeInv, H!LoadInv
<1>3. /\ w \in WindowType /\ a \in Nat /\ b \in Nat /\ 1 <= a /\ a <= b /\ b <= store
      /\ w.items = H!Rows(a, b) /\ Len(w.items) <= WindowSize
  BY <1>1, <1>2, WindowNumbers DEF H!LoadInv, H!WindowInv, H!Contiguous, H!WindowFaithful
<1>4. w.overtaken \/ w.after \/ \A r \in (b + 1)..store : r \in live
  BY DEF H!WindowFaithful, H!LaterReachableUnlessOvertaken, H!LaterReachable
<1>5. a > 1 => w.before BY DEF H!WindowFaithful, H!EarlierReachable
<1> HIDE DEF a, b
<1>6. ASSUME NEW lo \in Nat, NEW hi \in Nat, 1 <= lo, lo <= hi, hi <= store,
             w' \in WindowType, w'.items = H!Rows(lo, hi), Len(w'.items) <= WindowSize,
             lo > 1 => w'.before,
             w'.overtaken \/ w'.after \/ \A r \in (hi + 1)..store : r \in live
      PROVE  H!IInv'
 <2>1. w'.items # <<>> /\ H!First(w') = lo /\ H!End(w') = hi BY <1>6, RowsEnds
 <2>2. H!TypeInv' BY <1>1, <1>6 DEF H!TypeInv, WindowType, H!NoLoad
 <2>3. H!LiveInv' /\ H!TailInv' /\ H!LoadInv'
   BY <1>1 DEF H!LiveInv, H!TailInv, H!LoadInv, H!NoLoad
 <2>4. H!WindowInv' /\ H!Contiguous' /\ H!EarlierReachable'
   BY <1>1, <1>6, <2>1 DEF H!WindowInv, H!Contiguous, H!EarlierReachable
 <2>5. H!LaterReachableUnlessOvertaken'
   BY <1>1, <1>6, <2>1 DEF H!LaterReachableUnlessOvertaken, H!LaterReachable
 <2> QED BY <2>2, <2>3, <2>4, <2>5 DEF H!WindowFaithful
<1>7. CASE load.dir = "before"
 <2> DEFINE lo == H!Larger(1, load.cursor - PageSize)
 <2>1. /\ load.cursor = a /\ load.items = H!Rows(lo, load.cursor - 1)
       /\ lo > 1 => load.before
   BY <1>1, <1>7 DEF H!LoadInv, a
 <2>2. lo \in Nat /\ 1 <= lo /\ lo <= a BY <1>3, <2>1, WindowAssumption DEF H!Larger
 <2> HIDE DEF lo
 <2>3. w' = H!earlier(w, load) /\ load.items = H!Rows(lo, a - 1) BY <1>1, <1>7, <2>1
 <2>4. PICK e \in Nat :
          /\ lo <= e /\ e <= b
          /\ w' \in WindowType /\ w'.items = H!Rows(lo, e) /\ Len(w'.items) <= WindowSize
          /\ w'.before = load.before /\ w'.overtaken = w.overtaken
          /\ w'.after \/ (e = b /\ ~w.after)
   BY <1>2, <1>3, <2>2, <2>3, EarlierShape
 <2>5. w'.overtaken \/ w'.after \/ \A r \in (e + 1)..store : r \in live BY <1>4, <2>4
 <2>6. e <= store /\ (lo > 1 => w'.before) BY <1>2, <1>3, <2>1, <2>4
 <2> QED BY <1>6, <2>2, <2>4, <2>5, <2>6
<1>8. CASE load.dir = "after"
 <2>1. /\ load.cursor = b
       /\ \E hi \in load.cursor .. store :
             /\ load.items = H!Rows(load.cursor + 1, hi)
             /\ ~load.after /\ ~w.overtaken => \A r \in (hi + 1)..store : r \in live
   BY <1>1, <1>8 DEF H!LoadInv, b
 <2>2. PICK hi \in b .. store :
          /\ load.items = H!Rows(b + 1, hi)
          /\ ~load.after /\ ~w.overtaken => \A r \in (hi + 1)..store : r \in live
   BY <2>1
 <2>3. hi \in Nat /\ b <= hi /\ hi <= store BY <1>2, <1>3, <2>2
 <2>4. w' = H!later(w, load) BY <1>1, <1>8
 <2>5. PICK f \in Nat :
          /\ a <= f /\ f <= hi
          /\ w' \in WindowType /\ w'.items = H!Rows(f, hi) /\ Len(w'.items) <= WindowSize
          /\ w'.after = load.after /\ w'.overtaken = w.overtaken
          /\ w'.before \/ (f = a /\ ~w.before)
  <3>1. load.items = H!Rows(b + 1, hi) /\ load.after \in BOOLEAN BY <1>2, <2>2
  <3> QED
   <4>1. \E f \in Nat :
            /\ a <= f /\ f <= hi
            /\ H!later(w, load) \in WindowType /\ H!later(w, load).items = H!Rows(f, hi)
            /\ Len(H!later(w, load).items) <= WindowSize
            /\ H!later(w, load).after = load.after
            /\ H!later(w, load).overtaken = w.overtaken
            /\ H!later(w, load).before \/ (f = a /\ ~w.before)
     BY ONLY <1>3, <2>3, <3>1, LaterShape
   <4> QED BY ONLY <2>4, <4>1
 <2>6. w'.overtaken \/ w'.after \/ \A r \in (hi + 1)..store : r \in live BY <2>2, <2>5
 <2>7. 1 <= f /\ (f > 1 => w'.before) BY <1>3, <1>5, <2>5
 <2> QED BY <1>6, <2>3, <2>5, <2>6, <2>7
<1> QED BY <1>2, <1>7, <1>8

LEMMA WindowStep ==
  ASSUME H!IInv, H!Next
  PROVE  H!IInv'
BY WindowTurnStart, WindowStored, WindowTurnEnd, WindowTailRead, WindowTailApply,
   WindowReopen, WindowScroll, WindowLoad, WindowLoadRead, WindowLoadFail, WindowLoadApply
   DEF H!Next

LEMMA WindowStutter ==
  ASSUME H!IInv, UNCHANGED <<store, w, load, tail, turn, live, view>>
  PROVE  H!IInv'
BY DEF H!IInv, H!TypeInv, H!LiveInv, H!WindowInv, H!LoadInv, H!TailInv, H!WindowFaithful,
       H!Contiguous, H!EarlierReachable, H!LaterReachableUnlessOvertaken, H!LaterReachable

\* The window is a gapless stretch of the stored rows whose cursors reach all the
\* others, for every size of page and window (app.js, 1800-1966).
THEOREM WindowHolds == Spec => []WindowFaithful
<1> DEFINE I == part = "window" => H!IInv
<1>1. Init => I BY WindowInit DEF Init
<1>2. I /\ [Next]_vars => I'
 <2>1. CASE part = "window" /\ Next BY <2>1, WindowStep DEF Next
 <2>2. CASE part # "window" /\ Next BY <2>2 DEF Next
 <2>3. CASE UNCHANGED vars BY <2>3, WindowStutter DEF vars, OfWindow
 <2> QED BY <2>1, <2>2, <2>3
<1>3. I => WindowFaithful BY DEF WindowFaithful, H!IInv
<1> QED BY <1>1, <1>2, <1>3, PTL DEF Spec

------------------------
\* Rendering

\* What a parse inserts has fetched nothing, and parks the sources it could fetch.
LEMMA FreshShape ==
  ASSUME NEW it \in R!Items
  PROVE  /\ R!fresh(it) \in Node /\ R!fresh(it).fetched = 0
         /\ R!fresh(it).is # "figure"
         /\ R!fresh(it).is \in {"image", "video"} => R!fresh(it).src = "parked"
<1>1. /\ R!renderMD(it) \in [is : {"source", "text", "image", "video", "broken", "link"},
                             parked : BOOLEAN]
      /\ R!renderMD(it).is \in {"image", "video"} => R!renderMD(it).parked
  BY DEF R!renderMD, R!Items, R!Shapes, R!Paths, R!Media
<1> DEFINE r == R!renderMD(it)
<1>2. R!fresh(it) = [is |-> r.is, src |-> IF r.parked THEN "parked" ELSE "none", fetched |-> 0]
  BY DEF R!fresh
<1>3. /\ r.is \in {"source", "text", "image", "video", "broken", "link"} /\ r.parked \in BOOLEAN
      /\ r.is \in {"image", "video"} => r.parked
  BY <1>1
<1> HIDE DEF r
<1> QED BY <1>2, <1>3 DEF Node

\* A node that is fetched stays what it is.
LEMMA NodeFetched ==
  ASSUME NEW n \in Node, n.fetched = 0, NEW m, m = [n EXCEPT !.src = "set", !.fetched = @ + 1]
  PROVE  m \in Node /\ m.is = n.is /\ m.src = "set" /\ m.fetched = 1
<1>1. m.is = n.is /\ m.src = "set" /\ m.fetched = 1 BY DEF Node
<1>2. m = [n EXCEPT !.src = "set", !.fetched = 1] BY DEF Node
<1>3. m = [is |-> n.is, src |-> "set", fetched |-> 1] BY ONLY n \in Node, <1>2 DEF Node
<1>4. n.is \in {"source", "figure", "text", "image", "video", "broken", "link"} /\ 1 \in Nat
  BY DEF Node
<1>5. m \in Node BY ONLY <1>3, <1>4 DEF Node
<1> QED BY <1>1, <1>5

\* The last parse fetches its pictures.
LEMMA ActiveShape ==
  ASSUME NEW it \in R!Items
  PROVE  LET n == R!activate(R!fresh(it))
         IN  /\ n \in Node /\ n.is = R!fresh(it).is
             /\ n.is \notin {"image", "video"} => n.fetched = 0
             /\ n.is = "image" => n.fetched = 1
             /\ n.is = "video" => n.src = "parked" /\ n.fetched = 0
<1> DEFINE f == R!fresh(it)  n == R!activate(f)
<1>1. /\ f \in Node /\ f.fetched = 0
      /\ f.is \in {"image", "video"} => f.src = "parked"
  BY FreshShape
<1> HIDE DEF f
<1>2. CASE f.src = "parked" /\ f.is = "image"
 <2>1. n = [f EXCEPT !.src = "set", !.fetched = @ + 1] BY <1>2 DEF R!activate
 <2> HIDE DEF n
 <2>2. n \in Node /\ n.is = "image" /\ n.fetched = 1 BY <1>1, <1>2, <2>1, NodeFetched
 <2> QED BY <1>2, <2>2 DEF f, n
<1>3. CASE ~(f.src = "parked" /\ f.is = "image")
 <2>1. n = f BY <1>3 DEF R!activate
 <2> HIDE DEF n
 <2> QED BY <1>1, <1>3, <2>1 DEF f, n
<1> QED BY <1>2, <1>3

\* One node per item, in their order.
LEMMA NodesShape ==
  ASSUME NEW k \in Nat, NEW S, NEW ns \in [1 .. k -> S]
  PROVE  ns \in Seq(S) /\ Len(ns) = k /\ DOMAIN ns = 1 .. k
OBVIOUS

LEMMA NodeTyped ==
  ASSUME R!TypeInv, NEW i \in DOMAIN nodes
  PROVE  nodes[i] \in Node
<1>1. nodes \in Seq(Node) BY DEF R!TypeInv, Node
<1> QED BY <1>1

LEMMA EmptyIsSeq == ASSUME NEW S PROVE <<>> \in Seq(S) /\ Len(<<>>) = 0 /\ DOMAIN <<>> = {}
OBVIOUS

LEMMA RenderingInit == R!Init => R!IInv
<1> SUFFICES ASSUME R!Init PROVE R!IInv OBVIOUS
<1>1. /\ answer = <<>> /\ final = FALSE /\ nodes = <<>> /\ bundle = "none"
      /\ theme \in R!Themes /\ config = "none" /\ drawing = R!Idle /\ redraw = {}
      /\ crossed = {}
  BY DEF R!Init
<1>2. R!TypeInv BY <1>1, EmptyIsSeq DEF R!TypeInv
<1>3. DOMAIN nodes = {} BY <1>1, EmptyIsSeq
<1>4. R!NodeInv /\ R!DrawingInv /\ R!ThemeInv
  BY <1>1, <1>3 DEF R!NodeInv, R!DrawingInv, R!ThemeInv, R!Figures
<1> QED BY <1>2, <1>4 DEF R!IInv

\* A frame inserts the answer anew.
LEMMA RenderingFrame ==
  ASSUME R!IInv, NEW it \in R!Items, R!Frame(it)
  PROVE  R!IInv'
<1> USE DEF R!IInv
<1>1. /\ ~final /\ answer' = Append(answer, it)
      /\ nodes' = [i \in 1..Len(answer') |-> R!fresh(answer'[i])]
      /\ final' = final /\ bundle' = bundle /\ theme' = theme /\ config' = config
      /\ drawing' = drawing /\ redraw' = redraw /\ crossed' = crossed
  BY DEF R!Frame
<1>2. answer' \in Seq(R!Items) /\ Len(answer') \in Nat BY <1>1 DEF R!TypeInv
<1>3. \A i \in 1..Len(answer') : answer'[i] \in R!Items BY <1>2
<1>4. \A i \in 1..Len(answer') :
         /\ nodes'[i] \in Node /\ nodes'[i].fetched = 0 /\ nodes'[i].is # "figure"
         /\ nodes'[i].is \in {"image", "video"} => nodes'[i].src = "parked"
  BY <1>1, <1>3, FreshShape
<1>5. nodes' \in [1..Len(answer') -> Node] BY <1>1, <1>4
<1>6. nodes' \in Seq(Node) /\ Len(nodes') = Len(answer') /\ DOMAIN nodes' = 1..Len(answer')
  BY <1>2, <1>5, NodesShape
<1>7. R!TypeInv' BY <1>1, <1>2, <1>6 DEF R!TypeInv, Node
<1>8. R!NodeInv' BY <1>1, <1>4, <1>6 DEF R!NodeInv
<1>9. R!Figures = {} /\ R!Figures' = {} /\ drawing = R!Idle
  BY <1>1, <1>4, <1>6 DEF R!Figures, R!NodeInv, R!DrawingInv
<1>10. R!DrawingInv' /\ R!ThemeInv' BY <1>1, <1>9 DEF R!DrawingInv, R!ThemeInv, R!Idle
<1> QED BY <1>7, <1>8, <1>10

\* The last parse of a segment activates what it inserts.
LEMMA RenderingFinal ==
  ASSUME R!IInv, R!Final
  PROVE  R!IInv'
<1> USE DEF R!IInv
<1>1. /\ ~final /\ final' /\ final' \in BOOLEAN
      /\ nodes' = [i \in DOMAIN answer |-> R!activate(R!fresh(answer[i]))]
      /\ bundle' = bundle \/ (bundle = "none" /\ bundle' = "loading")
      /\ answer' = answer /\ theme' = theme /\ config' = config
      /\ drawing' = drawing /\ redraw' = redraw /\ crossed' = crossed
  BY DEF R!Final, R!loadMermaid
<1>2. answer \in Seq(R!Items) /\ Len(answer) \in Nat /\ DOMAIN answer = 1..Len(answer)
  BY DEF R!TypeInv
<1>3. \A i \in 1..Len(answer) : answer[i] \in R!Items BY <1>2
<1>4. ASSUME NEW i \in 1..Len(answer)
      PROVE  /\ nodes'[i] \in Node /\ nodes'[i].is # "figure"
             /\ nodes'[i].is \notin {"image", "video"} => nodes'[i].fetched = 0
             /\ nodes'[i].is = "image" => nodes'[i].fetched = 1
             /\ nodes'[i].is = "video" => nodes'[i].src = "parked" /\ nodes'[i].fetched = 0
 <2>1. nodes'[i] = R!activate(R!fresh(answer[i])) BY <1>1, <1>2
 <2> QED BY <1>3, <2>1, FreshShape, ActiveShape
<1>5. nodes' \in [1..Len(answer) -> Node]
 <2>1. \A i \in 1..Len(answer) : R!activate(R!fresh(answer[i])) \in Node BY <1>3, ActiveShape
 <2> QED BY <1>1, <1>2, <2>1
<1>6. nodes' \in Seq(Node) /\ Len(nodes') = Len(answer') /\ DOMAIN nodes' = 1..Len(answer)
  BY <1>1, <1>2, <1>5, NodesShape
<1>7. R!TypeInv' BY <1>1, <1>2, <1>6 DEF R!TypeInv, Node
<1>8. R!NodeInv' BY <1>1, <1>4, <1>6 DEF R!NodeInv
<1>9. R!Figures = {} /\ R!Figures' = {} /\ drawing = R!Idle
  BY <1>1, <1>4, <1>6 DEF R!Figures, R!NodeInv, R!DrawingInv
<1>10. R!DrawingInv' /\ R!ThemeInv' BY <1>1, <1>9 DEF R!DrawingInv, R!ThemeInv, R!Idle
<1> QED BY <1>7, <1>8, <1>10

\* Mermaid is initialised with the theme of the page.
LEMMA RenderingBundle ==
  ASSUME R!IInv, R!BundleLoaded
  PROVE  R!IInv'
<1> USE DEF R!IInv
<1>1. /\ bundle = "loading" /\ config' = theme
      /\ answer' = answer /\ final' = final /\ nodes' = nodes /\ theme' = theme
      /\ drawing' = drawing /\ redraw' = redraw /\ crossed' = crossed
  BY DEF R!BundleLoaded
<1>2. R!TypeInv' BY <1>1 DEF R!TypeInv
<1>3. R!NodeInv' BY <1>1 DEF R!NodeInv
<1>4. R!DrawingInv' /\ R!ThemeInv' BY <1>1 DEF R!DrawingInv, R!ThemeInv, R!TypeInv, R!Figures
<1> QED BY <1>2, <1>3, <1>4

\* One node of a closed segment changes, and stays what it is.
LEMMA NodeChanged ==
  ASSUME R!TypeInv, NEW i \in DOMAIN nodes, NEW n \in Node, nodes' = [nodes EXCEPT ![i] = n],
         answer' = answer, final' = final, theme' = theme, config' = config
  PROVE  /\ R!TypeInv' /\ nodes \in Seq(Node) /\ nodes' \in Seq(Node)
         /\ DOMAIN nodes' = DOMAIN nodes /\ nodes'[i] = n
         /\ \A k \in DOMAIN nodes : k # i => nodes'[k] = nodes[k]
<1>1. nodes \in Seq(Node) /\ Len(nodes) = Len(answer) /\ DOMAIN nodes = 1..Len(nodes)
  BY DEF R!TypeInv, Node
<1>2. /\ nodes' \in Seq(Node) /\ Len(nodes') = Len(nodes) /\ DOMAIN nodes' = DOMAIN nodes
      /\ nodes'[i] = n /\ \A k \in DOMAIN nodes : k # i => nodes'[k] = nodes[k]
  BY <1>1
<1>3. R!TypeInv' BY <1>1, <1>2 DEF R!TypeInv, Node
<1> QED BY <1>1, <1>2, <1>3

\* A film is fetched when it is seen, once.
LEMMA RenderingSeen ==
  ASSUME R!IInv, NEW i \in 1..MaxItems, R!Seen(i)
  PROVE  R!IInv'
<1> USE DEF R!IInv
<1> DEFINE n == [nodes[i] EXCEPT !.src = "set", !.fetched = @ + 1]
<1>1. /\ final /\ i \in DOMAIN nodes /\ nodes[i].is = "video" /\ nodes[i].src = "parked"
      /\ nodes' = [nodes EXCEPT ![i].src = "set", ![i].fetched = @ + 1]
      /\ answer' = answer /\ final' = final /\ bundle' = bundle /\ theme' = theme
      /\ config' = config /\ drawing' = drawing /\ redraw' = redraw /\ crossed' = crossed
  BY DEF R!Seen
<1>2. nodes[i] \in Node /\ nodes[i].fetched = 0 BY <1>1, NodeTyped DEF R!NodeInv
<1>3. n \in Node /\ n.is = "video" /\ n.src = "set" /\ n.fetched = 1 BY <1>1, <1>2 DEF Node
<1>4. nodes' = [nodes EXCEPT ![i] = n] BY <1>1
<1> HIDE DEF n
<1>5. /\ R!TypeInv' /\ DOMAIN nodes' = DOMAIN nodes /\ nodes'[i] = n
      /\ \A k \in DOMAIN nodes : k # i => nodes'[k] = nodes[k]
  BY <1>1, <1>3, <1>4, NodeChanged
<1>6. R!NodeInv' BY <1>1, <1>3, <1>5 DEF R!NodeInv
<1>7. \A k \in DOMAIN nodes : nodes'[k].is = nodes[k].is BY <1>1, <1>3, <1>5
<1>8. R!DrawingInv' BY <1>1, <1>5, <1>7 DEF R!DrawingInv
<1>9. R!Figures' = R!Figures /\ i \notin R!Figures BY <1>1, <1>5, <1>7 DEF R!Figures
<1>10. \A k \in R!Figures : nodes'[k] = nodes[k] BY <1>5, <1>9 DEF R!Figures
<1>11. R!ThemeInv' BY <1>1, <1>9, <1>10 DEF R!ThemeInv
<1> QED BY <1>5, <1>6, <1>8, <1>11

\* A diagram is drawn in the theme mermaid knows, or noted as crossed.
LEMMA RenderingDraw ==
  ASSUME R!IInv, NEW i \in 1..MaxItems, R!Draw(i)
  PROVE  R!IInv'
<1> USE DEF R!IInv
<1>1. /\ final /\ bundle = "there" /\ i \in DOMAIN nodes /\ nodes[i].is = "source"
      /\ drawing' = [i |-> i, theme |-> config]
      /\ crossed' = (IF config = theme THEN crossed ELSE crossed \cup {i})
      /\ answer' = answer /\ final' = final /\ nodes' = nodes /\ bundle' = bundle
      /\ theme' = theme /\ config' = config /\ redraw' = redraw
  BY DEF R!Draw, R!Undrawn, R!Diagrams
<1>2. R!TypeInv' /\ R!NodeInv' BY <1>1 DEF R!TypeInv, R!NodeInv
<1>3. R!DrawingInv' BY <1>1 DEF R!DrawingInv
<1>4. R!ThemeInv' BY <1>1 DEF R!ThemeInv, R!Figures
<1> QED BY <1>2, <1>3, <1>4

\* A figure takes the place of its source in the theme it was drawn in.
LEMMA RenderingDrawn ==
  ASSUME R!IInv, R!Drawn
  PROVE  R!IInv'
<1> USE DEF R!IInv
<1> DEFINE i == drawing.i
           good == answer[drawing.i].path = "good"
           n == IF good THEN [nodes[i] EXCEPT !.is = "figure", !.src = drawing.theme]
                ELSE [nodes[i] EXCEPT !.src = "note"]
<1>1. /\ drawing # R!Idle /\ drawing' = R!Idle
      /\ nodes' = (IF good
                   THEN [nodes EXCEPT ![i].is = "figure", ![i].src = drawing.theme]
                   ELSE [nodes EXCEPT ![i].src = "note"])
      /\ answer' = answer /\ final' = final /\ bundle' = bundle /\ theme' = theme
      /\ config' = config /\ redraw' = redraw /\ crossed' = crossed
  BY DEF R!Drawn
<1>2. /\ final /\ bundle = "there" /\ i \in DOMAIN nodes /\ nodes[i].is = "source"
      /\ drawing.theme \in R!Themes
      /\ i \notin crossed => drawing.theme = theme
  BY <1>1 DEF R!DrawingInv
<1>3. nodes[i] \in Node /\ nodes[i].fetched = 0 BY <1>2, NodeTyped DEF R!NodeInv
<1>4. /\ n \in Node /\ n.fetched = 0 /\ n.is \in {"source", "figure"}
      /\ n.is = "figure" => n.src = drawing.theme
 <2>1. CASE good
  <3>1. n = [nodes[i] EXCEPT !.is = "figure", !.src = drawing.theme] BY <2>1
  <3> HIDE DEF n
  <3> QED BY <1>2, <1>3, <3>1 DEF Node
 <2>2. CASE ~good
  <3>1. n = [nodes[i] EXCEPT !.src = "note"] BY <2>2
  <3> HIDE DEF n
  <3> QED BY <1>2, <1>3, <3>1 DEF Node
 <2> QED BY <2>1, <2>2
<1>5. nodes' = [nodes EXCEPT ![i] = n]
 <2>1. CASE good BY <1>1, <2>1
 <2>2. CASE ~good BY <1>1, <2>2
 <2> QED BY <2>1, <2>2
<1> HIDE DEF n, good
<1>6. /\ R!TypeInv' /\ DOMAIN nodes' = DOMAIN nodes /\ nodes'[i] = n
      /\ \A k \in DOMAIN nodes : k # i => nodes'[k] = nodes[k]
  BY <1>1, <1>2, <1>4, <1>5, NodeChanged
<1>7. R!NodeInv' BY <1>1, <1>2, <1>4, <1>6 DEF R!NodeInv
<1>8. R!DrawingInv' BY <1>1 DEF R!DrawingInv
<1>9. /\ R!Figures' \subseteq R!Figures \cup {i} /\ R!Figures \subseteq R!Figures'
      /\ i \notin R!Figures
  BY <1>2, <1>6 DEF R!Figures
<1>10. \A k \in R!Figures' : k # i => k \in R!Figures /\ nodes'[k] = nodes[k]
  BY <1>6, <1>9 DEF R!Figures
<1>11. i \in R!Figures' => nodes'[i].src = drawing.theme BY <1>4, <1>6 DEF R!Figures
<1>12. R!ThemeInv' BY <1>1, <1>2, <1>9, <1>10, <1>11 DEF R!ThemeInv
<1> QED BY <1>6, <1>7, <1>8, <1>12

\* A change of theme puts every figure up for drawing, or there is none.
LEMMA RenderingThemed ==
  ASSUME R!IInv, R!Themed
  PROVE  R!IInv'
<1> USE DEF R!IInv
<1>1. /\ theme' \in R!Themes
      /\ IF bundle = "there" /\ R!Figures # {}
         THEN redraw' = R!Figures /\ config' = theme' ELSE redraw' = redraw /\ config' = config
      /\ crossed' = (IF drawing = R!Idle THEN crossed ELSE crossed \cup {drawing.i})
      /\ answer' = answer /\ final' = final /\ nodes' = nodes /\ bundle' = bundle
      /\ drawing' = drawing
  BY DEF R!Themed
<1>2. R!TypeInv' /\ R!NodeInv' BY <1>1 DEF R!TypeInv, R!NodeInv
<1>3. R!DrawingInv' BY <1>1 DEF R!DrawingInv
<1>4. R!Figures' = R!Figures BY <1>1 DEF R!Figures
<1>5. R!Figures # {} => bundle = "there" BY DEF R!Figures, R!NodeInv
<1>6. R!ThemeInv' BY <1>1, <1>4, <1>5 DEF R!ThemeInv
<1> QED BY <1>2, <1>3, <1>6

\* A figure is drawn again in the theme mermaid was told.
LEMMA RenderingRedrawn ==
  ASSUME R!IInv, NEW i \in 1..MaxItems, R!Redrawn(i)
  PROVE  R!IInv'
<1> USE DEF R!IInv
<1> DEFINE n == [nodes[i] EXCEPT !.src = config]
<1>1. /\ i \in redraw /\ redraw' = redraw \ {i}
      /\ nodes' = [nodes EXCEPT ![i].src = config]
      /\ answer' = answer /\ final' = final /\ bundle' = bundle /\ theme' = theme
      /\ config' = config /\ drawing' = drawing /\ crossed' = crossed
  BY DEF R!Redrawn
<1>2. /\ i \in R!Figures /\ i \in DOMAIN nodes /\ nodes[i].is = "figure" /\ config = theme
      /\ theme \in R!Themes
  BY <1>1 DEF R!ThemeInv, R!Figures, R!TypeInv
<1>3. nodes[i] \in Node /\ nodes[i].fetched = 0 BY <1>2, NodeTyped DEF R!NodeInv
<1>4. n \in Node /\ n.is = "figure" /\ n.src = theme /\ n.fetched = 0 BY <1>2, <1>3 DEF Node
<1>5. nodes' = [nodes EXCEPT ![i] = n] BY <1>1
<1> HIDE DEF n
<1>6. /\ R!TypeInv' /\ DOMAIN nodes' = DOMAIN nodes /\ nodes'[i] = n
      /\ \A k \in DOMAIN nodes : k # i => nodes'[k] = nodes[k]
  BY <1>1, <1>2, <1>4, <1>5, NodeChanged
<1>7. R!NodeInv' BY <1>1, <1>2, <1>4, <1>6 DEF R!NodeInv
<1>8. \A k \in DOMAIN nodes : nodes'[k].is = nodes[k].is BY <1>2, <1>4, <1>6
<1>9. R!DrawingInv' BY <1>1, <1>6, <1>8 DEF R!DrawingInv
<1>10. R!Figures' = R!Figures BY <1>6, <1>8 DEF R!Figures
<1>11. \A k \in R!Figures : k # i => nodes'[k] = nodes[k] BY <1>6 DEF R!Figures
<1>12. R!ThemeInv' BY <1>1, <1>2, <1>4, <1>6, <1>10, <1>11 DEF R!ThemeInv
<1> QED BY <1>6, <1>7, <1>9, <1>12

\* Another conversation starts with an empty page.
LEMMA RenderingLeave ==
  ASSUME R!IInv, R!Leave
  PROVE  R!IInv'
<1> USE DEF R!IInv
<1>1. /\ answer' = <<>> /\ final' = FALSE /\ nodes' = <<>>
      /\ drawing' = R!Idle /\ redraw' = {} /\ crossed' = {}
      /\ bundle' = bundle /\ theme' = theme /\ config' = config
  BY DEF R!Leave
<1>2. R!TypeInv' BY <1>1, EmptyIsSeq DEF R!TypeInv
<1>3. R!NodeInv' /\ R!Figures' = {} BY <1>1, EmptyIsSeq DEF R!NodeInv, R!Figures
<1>4. R!DrawingInv' /\ R!ThemeInv' BY <1>1, <1>3 DEF R!DrawingInv, R!ThemeInv
<1> QED BY <1>2, <1>3, <1>4

LEMMA RenderingStep ==
  ASSUME R!IInv, R!Next
  PROVE  R!IInv'
BY RenderingFinal, RenderingBundle, RenderingDrawn, RenderingThemed, RenderingLeave,
   RenderingFrame, RenderingSeen, RenderingDraw, RenderingRedrawn
   DEF R!Next

LEMMA RenderingStutter ==
  ASSUME R!IInv,
         UNCHANGED <<answer, final, nodes, bundle, theme, config, drawing, redraw, crossed>>
  PROVE  R!IInv'
BY DEF R!IInv, R!TypeInv, R!NodeInv, R!DrawingInv, R!ThemeInv, R!Figures

\* Media are fetched once and figures wear the page's theme, for answers of every
\* length (app.js, 117-560).
THEOREM RenderingHolds == Spec => []RenderingFaithful
<1> DEFINE I == part = "rendering" => R!IInv
<1>1. Init => I BY RenderingInit DEF Init
<1>2. I /\ [Next]_vars => I'
 <2>1. CASE part = "rendering" /\ Next BY <2>1, RenderingStep DEF Next
 <2>2. CASE part # "rendering" /\ Next BY <2>2 DEF Next
 <2>3. CASE UNCHANGED vars BY <2>3, RenderingStutter DEF vars, OfRendering
 <2> QED BY <2>1, <2>2, <2>3
<1>3. R!IInv => R!FetchedOnce
 <2> SUFFICES ASSUME R!IInv, NEW i \in DOMAIN nodes
              PROVE  /\ nodes[i].fetched <= 1
                     /\ ~final => nodes[i].fetched = 0
                     /\ final /\ nodes[i].is = "image" => nodes[i].fetched = 1
   BY DEF R!FetchedOnce
 <2>1. final \in BOOLEAN BY DEF R!IInv, R!TypeInv
 <2> QED BY <2>1 DEF R!IInv, R!NodeInv
<1>4. R!IInv => R!FiguresThemed BY DEF R!IInv, R!ThemeInv, R!FiguresThemed
<1>5. I => RenderingFaithful BY <1>3, <1>4 DEF RenderingFaithful, R!RenderingFaithful
<1> QED BY <1>1, <1>2, <1>5, PTL DEF Spec

------------------------
\* Composer

LEMMA ComposerHalves == C!IInv <=> Drafts /\ Pictures /\ view \in Shown
BY DEF C!IInv, C!TypeInv, C!ComposerFaithful, Drafts, Pictures, Post, Shown, FileFates

LEMMA ComposerWhole ==
  ASSUME Drafts', Pictures', view' \in Shown
  PROVE  C!IInv'
BY DEF C!IInv, C!TypeInv, C!ComposerFaithful, Drafts, Pictures, Post, Shown, FileFates

\* No draft and no picture has the number of the empty box and of the empty tray.
LEMMA NoneIsNone == C!None \notin C!Texts /\ C!None \notin C!Files
BY ComposerAssumption DEF C!None, C!Texts, C!Files

LEMMA ComposerInit == C!Init => C!IInv
<1> SUFFICES ASSUME C!Init PROVE C!IInv OBVIOUS
<1> USE DEF C!Init
<1>1. Drafts BY NoneIsNone DEF Drafts, C!SentOnce, C!NeverEaten, C!Fates
<1>2. Pictures BY NoneIsNone DEF Pictures, C!PictureKept, C!TrayTrue, C!NoMedia, FileFates
<1>3. view \in Shown BY DEF Shown
<1> QED BY <1>1, <1>2, <1>3, ComposerHalves

LEMMA DraftsKept ==
  ASSUME Drafts, box' = box, posts' = posts, text' = text
  PROVE  Drafts'
BY DEF Drafts, C!SentOnce, C!NeverEaten

LEMMA PicturesKept ==
  ASSUME Pictures, media' = media, uploads' = uploads, file' = file
  PROVE  Pictures'
BY DEF Pictures, C!PictureKept, C!TrayTrue

\* A send that is over leaves its draft a fate other than being on its way.
LEMMA DraftOver ==
  ASSUME Drafts, NEW p \in posts, posts' = posts \ {p},
         NEW fate \in C!Fates \ {"box", "out"}, C!Became(p.text, fate), box' = box
  PROVE  Drafts'
<1>1. p.text \in C!Texts \cup {C!None} BY DEF Drafts, Post
<1>2. posts' \subseteq Post /\ C!SentOnce' BY DEF Drafts, C!SentOnce
<1>3. CASE p.text = C!None
 <2>1. text' = text BY <1>3 DEF C!Became
 <2>2. \A t \in C!Texts : (\E q \in posts' : q.text = t) <=> (\E q \in posts : q.text = t)
   BY <1>3, NoneIsNone
 <2>3. C!NeverEaten' BY <2>1, <2>2 DEF Drafts, C!NeverEaten
 <2> QED BY <1>2, <2>1, <2>3 DEF Drafts
<1>4. CASE p.text # C!None
 <2>1. text' = [text EXCEPT ![p.text] = fate] /\ p.text \in C!Texts BY <1>1, <1>4 DEF C!Became
 <2>2. text' \in [C!Texts -> C!Fates] /\ text'[p.text] = fate
       /\ \A t \in C!Texts : t # p.text => text'[t] = text[t]
   BY <2>1 DEF Drafts
 <2>3. text[p.text] = "out" /\ box # p.text BY <2>1 DEF Drafts, C!NeverEaten
 <2>4. \A t \in C!Texts : t # p.text =>
          ((\E q \in posts' : q.text = t) <=> (\E q \in posts : q.text = t))
   OBVIOUS
 <2>5. ~\E q \in posts' : q.text = p.text BY <1>4 DEF Drafts, C!SentOnce
 <2>6. C!NeverEaten'
  <3>1. ASSUME NEW t \in C!Texts, t = p.text
        PROVE  Accounted(text', box', posts', t)
    BY <2>2, <2>3, <2>5, <3>1
  <3>2. ASSUME NEW t \in C!Texts, t # p.text
        PROVE  Accounted(text', box', posts', t)
    BY <2>2, <2>4, <3>2 DEF Drafts, C!NeverEaten
  <3> QED BY <3>1, <3>2 DEF C!NeverEaten, C!Fates
 <2> QED BY <1>2, <2>2, <2>6 DEF Drafts
<1> QED BY <1>3, <1>4

\* The draft of a send that failed comes back to an empty box, or is displaced.
LEMMA DraftRestored ==
  ASSUME Drafts, NEW p \in posts, posts' = posts \ {p}, C!restore(p.text)
  PROVE  Drafts'
<1>1. CASE box # C!None
 <2>1. C!Became(p.text, "displaced") /\ box' = box BY <1>1 DEF C!restore
 <2>2. "displaced" \in C!Fates \ {"box", "out"} BY DEF C!Fates
 <2> QED BY <2>1, <2>2, DraftOver
<1>2. CASE box = C!None
 <2>1. box' = p.text /\ C!Became(p.text, "box") /\ p.text \in C!Texts \cup {C!None}
   BY <1>2 DEF C!restore, Drafts, Post
 <2>2. posts' \subseteq Post /\ C!SentOnce' BY DEF Drafts, C!SentOnce
 <2>3. CASE p.text = C!None
  <3>1. text' = text /\ box' = box BY <1>2, <2>1, <2>3 DEF C!Became
  <3>2. \A t \in C!Texts : (\E q \in posts' : q.text = t) <=> (\E q \in posts : q.text = t)
    BY <2>3, NoneIsNone
  <3>3. C!NeverEaten' BY <3>1, <3>2 DEF Drafts, C!NeverEaten
  <3> QED BY <2>2, <3>1, <3>3 DEF Drafts
 <2>4. CASE p.text # C!None
  <3>1. text' = [text EXCEPT ![p.text] = "box"] /\ p.text \in C!Texts BY <2>1, <2>4 DEF C!Became
  <3>2. /\ text' \in [C!Texts -> C!Fates] /\ text'[p.text] = "box"
        /\ \A t \in C!Texts : t # p.text => text'[t] = text[t]
    BY <3>1 DEF Drafts, C!Fates
  <3>3. \A t \in C!Texts : t # p.text =>
           ((\E q \in posts' : q.text = t) <=> (\E q \in posts : q.text = t))
    OBVIOUS
  <3>4. ~\E q \in posts' : q.text = p.text BY <2>4 DEF Drafts, C!SentOnce
  <3>5. C!NeverEaten'
   <4>1. ASSUME NEW t \in C!Texts, t = p.text
         PROVE  Accounted(text', box', posts', t)
     BY <2>1, <3>2, <3>4, <4>1 DEF C!Fates
   <4>2. ASSUME NEW t \in C!Texts, t # p.text
         PROVE  Accounted(text', box', posts', t)
    <5>1. text[t] # "box" BY <1>2, NoneIsNone DEF Drafts, C!NeverEaten
    <5> QED BY <2>1, <3>2, <3>3, <4>2, <5>1 DEF Drafts, C!NeverEaten
   <4> QED BY <4>1, <4>2 DEF C!NeverEaten, C!Fates
  <3> QED BY <2>1, <2>2, <3>2, <3>5 DEF Drafts
 <2> QED BY <2>3, <2>4
<1> QED BY <1>1, <1>2

\* The picture leaves the tray for a reason.
LEMMA PictureCleared ==
  ASSUME Pictures, uploads' = uploads, NEW expected, NEW why \in FileFates \ {"tray"},
         C!clearPendingMedia(expected, why)
  PROVE  Pictures'
<1>1. CASE media' = media /\ file' = file BY <1>1, PicturesKept
<1>2. CASE media.file # C!None /\ media' = C!NoMedia
           /\ file' = [file EXCEPT ![media.file] = why]
 <2>1. media.file \in C!Files BY <1>2 DEF Pictures
 <2>2. /\ file' \in [C!Files -> FileFates] /\ file'[media.file] = why
       /\ \A f \in C!Files : f # media.file => file'[f] = file[f]
   BY <1>2, <2>1 DEF Pictures
 <2>3. media'.file = C!None /\ media'.st = "none"
       /\ media' \in [file : C!Files \cup {C!None}, st : {"none", "uploading", "ready", "error"}]
   BY <1>2 DEF C!NoMedia
 <2>4. C!PictureKept' BY <2>2, <2>3, NoneIsNone DEF Pictures, C!PictureKept, FileFates
 <2>5. C!TrayTrue' BY <2>3 DEF C!TrayTrue
 <2> QED BY <2>2, <2>3, <2>4, <2>5 DEF Pictures
<1> QED BY <1>1, <1>2 DEF C!clearPendingMedia

LEMMA ComposerWrite ==
  ASSUME C!IInv, NEW t \in C!Texts, C!Write(t)
  PROVE  C!IInv'
<1>1. /\ box = C!None /\ text[t] = "unwritten" /\ box' = t
      /\ text' = [text EXCEPT ![t] = "box"]
      /\ media' = media /\ uploads' = uploads /\ view' = view /\ posts' = posts /\ file' = file
  BY DEF C!Write
<1>2. Drafts /\ Pictures /\ view \in Shown BY ComposerHalves
<1>3. /\ text' \in [C!Texts -> C!Fates] /\ text'[t] = "box"
      /\ \A u \in C!Texts : u # t => text'[u] = text[u]
  BY <1>1, <1>2 DEF Drafts, C!Fates
<1>4. \A u \in C!Texts : text[u] # "box" BY <1>1, <1>2, NoneIsNone DEF Drafts, C!NeverEaten
<1>5. C!NeverEaten'
 <2>1. ASSUME NEW u \in C!Texts, u = t
       PROVE  /\ text'[u] \in C!Fates
              /\ (text'[u] = "box") <=> (box' = u)
              /\ (text'[u] = "out") <=> (\E q \in posts' : q.text = u)
   BY <1>1, <1>2, <1>3, <2>1 DEF Drafts, C!NeverEaten, C!Fates
 <2>2. ASSUME NEW u \in C!Texts, u # t
       PROVE  /\ text'[u] \in C!Fates
              /\ (text'[u] = "box") <=> (box' = u)
              /\ (text'[u] = "out") <=> (\E q \in posts' : q.text = u)
   BY <1>1, <1>2, <1>3, <1>4, <2>2 DEF Drafts, C!NeverEaten
 <2> QED BY <2>1, <2>2 DEF C!NeverEaten, C!Fates
<1>6. Drafts' BY <1>1, <1>2, <1>3, <1>5 DEF Drafts, C!SentOnce
<1> QED BY <1>1, <1>2, <1>6, PicturesKept, ComposerHalves, ComposerWhole

LEMMA ComposerPick ==
  ASSUME C!IInv, NEW f \in C!Files, C!Pick(f)
  PROVE  C!IInv'
<1>1. /\ file[f] = "unpicked" /\ media' = [file |-> f, st |-> "uploading"]
      /\ uploads' = {f}
      /\ file' = [g \in C!Files |-> CASE g = f -> "tray"
                                      [] g = media.file /\ g # f -> "replaced"
                                      [] OTHER -> file[g]]
      /\ box' = box /\ view' = view /\ posts' = posts /\ text' = text
  BY DEF C!Pick
<1>2. Drafts /\ Pictures /\ view \in Shown BY ComposerHalves
<1>3. /\ file' \in [C!Files -> FileFates] /\ file'[f] = "tray"
      /\ \A g \in C!Files : g # f => file'[g] \in FileFates \ {"tray"}
  BY <1>1, <1>2 DEF Pictures, FileFates, C!PictureKept
<1>4. media'.file = f /\ media'.st = "uploading"
      /\ media' \in [file : C!Files \cup {C!None}, st : {"none", "uploading", "ready", "error"}]
  BY <1>1
<1>5. C!PictureKept' /\ C!TrayTrue' BY <1>3, <1>4 DEF C!PictureKept, C!TrayTrue, FileFates
<1>6. Pictures' BY <1>1, <1>3, <1>4, <1>5 DEF Pictures
<1> QED BY <1>1, <1>2, <1>6, DraftsKept, ComposerHalves, ComposerWhole

LEMMA ComposerUploaded ==
  ASSUME C!IInv, NEW f \in C!Files, C!Uploaded(f)
  PROVE  C!IInv'
<1>1. /\ uploads' = uploads \ {f}
      /\ box' = box /\ view' = view /\ posts' = posts /\ text' = text /\ file' = file
  BY DEF C!Uploaded
<1>2. PICK st \in {"ready", "error"} :
         media' = IF media.file = f THEN [media EXCEPT !.st = st] ELSE media
  BY DEF C!Uploaded
<1>3. Drafts /\ Pictures /\ view \in Shown BY ComposerHalves
<1>4. /\ media' \in [file : C!Files \cup {C!None}, st : {"none", "uploading", "ready", "error"}]
      /\ media'.file = media.file
      /\ media'.st = media.st \/ media.file = f
  BY <1>2, <1>3 DEF Pictures
<1>5. C!PictureKept' /\ C!TrayTrue' BY <1>1, <1>3, <1>4 DEF Pictures, C!PictureKept, C!TrayTrue
<1>6. Pictures' BY <1>1, <1>3, <1>4, <1>5 DEF Pictures
<1> QED BY <1>1, <1>3, <1>6, DraftsKept, ComposerHalves, ComposerWhole

LEMMA ComposerRemove ==
  ASSUME C!IInv, C!Remove
  PROVE  C!IInv'
<1>1. /\ C!clearPendingMedia(C!None, "removed") /\ uploads' = uploads
      /\ box' = box /\ view' = view /\ posts' = posts /\ text' = text
  BY DEF C!Remove
<1>2. "removed" \in FileFates \ {"tray"} BY DEF FileFates
<1> QED BY <1>1, <1>2, DraftsKept, PictureCleared, ComposerHalves, ComposerWhole

\* The draft leaves the box with the send.
LEMMA ComposerSend ==
  ASSUME C!IInv, C!send
  PROVE  C!IInv'
<1> DEFINE p == [text |-> box, file |-> media.file, sid |-> view.sid,
                 gen |-> view.gen, login |-> view.login]
<1>1. /\ posts' = posts \cup {p} /\ box' = C!None /\ C!Became(box, "out")
      /\ media' = media /\ uploads' = uploads /\ view' = view /\ file' = file
  BY DEF C!send
<1>2. Drafts /\ Pictures /\ view \in Shown BY ComposerHalves
<1>3. p \in Post /\ p.text = box BY <1>2 DEF Drafts, Pictures, Shown, Post
<1> HIDE DEF p
<1>4. posts' \subseteq Post BY <1>1, <1>2, <1>3 DEF Drafts
<1>5. ASSUME box = C!None PROVE Drafts'
 <2>1. text' = text /\ box' = box BY <1>1, <1>5 DEF C!Became
 <2>2. \A t \in C!Texts : (\E q \in posts' : q.text = t) <=> (\E q \in posts : q.text = t)
   BY <1>1, <1>3, <1>5, NoneIsNone
 <2>3. C!NeverEaten' BY <1>2, <2>1, <2>2 DEF Drafts, C!NeverEaten
 <2>4. C!SentOnce' BY <1>1, <1>2, <1>3, <1>5 DEF Drafts, C!SentOnce
 <2> QED BY <1>2, <1>4, <2>1, <2>3, <2>4 DEF Drafts
<1>6. ASSUME box # C!None PROVE Drafts'
 <2>1. box \in C!Texts /\ text' = [text EXCEPT ![box] = "out"]
   BY <1>1, <1>2, <1>6 DEF C!Became, Drafts
 <2>2. /\ text' \in [C!Texts -> C!Fates] /\ text'[box] = "out"
       /\ \A t \in C!Texts : t # box => text'[t] = text[t]
   BY <1>2, <2>1 DEF Drafts, C!Fates
 <2>3. text[box] = "box" /\ ~\E q \in posts : q.text = box
   BY <1>2, <2>1 DEF Drafts, C!NeverEaten
 <2>4. C!SentOnce' BY <1>1, <1>2, <1>3, <2>3 DEF Drafts, C!SentOnce
 <2>5. C!NeverEaten'
  <3>1. ASSUME NEW t \in C!Texts, t = box
        PROVE  Accounted(text', box', posts', t)
    BY <1>1, <1>3, <1>6, <2>2, <3>1 DEF C!Fates
  <3>2. ASSUME NEW t \in C!Texts, t # box
        PROVE  Accounted(text', box', posts', t)
   <4>1. (\E q \in posts' : q.text = t) <=> (\E q \in posts : q.text = t) BY <1>1, <1>3, <3>2
   <4> QED BY <1>1, <1>2, <2>2, <3>2, <4>1, NoneIsNone DEF Drafts, C!NeverEaten
  <3> QED BY <3>1, <3>2 DEF C!NeverEaten, C!Fates
 <2> QED BY <1>1, <1>4, <2>2, <2>4, <2>5 DEF Drafts
<1>7. Drafts' BY <1>5, <1>6
<1> QED BY <1>1, <1>2, <1>7, PicturesKept, ComposerHalves, ComposerWhole

LEMMA ComposerFailed ==
  ASSUME C!IInv, NEW p \in posts, C!Failed(p)
  PROVE  C!IInv'
<1>1. /\ posts' = posts \ {p} /\ C!restore(p.text)
      /\ media' = media /\ uploads' = uploads /\ view' = view /\ file' = file
  BY DEF C!Failed
<1> QED BY <1>1, DraftRestored, PicturesKept, ComposerHalves, ComposerWhole

LEMMA ComposerRefused ==
  ASSUME C!IInv, NEW p \in posts, NEW occupied \in BOOLEAN, C!Refused(p, occupied)
  PROVE  C!IInv'
<1>1. /\ posts' = posts \ {p}
      /\ media' = media /\ uploads' = uploads /\ view' = view /\ file' = file
  BY DEF C!Refused
<1>2. \/ \E fate \in {"foreign", "moved"} : C!Became(p.text, fate) /\ box' = box
      \/ C!restore(p.text)
  BY DEF C!Refused
<1>3. {"foreign", "moved"} \subseteq C!Fates \ {"box", "out"} BY DEF C!Fates
<1>4. Drafts' BY <1>1, <1>2, <1>3, DraftOver, DraftRestored, ComposerHalves
<1> QED BY <1>1, <1>4, PicturesKept, ComposerHalves, ComposerWhole

\* The server took the draft, and the picture that was or was not with it.
LEMMA ComposerStarted ==
  ASSUME C!IInv, NEW p \in posts, NEW id \in Sessions, C!Started(p, id)
  PROVE  C!IInv'
<1>1. /\ posts' = posts \ {p} /\ C!Became(p.text, "accepted") /\ box' = box
      /\ uploads' = uploads
      /\ (media' = media /\ file' = file) \/
         \E why \in {"sent", "swept"} : C!clearPendingMedia(p.file, why)
      /\ view' = view \/ view' = [view EXCEPT !.sid = id]
 <2>1. \/ media' = media /\ file' = file
       \/ C!clearPendingMedia(p.file, "sent")
       \/ C!clearPendingMedia(p.file, "swept")
   BY DEF C!Started
 <2>2. \/ media' = media /\ file' = file
       \/ \E why \in {"sent", "swept"} : C!clearPendingMedia(p.file, why)
   BY <2>1
 <2> QED BY <2>2 DEF C!Started
<1>2. Drafts /\ Pictures /\ view \in Shown BY ComposerHalves
<1>3. Drafts'
 <2>1. "accepted" \in C!Fates \ {"box", "out"} BY DEF C!Fates
 <2> QED BY <1>1, <1>2, <2>1, DraftOver
<1>4. Pictures'
 <2>1. {"sent", "swept"} \subseteq FileFates \ {"tray"} BY DEF FileFates
 <2> QED BY <1>1, <1>2, <2>1, PictureCleared, PicturesKept
<1>5. view' \in Shown BY <1>1, <1>2 DEF Shown
<1> QED BY <1>3, <1>4, <1>5, ComposerWhole

\* The other steps only change what is on screen.
LEMMA ComposerMoved ==
  ASSUME C!IInv, view' \in Shown, box' = box, posts' = posts, text' = text,
         media' = media, uploads' = uploads, file' = file
  PROVE  C!IInv'
BY DraftsKept, PicturesKept, ComposerHalves, ComposerWhole

\* The view moves on to another conversation.
LEMMA ShownMoved ==
  ASSUME view \in Shown, NEW id \in Sessions \cup {NoSession},
         view' = [view EXCEPT !.sid = id, !.gen = @ + 1]
  PROVE  view' \in Shown
<1>1. view.gen + 1 \in Nat /\ view.login \in {1, 2} BY DEF Shown
<1>2. view' = [sid |-> id, gen |-> view.gen + 1, login |-> view.login] BY DEF Shown
<1> QED BY ONLY <1>1, <1>2, id \in Sessions \cup {NoSession} DEF Shown

LEMMA ComposerOpen ==
  ASSUME C!IInv, NEW id \in Sessions, C!openSession(id)
  PROVE  C!IInv'
<1>1. view' = [view EXCEPT !.sid = id, !.gen = @ + 1] BY DEF C!openSession
<1>2. view \in Shown BY ComposerHalves
<1>3. view' \in Shown BY <1>1, <1>2, ShownMoved
<1> QED BY <1>3, ComposerMoved DEF C!openSession

LEMMA ComposerNew ==
  ASSUME C!IInv, C!newSession
  PROVE  C!IInv'
<1>1. view' = [view EXCEPT !.sid = NoSession, !.gen = @ + 1] BY DEF C!newSession
<1>2. view \in Shown BY ComposerHalves
<1>3. view' \in Shown BY <1>1, <1>2, ShownMoved
<1> QED BY <1>3, ComposerMoved DEF C!newSession

LEMMA ComposerRelogin ==
  ASSUME C!IInv, C!Relogin
  PROVE  C!IInv'
<1>1. /\ view' = [sid |-> NoSession, gen |-> view.gen + 1, login |-> 2]
      /\ C!clearPendingMedia(C!None, "foreign")
      /\ box' = box /\ uploads' = uploads /\ posts' = posts /\ text' = text
  BY DEF C!Relogin
<1>2. view' \in Shown BY <1>1, ComposerHalves DEF Shown
<1>3. "foreign" \in FileFates \ {"tray"} BY DEF FileFates
<1> QED BY <1>1, <1>2, <1>3, DraftsKept, PictureCleared, ComposerHalves, ComposerWhole

LEMMA ComposerStop ==
  ASSUME C!IInv, C!cancelTurn \/ (\E id \in cancels, will \in BOOLEAN : C!StopAnswered(id, will))
                 \/ (\E id \in Sessions : C!TurnEnds(id))
  PROVE  C!IInv'
<1>1. view' = view /\ box' = box /\ posts' = posts /\ text' = text /\ media' = media
      /\ uploads' = uploads /\ file' = file
  BY DEF C!cancelTurn, C!StopAnswered, C!TurnEnds
<1> QED BY <1>1, ComposerMoved, ComposerHalves

LEMMA ComposerStep ==
  ASSUME C!IInv, C!Next
  PROVE  C!IInv'
BY ComposerRemove, ComposerSend, ComposerNew, ComposerRelogin, ComposerStop, ComposerWrite,
   ComposerPick, ComposerUploaded, ComposerFailed, ComposerRefused, ComposerStarted,
   ComposerOpen
   DEF C!Next

LEMMA ComposerStutter ==
  ASSUME C!IInv, UNCHANGED <<box, media, uploads, view, posts, text, file>>
  PROVE  C!IInv'
BY ComposerMoved, ComposerHalves

\* Neither a draft nor a picture is lost while requests are answered late, with any
\* number of conversations, drafts and pictures (app.js, 600-632, 2150-2286,
\* 2419-2472).
THEOREM ComposerHolds == Spec => []ComposerFaithful
<1> DEFINE I == part = "composer" => C!IInv
<1>1. Init => I BY ComposerInit DEF Init
<1>2. I /\ [Next]_vars => I'
 <2>1. CASE part = "composer" /\ Next BY <2>1, ComposerStep DEF Next
 <2>2. CASE part # "composer" /\ Next BY <2>2 DEF Next
 <2>3. CASE UNCHANGED vars BY <2>3, ComposerStutter DEF vars, OfComposer
 <2> QED BY <2>1, <2>2, <2>3
<1>3. I => ComposerFaithful BY DEF ComposerFaithful, C!IInv
<1> QED BY <1>1, <1>2, <1>3, PTL DEF Spec

------------------------
\* EndpointPicker

\* The pin of a conversation is the one entry that names it.
LEMMA PinOf ==
  ASSUME NEW p \in PinSeq, Alone(p), NEW sid
  PROVE  /\ \A i \in DOMAIN p : p[i][1] = sid => E!pinOf(p, sid) = p[i][2]
         /\ E!pinOf(p, sid) # E!NoKey =>
               \E i \in DOMAIN p : p[i][1] = sid /\ p[i][2] = E!pinOf(p, sid)
         /\ E!pinOf(p, sid) \in Keys \cup {E!NoKey}
<1>1. ASSUME NEW i \in DOMAIN p, p[i][1] = sid
      PROVE  E!pinOf(p, sid) = p[i][2]
 <2>1. E!Pinned(p, sid) = {p[i]}
  <3>1. \A q \in E!Range(p) : \E j \in DOMAIN p : q = p[j] BY DEF E!Range
  <3>2. p[i] \in E!Range(p) BY DEF E!Range
  <3>3. \A q \in E!Range(p) : q[1] = sid => q = p[i] BY <1>1, <3>1 DEF Alone
  <3> QED BY <1>1, <3>2, <3>3 DEF E!Pinned
 <2>2. (CHOOSE q \in {p[i]} : TRUE) = p[i] OBVIOUS
 <2> QED BY <2>1, <2>2 DEF E!pinOf
<1>2. ASSUME \A i \in DOMAIN p : p[i][1] # sid
      PROVE  E!pinOf(p, sid) = E!NoKey
 <2>1. E!Pinned(p, sid) = {} BY <1>2 DEF E!Pinned, E!Range
 <2> QED BY <2>1 DEF E!pinOf
<1>3. \A i \in DOMAIN p : p[i][2] \in Keys BY DEF PinSeq
<1> QED BY <1>1, <1>2, <1>3

\* What is saved is the end of what there is.
LEMMA SavedPins ==
  ASSUME NEW p \in PinSeq, Alone(p), NEW s, s = E!saveSessionEp(p)
  PROVE  /\ s \in PinSeq /\ Alone(s) /\ Len(s) <= MaxPins
         /\ \A sid : E!pinOf(s, sid) \in {E!pinOf(p, sid), E!NoKey}
<1> DEFINE lo == IF Len(p) > MaxPins THEN Len(p) - MaxPins + 1 ELSE 1
<1>1. /\ Len(p) \in Nat /\ lo \in Nat /\ 1 <= lo /\ lo <= Len(p) + 1
      /\ Len(p) - lo + 1 <= MaxPins /\ Len(p) - lo + 1 \in Nat
  BY PickerAssumption DEF PinSeq
<1>2. s = SubSeq(p, lo, Len(p)) BY DEF E!saveSessionEp
<1> HIDE DEF lo
<1>3. s \in PinSeq /\ Len(s) = Len(p) - lo + 1 BY <1>1, <1>2 DEF PinSeq
<1>4. ASSUME NEW i \in DOMAIN s
      PROVE  lo + i - 1 \in DOMAIN p /\ s[i] = p[lo + i - 1]
 <2>1. i \in 1 .. (Len(p) - lo + 1) /\ DOMAIN p = 1 .. Len(p) BY <1>3 DEF PinSeq
 <2>2. lo + i - 1 \in 1 .. Len(p) BY <1>1, <2>1
 <2>3. s[i] = p[lo + i - 1] BY <1>1, <1>2, <2>1 DEF PinSeq
 <2> QED BY <2>1, <2>2, <2>3
<1>5. Alone(s)
 <2> SUFFICES ASSUME NEW i \in DOMAIN s, NEW j \in DOMAIN s, s[i][1] = s[j][1]
              PROVE  i = j
   BY DEF Alone
 <2>1. lo + i - 1 = lo + j - 1 BY <1>4 DEF Alone
 <2>2. i \in Nat /\ j \in Nat BY <1>3 DEF PinSeq
 <2> QED BY <1>1, <2>1, <2>2
<1>6. ASSUME NEW sid, E!pinOf(s, sid) # E!NoKey
      PROVE  E!pinOf(s, sid) = E!pinOf(p, sid)
 <2>1. PICK i \in DOMAIN s : s[i][1] = sid /\ s[i][2] = E!pinOf(s, sid)
   BY <1>3, <1>5, <1>6, PinOf
 <2>2. lo + i - 1 \in DOMAIN p /\ p[lo + i - 1] = s[i] BY <1>4
 <2> QED BY <2>1, <2>2, PinOf
<1>7. Len(s) <= MaxPins BY <1>1, <1>3
<1> QED BY <1>3, <1>5, <1>6, <1>7

\* A conversation is pinned to the key, unless nothing is kept, and no other gets
\* another pin than it had.
LEMMA PinSet ==
  ASSUME NEW p \in PinSeq, Alone(p), NEW sid \in Ids, NEW key \in Keys,
         NEW s, s = E!pin(p, sid, key)
  PROVE  /\ s \in PinSeq /\ Alone(s) /\ Len(s) <= MaxPins
         /\ E!pinOf(s, sid) \in {key, E!NoKey}
         /\ \A t : t # sid => E!pinOf(s, t) \in {E!pinOf(p, t), E!NoKey}
<1>0. /\ Len(p) \in Nat /\ DOMAIN p = 1 .. Len(p)
      /\ \A i \in DOMAIN p : /\ p[i] \in Ids \X Keys /\ p[i][1] \in Ids /\ p[i][2] \in Keys
  BY DEF PinSeq
<1>1. ASSUME NEW r \in PinSeq, Alone(r), s = E!saveSessionEp(r),
             \E i \in DOMAIN r : r[i][1] = sid /\ r[i][2] = key,
             \A i \in DOMAIN r : r[i][1] # sid => i \in DOMAIN p /\ r[i] = p[i]
      PROVE  /\ s \in PinSeq /\ Alone(s) /\ Len(s) <= MaxPins
             /\ E!pinOf(s, sid) \in {key, E!NoKey}
             /\ \A t : t # sid => E!pinOf(s, t) \in {E!pinOf(p, t), E!NoKey}
 <2>1. /\ s \in PinSeq /\ Alone(s) /\ Len(s) <= MaxPins
       /\ \A t : E!pinOf(s, t) \in {E!pinOf(r, t), E!NoKey}
   BY <1>1, SavedPins
 <2>2. E!pinOf(r, sid) = key BY <1>1, PinOf
 <2>3. ASSUME NEW t, t # sid PROVE E!pinOf(r, t) \in {E!pinOf(p, t), E!NoKey}
  <3>1. CASE E!pinOf(r, t) # E!NoKey
   <4>1. PICK i \in DOMAIN r : r[i][1] = t /\ r[i][2] = E!pinOf(r, t) BY <1>1, <3>1, PinOf
   <4>2. i \in DOMAIN p /\ p[i] = r[i] BY <1>1, <2>3, <4>1
   <4> QED BY <4>1, <4>2, PinOf
  <3> QED BY <3>1
 <2> QED BY <2>1, <2>2, <2>3
<1>2. CASE E!Pinned(p, sid) # {}
 <2> DEFINE r == [i \in DOMAIN p |-> IF p[i][1] = sid THEN <<sid, key>> ELSE p[i]]
 <2>1. s = E!saveSessionEp(r) BY <1>2 DEF E!pin
 <2>2. PICK i \in DOMAIN p : p[i][1] = sid BY <1>2 DEF E!Pinned, E!Range
 <2>3. r \in [1 .. Len(p) -> Ids \X Keys] /\ DOMAIN r = DOMAIN p BY <1>0
 <2>4. \A k \in DOMAIN p : /\ r[k][1] = p[k][1]
                           /\ p[k][1] = sid => r[k][2] = key
                           /\ p[k][1] # sid => r[k] = p[k]
   OBVIOUS
 <2> HIDE DEF r
 <2>5. r \in PinSeq BY <1>0, <2>3, NodesShape DEF PinSeq
 <2>6. Alone(r) BY <2>3, <2>4 DEF Alone
 <2> QED BY <1>1, <2>1, <2>2, <2>3, <2>4, <2>5, <2>6
<1>3. CASE E!Pinned(p, sid) = {}
 <2> DEFINE r == Append(p, <<sid, key>>)
 <2>1. s = E!saveSessionEp(r) BY <1>3 DEF E!pin
 <2>2. \A i \in DOMAIN p : p[i][1] # sid BY <1>3 DEF E!Pinned, E!Range
 <2>3. <<sid, key>> \in Ids \X Keys OBVIOUS
 <2>4. /\ r \in PinSeq /\ Len(r) = Len(p) + 1 /\ DOMAIN r = 1 .. (Len(p) + 1)
       /\ r[Len(p) + 1] = <<sid, key>> /\ \A i \in 1 .. Len(p) : r[i] = p[i]
   BY <2>3 DEF PinSeq
 <2> HIDE DEF r
 <2>5. r[Len(p) + 1][1] = sid /\ r[Len(p) + 1][2] = key /\ Len(p) + 1 \in DOMAIN r BY <1>0, <2>4
 <2>6. \A i \in DOMAIN r : i = Len(p) + 1 \/ i \in DOMAIN p BY <1>0, <2>4
 <2>7. Alone(r)
  <3> SUFFICES ASSUME NEW i \in DOMAIN r, NEW j \in DOMAIN r, r[i][1] = r[j][1]
               PROVE  i = j
    BY DEF Alone
  <3> QED BY <1>0, <2>2, <2>4, <2>5, <2>6 DEF Alone
 <2>8. \A i \in DOMAIN r : r[i][1] # sid => i \in DOMAIN p /\ r[i] = p[i]
   BY <1>0, <2>4, <2>5, <2>6
 <2> QED BY <1>1, <2>1, <2>4, <2>5, <2>7, <2>8
<1> QED BY <1>2, <1>3

\* The list's first endpoint is one of the list.
LEMMA FirstListed ==
  ASSUME NEW ks, ks # {}
  PROVE  E!FirstOf(ks) \in ks
<1>1. E!FirstOf(ks) = (CHOOSE k \in ks : Default \in ks => k = Default) BY DEF E!FirstOf
<1>2. \E k \in ks : Default \in ks => k = Default
 <2>1. CASE Default \in ks BY <2>1
 <2>2. CASE Default \notin ks BY <2>2
 <2> QED BY <2>1, <2>2
<1> QED BY <1>1, <1>2

\* The parts of the invariant by name.
LEMMA PickerParts == E!IInv <=> PickerFine
BY DEF E!IInv, E!TypeInv, E!PinsBounded, PageType, SentType, Ids, PinSeq, Alone

LEMMA PickerWhole ==
  ASSUME served' \in SUBSET Keys, page' \in PageType, last' \in Keys \cup {E!NoKey},
         sent' \in SentType, away' \in SUBSET Keys, disputed' \in BOOLEAN,
         pins' \in PinSeq, Alone(pins'), Len(pins') <= MaxPins,
         E!ListInv', E!PickerFollows'
  PROVE  E!IInv'
BY DEF E!IInv, E!TypeInv, E!PinsBounded, PageType, SentType, Ids, PinSeq, Alone

LEMMA PickerInit == E!Init => E!IInv
<1> SUFFICES ASSUME E!Init PROVE E!IInv OBVIOUS
<1> USE DEF E!Init
<1>1. pins \in PinSeq /\ Alone(pins) /\ Len(pins) <= MaxPins
  BY EmptyIsSeq, PickerAssumption DEF PinSeq, Alone
<1>2. page \in PageType /\ page.keys = {} /\ page.choice = E!NoKey /\ page.sid = NoSession
  BY DEF E!Fresh, PageType, Ids
<1>3. sent \in SentType /\ ~sent.on BY DEF E!NoSend, SentType, Ids
<1>4. E!ListInv BY <1>2, <1>3 DEF E!ListInv
<1>5. E!PickerFollows BY <1>2 DEF E!PickerFollows
<1> QED BY <1>1, <1>2, <1>3, <1>4, <1>5, PickerParts

\* The list a page gets has all that was never withdrawn; a choice it does not have
\* is resolved again, by the pin first.
LEMMA PickerListed ==
  ASSUME E!IInv, E!Listed
  PROVE  E!IInv'
<1> DEFINE want == E!endpointFor(pins, last, page.sid)
           choice == CASE page.choice \in served -> page.choice
                       [] page.choice \notin served /\ want \in served -> want
                       [] OTHER -> E!FirstOf(served)
           k == E!pinOf(pins, page.sid)
<1>1. /\ page' = [page EXCEPT !.keys = served, !.choice = choice]
      /\ last' = IF page.choice \in served THEN last ELSE choice
      /\ served' = served /\ pins' = pins /\ sent' = sent /\ away' = away
      /\ disputed' = disputed
  BY DEF E!Listed, E!setEndpoints
<1>2. PickerFine BY PickerParts
<1>3. served # {} /\ Default \in served /\ E!NoKey \notin served
  BY <1>2, PickerAssumption DEF E!ListInv
<1>4. choice \in served BY <1>3, FirstListed
<1>5. page.choice \in served => choice = page.choice OBVIOUS
<1>6. page.choice \notin served /\ k \in served => choice = k BY <1>3 DEF E!endpointFor
<1> HIDE DEF choice, want, k
<1>7. /\ page' \in PageType /\ page'.keys = served /\ page'.choice = choice
      /\ page'.sid = page.sid
  BY <1>1, <1>2, <1>4 DEF PageType
<1>8. last' \in Keys \cup {E!NoKey} BY <1>1, <1>2, <1>4
<1>9. E!ListInv' BY <1>1, <1>2, <1>3, <1>4, <1>7 DEF E!ListInv
<1>10. E!PickerFollows'
 <2> SUFFICES ASSUME page.sid # NoSession, ~disputed, k \in served \ away
              PROVE  choice \in {k} \cup away
   BY <1>1, <1>7 DEF E!PickerFollows, k
 <2>1. CASE page.choice \in served
  <3>1. k \in page.keys \ away BY <1>2 DEF E!ListInv
  <3> QED BY <1>2, <1>5, <2>1, <3>1 DEF E!PickerFollows, k
 <2>2. CASE page.choice \notin served BY <1>6, <2>2
 <2> QED BY <2>1, <2>2
<1> QED BY <1>1, <1>2, <1>7, <1>8, <1>9, <1>10, PickerWhole

LEMMA PickerReconfigured ==
  ASSUME E!IInv, E!Reconfigured
  PROVE  E!IInv'
<1>1. /\ page' = page /\ pins' = pins /\ last' = last /\ sent' = sent /\ disputed' = disputed
      /\ \/ \E k \in served \ {Default} : served' = served \ {k} /\ away' = away \cup {k}
         \/ served' = Keys /\ away' = away
  BY DEF E!Reconfigured
<1>2. PickerFine BY PickerParts
<1>3. /\ served' \in SUBSET Keys /\ away' \in SUBSET Keys /\ away \subseteq away'
      /\ Default \notin away' /\ Keys \ away' \subseteq served'
  BY <1>1, <1>2 DEF E!ListInv
<1>4. E!ListInv' BY <1>1, <1>2, <1>3 DEF E!ListInv
<1>5. E!PickerFollows' BY <1>1, <1>2, <1>3 DEF E!PickerFollows
<1> QED BY <1>1, <1>2, <1>3, <1>4, <1>5, PickerWhole

\* A page that shows a conversation and shows its pin, or an endpoint the pin gave
\* way to, is right.
LEMMA PickerShows ==
  ASSUME E!IInv, served' = served, away' = away,
         page' \in PageType, page'.keys = page.keys, page.keys # {}, page'.choice \in Keys,
         last' \in Keys \cup {E!NoKey}, sent' \in SentType, disputed' \in BOOLEAN,
         pins' \in PinSeq, Alone(pins'), Len(pins') <= MaxPins,
         \/ page'.sid = NoSession
         \/ disputed'
         \/ E!pinOf(pins', page'.sid) \in {page'.choice, E!NoKey}
         \/ E!pinOf(pins', page'.sid) \notin page.keys
  PROVE  E!IInv'
<1>1. /\ served \in SUBSET Keys /\ page \in PageType /\ away \in SUBSET Keys
      /\ E!ListInv /\ E!PickerFollows
  BY PickerParts
<1>2. E!ListInv' BY <1>1 DEF E!ListInv
<1>3. E!NoKey \notin page.keys BY <1>1, PickerAssumption DEF PageType
<1>4. E!PickerFollows' BY <1>1, <1>3 DEF E!PickerFollows
<1> QED BY <1>1, <1>2, <1>4, PickerWhole

LEMMA PickerPick ==
  ASSUME E!IInv, NEW k \in Keys, E!pickEndpoint(k)
  PROVE  E!IInv'
<1>1. /\ k \in page.keys /\ page' = [page EXCEPT !.choice = k]
      /\ pins' = E!pin(pins, page.sid, k) /\ last' = k /\ disputed' = FALSE
      /\ served' = served /\ sent' = sent /\ away' = away
  BY DEF E!pickEndpoint
<1>2. page \in PageType /\ sent \in SentType /\ pins \in PinSeq /\ Alone(pins) BY PickerParts
<1>3. /\ page' \in PageType /\ page'.keys = page.keys /\ page'.choice = k
      /\ page'.sid = page.sid /\ page.sid \in Ids
  BY <1>1, <1>2 DEF PageType
<1>4. /\ pins' \in PinSeq /\ Alone(pins') /\ Len(pins') <= MaxPins
      /\ E!pinOf(pins', page.sid) \in {k, E!NoKey}
  BY <1>1, <1>2, <1>3, PinSet
<1> QED BY <1>1, <1>2, <1>3, <1>4, PickerShows

LEMMA PickerOpen ==
  ASSUME E!IInv, NEW id \in Pinnable, E!openSession(id)
  PROVE  E!IInv'
<1> DEFINE want == E!endpointFor(pins, last, id)
           choice == IF want \in page.keys THEN want ELSE E!FirstOf(page.keys)
<1>1. /\ page.keys # {}
      /\ page' = [page EXCEPT !.sid = id, !.gen = @ + 1, !.choice = choice]
      /\ disputed' = FALSE
      /\ served' = served /\ pins' = pins /\ last' = last /\ sent' = sent /\ away' = away
  BY DEF E!openSession
<1>2. /\ page \in PageType /\ sent \in SentType /\ last \in Keys \cup {E!NoKey}
      /\ pins \in PinSeq /\ Alone(pins) /\ Len(pins) <= MaxPins
  BY PickerParts
<1>3. choice \in page.keys BY <1>1, FirstListed
<1>4. page.keys \in SUBSET Keys /\ page.gen + 1 \in Nat /\ id \in Ids BY <1>2 DEF PageType, Ids
<1>5. E!pinOf(pins, id) \notin page.keys \/ choice = E!pinOf(pins, id)
 <2>1. E!NoKey \notin page.keys BY <1>4, PickerAssumption
 <2> QED BY <2>1 DEF E!endpointFor
<1> HIDE DEF choice, want
<1>6. page' = [keys |-> page.keys, choice |-> choice, sid |-> id, gen |-> page.gen + 1]
  BY <1>1, <1>2 DEF PageType
<1>7. /\ page' \in PageType /\ page'.keys = page.keys /\ page'.choice = choice
      /\ page'.sid = id
  BY <1>3, <1>4, <1>6 DEF PageType
<1>8. choice \in Keys BY <1>3, <1>4
<1> QED BY <1>1, <1>2, <1>5, <1>7, <1>8, PickerShows

\* A page that has a list shows an endpoint.
LEMMA PickerChosen ==
  ASSUME E!IInv, page.keys # {}
  PROVE  page.choice \in Keys
BY PickerParts DEF E!ListInv

LEMMA PickerNew ==
  ASSUME E!IInv, E!newSession
  PROVE  E!IInv'
<1>1. /\ page.sid # NoSession /\ page' = [page EXCEPT !.sid = NoSession, !.gen = @ + 1]
      /\ disputed' = FALSE
      /\ served' = served /\ pins' = pins /\ last' = last /\ sent' = sent /\ away' = away
  BY DEF E!newSession
<1>2. /\ page \in PageType /\ sent \in SentType /\ last \in Keys \cup {E!NoKey}
      /\ pins \in PinSeq /\ Alone(pins) /\ Len(pins) <= MaxPins /\ E!ListInv
  BY PickerParts
<1>3. page.keys # {} /\ page.choice \in Keys BY <1>1, <1>2, PickerChosen DEF E!ListInv
<1>4. page.keys \in SUBSET Keys /\ page.gen + 1 \in Nat /\ NoSession \in Ids
  BY <1>2 DEF PageType, Ids
<1>5. page' = [keys |-> page.keys, choice |-> page.choice, sid |-> NoSession,
               gen |-> page.gen + 1]
  BY <1>1, <1>2 DEF PageType
<1>6. /\ page' \in PageType /\ page'.keys = page.keys /\ page'.choice = page.choice
      /\ page'.sid = NoSession
  BY <1>3, <1>4, <1>5 DEF PageType
<1> QED BY <1>1, <1>2, <1>3, <1>6, PickerShows

LEMMA PickerSend ==
  ASSUME E!IInv, E!send
  PROVE  E!IInv'
<1>1. /\ page.keys # {}
      /\ sent' = [on |-> TRUE, id |-> page.sid, key |-> page.choice, gen |-> page.gen]
      /\ served' = served /\ page' = page /\ pins' = pins /\ last' = last /\ away' = away
      /\ disputed' = disputed
  BY DEF E!send
<1>2. PickerFine BY PickerParts
<1>3. sent' \in SentType BY <1>1, <1>2 DEF PageType, SentType
<1>4. E!ListInv' BY <1>1, <1>2 DEF E!ListInv
<1>5. E!PickerFollows' BY <1>1, <1>2 DEF E!PickerFollows
<1> QED BY <1>1, <1>2, <1>3, <1>4, <1>5, PickerWhole

\* A note is a pin, for a view that has an id.
LEMMA Noted ==
  ASSUME NEW p \in PinSeq, Alone(p), Len(p) <= MaxPins, NEW sid \in Ids, NEW key \in Keys,
         NEW s, s = E!noteSessionEndpoint(p, sid, key)
  PROVE  /\ s \in PinSeq /\ Alone(s) /\ Len(s) <= MaxPins
         /\ sid # NoSession => E!pinOf(s, sid) \in {key, E!NoKey}
<1>1. CASE sid # NoSession /\ key # E!NoKey
 <2>1. s = E!pin(p, sid, key) BY <1>1 DEF E!noteSessionEndpoint
 <2> QED BY <2>1, PinSet
<1>2. CASE ~(sid # NoSession /\ key # E!NoKey)
 <2>1. s = p /\ sid = NoSession BY <1>2, PickerAssumption DEF E!noteSessionEndpoint
 <2> QED BY <2>1
<1> QED BY <1>1, <1>2

\* The answer pins the conversation it is about, and the page shows the pin if it
\* still is where the send left it.
LEMMA PickerAnswered ==
  ASSUME E!IInv, NEW id \in Pinnable, E!sendAnswered(id)
  PROVE  E!IInv'
<1> DEFINE used == IF sent.key \in served THEN sent.key ELSE Default
<1>1. /\ sent.on /\ sent' = E!NoSend
      /\ IF sent.gen # page.gen
         THEN pins' = E!pin(pins, id, used) /\ page' = page /\ last' = last
         ELSE /\ page' = [page EXCEPT !.choice = used, !.sid = id]
              /\ last' = (IF used # page.choice THEN used ELSE last)
              /\ pins' = E!noteSessionEndpoint(
                            E!noteSessionEndpoint(pins, page.sid, used), id, used)
      /\ disputed' = (sent.gen # page.gen /\ (id = page.sid \/ disputed))
      /\ served' = served /\ away' = away
  BY DEF E!sendAnswered
<1>2. PickerFine BY PickerParts
<1>3. used \in Keys BY <1>2, PickerAssumption
<1>4. page.keys # {} /\ page.choice \in Keys /\ page.sid \in Ids /\ id \in Ids /\ id # NoSession
  BY <1>1, <1>2, PickerChosen, PickerAssumption DEF E!ListInv, PageType, Ids
<1> HIDE DEF used
<1>5. sent' \in SentType BY <1>1 DEF E!NoSend, SentType, Ids
<1>6. CASE sent.gen # page.gen
 <2>1. pins' = E!pin(pins, id, used) /\ page' = page /\ last' = last BY <1>1, <1>6
 <2>2. disputed' \in BOOLEAN /\ (disputed' <=> id = page.sid \/ disputed) BY <1>1, <1>6
 <2>3. /\ pins' \in PinSeq /\ Alone(pins') /\ Len(pins') <= MaxPins
       /\ \A t : t # id => E!pinOf(pins', t) \in {E!pinOf(pins, t), E!NoKey}
   BY <1>2, <1>3, <1>4, <2>1, PinSet
 <2>4. E!ListInv'
  <3>1. ~sent'.on BY <1>1 DEF E!NoSend
  <3> QED BY <1>1, <1>2, <1>4, <2>1, <3>1 DEF E!ListInv
 <2>5. E!PickerFollows'
  <3> SUFFICES ASSUME page.sid # NoSession, ~disputed', 
                      E!pinOf(pins', page.sid) \in page.keys \ away
               PROVE  page.choice \in {E!pinOf(pins', page.sid)} \cup away
    BY <1>1, <2>1 DEF E!PickerFollows
  <3>1. page.sid # id /\ ~disputed BY <2>2
  <3>2. E!NoKey \notin page.keys BY <1>2, PickerAssumption DEF PageType
  <3>3. E!pinOf(pins', page.sid) = E!pinOf(pins, page.sid) BY <2>3, <3>1, <3>2
  <3> QED BY <1>2, <3>1, <3>3 DEF E!PickerFollows
 <2> QED BY <1>1, <1>2, <1>5, <2>1, <2>2, <2>3, <2>4, <2>5, PickerWhole
<1>7. CASE sent.gen = page.gen
 <2> DEFINE mid == E!noteSessionEndpoint(pins, page.sid, used)
 <2>1. /\ page' = [page EXCEPT !.choice = used, !.sid = id]
       /\ last' = (IF used # page.choice THEN used ELSE last)
       /\ pins' = E!noteSessionEndpoint(mid, id, used)
   BY <1>1, <1>7
 <2>2. mid \in PinSeq /\ Alone(mid) /\ Len(mid) <= MaxPins BY <1>2, <1>3, <1>4, Noted
 <2> HIDE DEF mid
 <2>3. /\ pins' \in PinSeq /\ Alone(pins') /\ Len(pins') <= MaxPins
       /\ E!pinOf(pins', id) \in {used, E!NoKey}
   BY <1>3, <1>4, <2>1, <2>2, Noted
 <2>4. page' \in PageType /\ page'.keys = page.keys /\ page'.choice = used /\ page'.sid = id
   BY <1>2, <1>3, <1>4, <2>1 DEF PageType
 <2>5. last' \in Keys \cup {E!NoKey} BY <1>2, <1>3, <2>1
 <2>6. disputed' \in BOOLEAN BY <1>1
 <2> QED BY <1>1, <1>3, <1>4, <1>5, <2>3, <2>4, <2>5, <2>6, PickerShows
<1> QED BY <1>6, <1>7

LEMMA PickerRotated ==
  ASSUME E!IInv, NEW id \in Pinnable, E!rotated(id)
  PROVE  E!IInv'
<1>1. /\ page.sid # NoSession /\ page' = [page EXCEPT !.sid = id]
      /\ pins' = E!noteSessionEndpoint(pins, id, page.choice) /\ disputed' = FALSE
      /\ served' = served /\ last' = last /\ sent' = sent /\ away' = away
  BY DEF E!rotated
<1>2. /\ page \in PageType /\ sent \in SentType /\ last \in Keys \cup {E!NoKey}
      /\ pins \in PinSeq /\ Alone(pins) /\ Len(pins) <= MaxPins /\ E!ListInv
  BY PickerParts
<1>3. page.keys # {} /\ page.choice \in Keys /\ id \in Ids /\ id # NoSession
  BY <1>1, <1>2, PickerChosen, PickerAssumption DEF E!ListInv, Ids
<1>4. /\ page' \in PageType /\ page'.keys = page.keys /\ page'.choice = page.choice
      /\ page'.sid = id
  BY <1>1, <1>2, <1>3 DEF PageType
<1>5. /\ pins' \in PinSeq /\ Alone(pins') /\ Len(pins') <= MaxPins
      /\ E!pinOf(pins', id) \in {page.choice, E!NoKey}
  BY <1>1, <1>2, <1>3, Noted
<1> QED BY <1>1, <1>2, <1>3, <1>4, <1>5, PickerShows

LEMMA PickerReload ==
  ASSUME E!IInv, E!Reload
  PROVE  E!IInv'
<1>1. /\ page' = [E!Fresh EXCEPT !.gen = page.gen + 1] /\ sent' = E!NoSend
      /\ disputed' = FALSE
      /\ served' = served /\ pins' = pins /\ last' = last /\ away' = away
  BY DEF E!Reload
<1>2. /\ served \in SUBSET Keys /\ page \in PageType /\ last \in Keys \cup {E!NoKey}
      /\ away \in SUBSET Keys
      /\ pins \in PinSeq /\ Alone(pins) /\ Len(pins) <= MaxPins /\ E!ListInv
  BY PickerParts
<1>3. page.gen + 1 \in Nat BY <1>2 DEF PageType
<1>4. page' = [keys |-> {}, choice |-> E!NoKey, sid |-> NoSession, gen |-> page.gen + 1]
  BY <1>1 DEF E!Fresh
<1>5. page' \in PageType /\ page'.keys = {} /\ page'.choice = E!NoKey /\ page'.sid = NoSession
  BY <1>3, <1>4 DEF PageType, Ids
<1>6. sent' \in SentType /\ ~sent'.on BY <1>1 DEF E!NoSend, SentType, Ids
<1>7. E!ListInv' BY <1>1, <1>2, <1>5, <1>6 DEF E!ListInv
<1>8. E!PickerFollows' BY <1>5 DEF E!PickerFollows
<1> QED BY <1>1, <1>2, <1>5, <1>6, <1>7, <1>8, PickerWhole

LEMMA PickerStep ==
  ASSUME E!IInv, E!Next
  PROVE  E!IInv'
BY PickerListed, PickerReconfigured, PickerNew, PickerSend, PickerReload, PickerPick,
   PickerOpen, PickerAnswered, PickerRotated
   DEF E!Next

LEMMA PickerStutter ==
  ASSUME E!IInv, UNCHANGED <<served, page, pins, last, sent, away, disputed>>
  PROVE  E!IInv'
BY DEF E!IInv, E!TypeInv, E!ListInv, E!PinsBounded, E!PickerFollows

\* The next send names an endpoint of the list and the conversation's own, for every
\* list, every number of conversations and every bound on the pins (app.js, 640-773).
THEOREM PickerHolds == Spec => []PickerFaithful
<1> DEFINE I == part = "picker" => E!IInv
<1>1. Init => I BY PickerInit DEF Init
<1>2. I /\ [Next]_vars => I'
 <2>1. CASE part = "picker" /\ Next BY <2>1, PickerStep DEF Next
 <2>2. CASE part # "picker" /\ Next BY <2>2 DEF Next
 <2>3. CASE UNCHANGED vars BY <2>3, PickerStutter DEF vars, OfPicker
 <2> QED BY <2>1, <2>2, <2>3
<1>3. E!IInv => E!ChoiceListed
 <2> SUFFICES ASSUME E!IInv, page.keys # {}
              PROVE  page.choice \in page.keys \cup away
   BY DEF E!ChoiceListed
 <2>1. page.choice \in Keys /\ Keys \ away \subseteq page.keys BY PickerParts DEF E!ListInv
 <2> QED BY <2>1
<1>4. I => PickerFaithful BY <1>3 DEF PickerFaithful, E!PickerFaithful, E!IInv
<1> QED BY <1>1, <1>2, <1>4, PTL DEF Spec

------------------------
\* Board

LEMMA BoardParts ==
  B!IInv <=> BoardFine
BY DEF B!IInv, B!TypeInv, B!ViewInv, B!GroupInv, B!PollInv, B!LoadInv, B!SaveInv, B!ModeInv,
       B!DrawnHere, B!LockTrue, B!Own, SrvType, ViewType, BoardType, LoadType, SaveType,
       PollType, OwnedBy, FollowsOK, GroupOK, PollOK, LoadOK, SaveOK, ModeOK, DrawnOK, LockOK

LEMMA BoardWhole ==
  ASSUME srv' \in SrvType, view' \in ViewType, board' \in BoardType,
         loads' \subseteq LoadType, saves' \subseteq SaveType, polls' \subseteq PollType,
         FollowsOK(srv', view', board'), GroupOK(srv'), PollOK(srv', view', board', polls'),
         LoadOK(srv', board', loads'), SaveOK(srv', board', saves'), ModeOK(srv', board'),
         DrawnOK(srv', view', board'), LockOK(srv', board')
  PROVE  B!IInv'
BY DEF B!IInv, B!TypeInv, B!ViewInv, B!GroupInv, B!PollInv, B!LoadInv, B!SaveInv, B!ModeInv,
       B!DrawnHere, B!LockTrue, B!Own, SrvType, ViewType, BoardType, LoadType, SaveType,
       PollType, OwnedBy, FollowsOK, GroupOK, PollOK, LoadOK, SaveOK, ModeOK, DrawnOK, LockOK

\* Painting the mode opens or closes the board and nothing else.
LEMMA Painted ==
  ASSUME NEW b \in BoardType
  PROVE  B!painted(b) \in BoardType /\ Alike(b, B!painted(b))
<1>1. (b.open /\ (b.loading \/ b.mode # "single")) \in BOOLEAN OBVIOUS
<1>2. PICK o \in BOOLEAN : B!painted(b) = [b EXCEPT !.open = o] BY <1>1 DEF B!painted, BoardType
<1> QED BY <1>2 DEF BoardType, Alike

\* A poll that is asked for is the only one that counts, or there is none.
LEMMA PollAsked ==
  ASSUME NEW b \in BoardType, NEW ps \in SUBSET PollType,
         \A r \in ps : r.gen <= b.gen,
         NEW p, p = B!withPoll(b, ps)
  PROVE  /\ p.b \in BoardType /\ p.ps \subseteq PollType
         /\ \A s, v : PollOK(s, v, p.b, p.ps)
         /\ OnlyPolled(b, p.b)
<1> DEFINE n == b.gen + 1
<1>1. n \in Nat /\ b.gen \in Nat /\ \A r \in ps : r.gen \in Nat /\ r.gen <= n /\ r.gen # n
  BY DEF BoardType, PollType
<1>2. CASE b.mode = "single"
 <2>1. p.b = [b EXCEPT !.gen = n, !.timer = TRUE] /\ p.ps = ps BY <1>2 DEF B!withPoll
 <2> HIDE DEF n
 <2>2. /\ p.b \in BoardType /\ p.b.gen = n /\ p.b.timer
       /\ OnlyPolled(b, p.b)
   BY <1>1, <2>1 DEF BoardType
 <2>3. \A s, v : PollOK(s, v, p.b, p.ps) BY <1>1, <2>1, <2>2 DEF PollOK
 <2> QED BY <2>1, <2>2, <2>3
<1>3. CASE b.mode # "single"
 <2> DEFINE q == [sid |-> b.sid, gen |-> n, step |-> "list", groups |-> {}]
 <2>1. p.b = [b EXCEPT !.gen = n, !.timer = FALSE] /\ p.ps = ps \cup {q} BY <1>3 DEF B!withPoll
 <2> HIDE DEF n
 <2>2. /\ p.b \in BoardType /\ p.b.gen = n /\ ~p.b.timer
       /\ OnlyPolled(b, p.b)
   BY <1>1, <2>1 DEF BoardType
 <2>3. q \in PollType /\ q.gen = n /\ q.sid = b.sid /\ q.groups = {}
   BY <1>1 DEF PollType, BoardType
 <2> HIDE DEF q
 <2>4. \A s, v : PollOK(s, v, p.b, p.ps) BY <1>1, <2>1, <2>2, <2>3 DEF PollOK
 <2> QED BY <2>1, <2>2, <2>3, <2>4
<1> QED BY <1>2, <1>3

\* The mode is asked for, unless there is nothing to ask or a choice on its way.
LEMMA LoadAsked ==
  ASSUME NEW s, NEW b \in BoardType, NEW ls \in SUBSET LoadType, NEW rs \in SUBSET SaveType,
         Behind(b, ls, rs), \A r \in ls : r.ans.locked => s[r.sid].locked,
         (LoadOK(s, b, ls) /\ SaveOK(s, b, rs)) \/ (b.sid # NoSession /\ ~b.saving),
         NEW l, l = B!withLoad(b, ls)
  PROVE  /\ l.b \in BoardType /\ l.ls \subseteq LoadType
         /\ LoadOK(s, l.b, l.ls) /\ SaveOK(s, l.b, rs)
         /\ l.b.sid = b.sid /\ l.b.scope = b.scope /\ l.b.mode = b.mode /\ l.b.locked = b.locked
         /\ l.b.saving = b.saving /\ l.b.loading = b.loading /\ l.b.drawn = b.drawn
         /\ l.b.doubt = b.doubt /\ l.b.gen = b.gen /\ l.b.timer = b.timer
<1> DEFINE n == b.mgen + 1
<1>1. /\ n \in Nat /\ b.mgen \in Nat
      /\ \A r \in ls : r.gen \in Nat /\ r.gen <= n /\ r.gen # n
      /\ \A r \in rs : r.gen \in Nat /\ r.gen <= n /\ r.gen # n
  BY DEF BoardType, LoadType, SaveType, Behind
<1>2. CASE b.sid = NoSession \/ b.saving
 <2>1. l.b = b /\ l.ls = ls BY <1>2 DEF B!withLoad
 <2> QED BY <1>2, <2>1
<1>3. CASE b.sid # NoSession /\ ~b.saving
 <2> DEFINE q == [sid |-> b.sid, gen |-> n, ans |-> B!NoMode]
 <2>1. l.b = [b EXCEPT !.mgen = n] /\ l.ls = ls \cup {q} BY <1>3 DEF B!withLoad
 <2> HIDE DEF n
 <2>2. /\ l.b \in BoardType /\ l.b.mgen = n
       /\ l.b.sid = b.sid /\ l.b.scope = b.scope /\ l.b.mode = b.mode /\ l.b.locked = b.locked
       /\ l.b.saving = b.saving /\ l.b.loading = b.loading /\ l.b.drawn = b.drawn
       /\ l.b.doubt = b.doubt /\ l.b.gen = b.gen /\ l.b.timer = b.timer
   BY <1>1, <2>1 DEF BoardType
 <2>3. /\ q \in LoadType /\ q.gen = n /\ q.sid = b.sid /\ q.ans = B!NoMode
       /\ ~q.ans.locked
   BY <1>1, <1>3 DEF LoadType, BoardType, B!NoMode
 <2> HIDE DEF q
 <2>4. LoadOK(s, l.b, l.ls) BY <1>1, <1>3, <2>1, <2>2, <2>3 DEF LoadOK
 <2>5. SaveOK(s, l.b, rs) BY <1>1, <2>2 DEF SaveOK
 <2> QED BY <2>1, <2>2, <2>3, <2>4, <2>5
<1> QED BY <1>2, <1>3

\* Whatever differs only in being open is as good.
LEMMA AlikeOK ==
  ASSUME NEW s, NEW v, NEW b, NEW c, NEW ls, NEW rs, NEW ps, Alike(b, c)
  PROVE  /\ FollowsOK(s, v, b) => FollowsOK(s, v, c)
         /\ PollOK(s, v, b, ps) => PollOK(s, v, c, ps)
         /\ LoadOK(s, b, ls) => LoadOK(s, c, ls)
         /\ SaveOK(s, b, rs) => SaveOK(s, c, rs)
         /\ ModeOK(s, b) => ModeOK(s, c)
         /\ DrawnOK(s, v, b) => DrawnOK(s, v, c)
         /\ LockOK(s, b) => LockOK(s, c)
BY DEF Alike, FollowsOK, PollOK, LoadOK, SaveOK, ModeOK, DrawnOK, LockOK

\* A conversation that is entered is unknown to the board.
LEMMA EnteredShape ==
  ASSUME board \in BoardType, NEW v \in ViewType, NEW b, b = B!Entered(v)
  PROVE  /\ b \in BoardType /\ b.sid = v.sid /\ b.scope = v.scope /\ ~b.locked /\ ~b.saving
         /\ (b.loading <=> v.sid # NoSession) /\ ~b.doubt /\ b.drawn = {}
         /\ b.mgen = board.mgen + 1 /\ b.gen = board.gen + 1
<1> DEFINE m == IF /\ board.scope = NoScope /\ v.scope # NoScope
                   /\ v.sid = NoSession /\ board.sid = NoSession
                   /\ board.draft = v.gen
                THEN board.mode ELSE "single"
           n == board.mgen + 1
           g == board.gen + 1
<1>1. m \in B!Modes /\ n \in Nat /\ g \in Nat BY DEF BoardType, B!Modes
<1>2. PICK e \in BOOLEAN : e = (v.sid # NoSession) OBVIOUS
<1>3. b = [board EXCEPT !.sid = v.sid, !.scope = v.scope, !.draft = v.gen, !.mode = m,
                        !.locked = FALSE, !.saving = FALSE, !.loading = e, !.doubt = FALSE,
                        !.drawn = {}, !.mgen = n, !.gen = g]
  BY <1>2 DEF B!Entered
<1> HIDE DEF m, n, g
<1>4. /\ b \in BoardType /\ b.sid = v.sid /\ b.scope = v.scope /\ ~b.locked /\ ~b.saving
      /\ b.loading = e /\ ~b.doubt /\ b.drawn = {} /\ b.mgen = n /\ b.gen = g
 <2>1. v.sid \in Boards \cup {NoSession} /\ v.scope \in B!Scopes \cup {NoScope} /\ v.gen \in Nat
   BY DEF ViewType
 <2>2. /\ b.sid = v.sid /\ b.scope = v.scope /\ ~b.locked /\ ~b.saving
       /\ b.loading = e /\ ~b.doubt /\ b.drawn = {} /\ b.mgen = n /\ b.gen = g
   BY ONLY board \in BoardType, <1>3 DEF BoardType
 <2>3. b \in BoardType BY ONLY board \in BoardType, <1>1, <1>3, <2>1 DEF BoardType
 <2> QED BY <2>2, <2>3
<1> QED BY <1>2, <1>4 DEF n, g

\* A view that moved takes the board with it.
LEMMA BoardSynced ==
  ASSUME B!IInv, view' \in ViewType, view'.sid # NoSession => srv[view'.sid].known,
         B!syncSession(view'), srv' = srv, saves' = saves
  PROVE  B!IInv'
<1> DEFINE v == view'
           same == /\ v.sid = board.sid /\ v.scope = board.scope
                   /\ v.sid # NoSession \/ board.draft = v.gen
           p == B!withPoll(B!Entered(v), polls)
           b == IF same THEN board ELSE p.b
           l == B!withLoad(b, loads)
<1>1. BoardFine BY BoardParts
<1>2. /\ board' = B!painted(l.b) /\ loads' = l.ls
      /\ polls' = IF same THEN polls ELSE p.ps
  BY DEF B!syncSession
<1> HIDE DEF l
<1>3. ASSUME b \in BoardType, polls' \subseteq PollType, Behind(b, loads, saves),
             LoadOK(srv, b, loads), SaveOK(srv, b, saves),
             FollowsOK(srv, v, b), PollOK(srv, v, b, polls'), ModeOK(srv, b),
             DrawnOK(srv, v, b), LockOK(srv, b)
      PROVE  B!IInv'
 <2> HIDE DEF b, v, p, same
 <2>1. \A r \in loads : r.ans.locked => srv[r.sid].locked BY <1>1 DEF LoadOK
 <2>2. /\ l.b \in BoardType /\ l.ls \subseteq LoadType
       /\ LoadOK(srv, l.b, l.ls) /\ SaveOK(srv, l.b, saves)
       /\ l.b.sid = b.sid /\ l.b.scope = b.scope /\ l.b.mode = b.mode
       /\ l.b.locked = b.locked /\ l.b.saving = b.saving /\ l.b.loading = b.loading
       /\ l.b.drawn = b.drawn /\ l.b.doubt = b.doubt /\ l.b.gen = b.gen
       /\ l.b.timer = b.timer
   BY <1>1, <1>3, <2>1, LoadAsked DEF l
 <2>3. /\ FollowsOK(srv, v, l.b) /\ PollOK(srv, v, l.b, polls') /\ ModeOK(srv, l.b)
       /\ DrawnOK(srv, v, l.b) /\ LockOK(srv, l.b)
   BY <1>3, <2>2 DEF FollowsOK, PollOK, ModeOK, DrawnOK, LockOK
 <2>4. board' \in BoardType /\ Alike(l.b, board') BY <1>2, <2>2, Painted
 <2>5. /\ FollowsOK(srv, v, board') /\ PollOK(srv, v, board', polls') /\ ModeOK(srv, board')
       /\ DrawnOK(srv, v, board') /\ LockOK(srv, board')
       /\ LoadOK(srv, board', l.ls) /\ SaveOK(srv, board', saves)
   BY <2>2, <2>3, <2>4, AlikeOK
 <2> QED BY <1>1, <1>2, <1>3, <2>2, <2>4, <2>5, BoardWhole DEF v
<1>4. CASE same
 <2>1. b = board /\ polls' = polls /\ v.sid = board.sid /\ v.scope = board.scope BY <1>2, <1>4
 <2>2. Behind(board, loads, saves) BY <1>1 DEF Behind, LoadOK, SaveOK
 <2>3. v.scope = view.scope BY <1>1, <2>1 DEF FollowsOK
 <2> HIDE DEF b
 <2>4. FollowsOK(srv, v, board) BY <2>1 DEF FollowsOK
 <2>5. PollOK(srv, v, board, polls) /\ DrawnOK(srv, v, board)
   BY <1>1, <2>3 DEF PollOK, DrawnOK, OwnedBy
 <2> QED BY <1>1, <1>3, <2>1, <2>2, <2>4, <2>5
<1>5. CASE ~same
 <2> DEFINE e == B!Entered(v)
 <2>1. b = p.b /\ polls' = p.ps BY <1>2, <1>5
 <2>2. /\ e \in BoardType /\ e.sid = v.sid /\ e.scope = v.scope /\ ~e.locked /\ ~e.saving
       /\ (e.loading <=> v.sid # NoSession) /\ ~e.doubt /\ e.drawn = {}
       /\ e.mgen = board.mgen + 1 /\ e.gen = board.gen + 1
   BY <1>1, EnteredShape
 <2> HIDE DEF e
 <2>3. p = B!withPoll(e, polls) BY DEF e
 <2> HIDE DEF p, b, same
 <2>4. \A r \in polls : r.gen <= e.gen
  <3>1. \A r \in polls : r.gen <= board.gen /\ r.gen \in Nat BY <1>1 DEF PollOK, PollType
  <3>2. board.gen \in Nat BY <1>1 DEF BoardType
  <3> QED BY <2>2, <3>1, <3>2
 <2>5. /\ p.b \in BoardType /\ p.ps \subseteq PollType /\ PollOK(srv, v, p.b, p.ps)
       /\ p.b.sid = e.sid /\ p.b.scope = e.scope /\ p.b.mode = e.mode
       /\ p.b.locked = e.locked /\ p.b.saving = e.saving /\ p.b.loading = e.loading
       /\ p.b.drawn = e.drawn /\ p.b.doubt = e.doubt /\ p.b.mgen = e.mgen
  <3>1. polls \in SUBSET PollType BY <1>1
  <3> HIDE DEF v
  <3> QED BY ONLY <2>2, <2>3, <2>4, <3>1, PollAsked
 <2>6. \A r \in loads \cup saves : r.gen <= b.mgen /\ r.gen # b.mgen
  <3>1. \A r \in loads \cup saves : r.gen <= board.mgen /\ r.gen \in Nat
    BY <1>1 DEF LoadOK, SaveOK, LoadType, SaveType
  <3>2. board.mgen \in Nat /\ b.mgen = board.mgen + 1 BY <1>1, <2>1, <2>2, <2>5 DEF BoardType
  <3> QED BY <3>1, <3>2
 <2>7. Behind(b, loads, saves) /\ LoadOK(srv, b, loads) /\ SaveOK(srv, b, saves)
   BY <1>1, <2>6 DEF Behind, LoadOK, SaveOK
 <2>8. /\ FollowsOK(srv, v, b) /\ ModeOK(srv, b) /\ DrawnOK(srv, v, b) /\ LockOK(srv, b)
   BY <2>1, <2>2, <2>5 DEF FollowsOK, ModeOK, DrawnOK, LockOK
 <2> QED BY <1>3, <2>1, <2>5, <2>7, <2>8
<1> QED BY <1>4, <1>5

\* A poll that is asked for again disturbs nothing else.
LEMMA BoardRefreshed ==
  ASSUME B!IInv, NEW b \in BoardType, B!Refreshed(b),
         b.sid = board.sid, b.scope = board.scope, b.mode = board.mode,
         b.locked = board.locked, b.saving = board.saving, b.loading = board.loading,
         b.drawn = board.drawn, b.doubt = board.doubt, b.mgen = board.mgen, b.gen = board.gen,
         srv' = srv, view' = view, loads' = loads, saves' = saves
  PROVE  B!IInv'
<1> DEFINE p == B!withPoll(b, polls)
<1>1. BoardFine BY BoardParts
<1>2. board' = p.b /\ polls' = p.ps BY DEF B!Refreshed
<1>3. \A r \in polls : r.gen <= b.gen BY <1>1 DEF PollOK
<1>4. /\ p.b \in BoardType /\ p.ps \subseteq PollType /\ PollOK(srv, view, p.b, p.ps)
      /\ OnlyPolled(b, p.b)
 <2>1. polls \in SUBSET PollType /\ p = B!withPoll(b, polls) BY <1>1
 <2> HIDE DEF p
 <2> QED BY ONLY b \in BoardType, <1>3, <2>1, PollAsked
<1> HIDE DEF p
<1>5. /\ FollowsOK(srv, view, board') /\ ModeOK(srv, board') /\ DrawnOK(srv, view, board')
      /\ LockOK(srv, board') /\ LoadOK(srv, board', loads) /\ SaveOK(srv, board', saves)
  BY <1>1, <1>2, <1>4 DEF FollowsOK, ModeOK, DrawnOK, LockOK, LoadOK, SaveOK
<1> QED BY <1>1, <1>2, <1>4, <1>5, BoardWhole

LEMMA BoardInit == B!Init => B!IInv
<1> SUFFICES ASSUME B!Init PROVE B!IInv OBVIOUS
<1>1. PICK K \in SUBSET Boards : srv = [s \in Boards |-> [known |-> s \in K, mode |-> "single",
                    locked |-> FALSE, running |-> FALSE, grouped |-> FALSE, stray |-> FALSE]]
  BY DEF B!Init
<1>2. srv \in SrvType /\ GroupOK(srv)
 <2>1. \A s \in Boards : (s \in K) \in BOOLEAN OBVIOUS
 <2>2. \A s \in Boards : /\ srv[s] \in [known : BOOLEAN, mode : B!Modes, locked : BOOLEAN,
                                        running : BOOLEAN, grouped : BOOLEAN, stray : BOOLEAN]
                         /\ srv[s].grouped = FALSE
   BY <1>1, <2>1 DEF B!Modes
 <2>3. srv \in SrvType BY <1>1, <2>2 DEF SrvType
 <2> QED BY <2>2, <2>3 DEF GroupOK
<1>3. /\ view = [sid |-> NoSession, scope |-> NoScope, gen |-> 0]
      /\ board = [sid |-> NoSession, scope |-> NoScope, draft |-> 0, mode |-> "single",
                  locked |-> FALSE, saving |-> FALSE, loading |-> FALSE, mgen |-> 1,
                  gen |-> 1, timer |-> TRUE, open |-> FALSE, drawn |-> {}, doubt |-> FALSE]
      /\ loads = {} /\ saves = {} /\ polls = {}
  BY DEF B!Init
<1>4. view \in ViewType /\ board \in BoardType BY <1>3 DEF ViewType, BoardType, B!Modes
<1>5. /\ FollowsOK(srv, view, board) /\ PollOK(srv, view, board, polls)
      /\ LoadOK(srv, board, loads) /\ SaveOK(srv, board, saves) /\ ModeOK(srv, board)
      /\ DrawnOK(srv, view, board) /\ LockOK(srv, board)
  BY <1>3 DEF FollowsOK, PollOK, LoadOK, SaveOK, ModeOK, DrawnOK, LockOK
<1> QED BY <1>2, <1>3, <1>4, <1>5, BoardParts

LEMMA BoardListed ==
  ASSUME B!IInv, B!Listed
  PROVE  B!IInv'
<1>1. view' = view /\ B!syncSession(view) /\ srv' = srv /\ saves' = saves BY DEF B!Listed
<1>2. view \in ViewType /\ (view.sid # NoSession => srv[view.sid].known)
  BY BoardParts DEF FollowsOK
<1>3. B!syncSession(view') BY <1>1
<1> QED BY <1>1, <1>2, <1>3, BoardSynced

LEMMA BoardLogin ==
  ASSUME B!IInv, NEW scope \in B!Scopes, B!Login(scope)
  PROVE  B!IInv'
<1> DEFINE sid == IF view.scope = NoScope THEN view.sid ELSE NoSession
           gen == IF view.scope = NoScope THEN view.gen ELSE view.gen + 1
<1>1. /\ view' = [view EXCEPT !.scope = scope, !.sid = sid, !.gen = gen]
      /\ B!syncSession(view') /\ srv' = srv /\ saves' = saves
  BY DEF B!Login
<1>2. view \in ViewType /\ (view.sid # NoSession => srv[view.sid].known)
  BY BoardParts DEF FollowsOK
<1>3. /\ sid \in Boards \cup {NoSession} /\ gen \in Nat
      /\ sid # NoSession => srv[sid].known
  BY <1>2 DEF ViewType
<1> HIDE DEF sid, gen
<1>4. view' = [sid |-> sid, scope |-> scope, gen |-> gen] BY <1>1, <1>2 DEF ViewType
<1>5. view' \in ViewType /\ view'.sid = sid BY <1>3, <1>4 DEF ViewType
<1> QED BY <1>1, <1>3, <1>5, BoardSynced

LEMMA BoardOpen ==
  ASSUME B!IInv, NEW id \in Boards, B!openSession(id)
  PROVE  B!IInv'
<1>1. /\ view' = [view EXCEPT !.sid = id, !.gen = @ + 1] /\ srv[id].known
      /\ B!syncSession(view') /\ srv' = srv /\ saves' = saves
  BY DEF B!openSession, B!Own
<1>2. view \in ViewType BY BoardParts
<1>3. view' = [sid |-> id, scope |-> view.scope, gen |-> view.gen + 1]
  BY <1>1, <1>2 DEF ViewType
<1>4. view.gen + 1 \in Nat /\ view.scope \in B!Scopes \cup {NoScope} BY <1>2 DEF ViewType
<1>5. view' \in ViewType /\ view'.sid = id BY <1>3, <1>4 DEF ViewType
<1> QED BY <1>1, <1>5, BoardSynced

LEMMA BoardNew ==
  ASSUME B!IInv, B!newSession
  PROVE  B!IInv'
<1>1. /\ view' = [view EXCEPT !.sid = NoSession, !.gen = @ + 1]
      /\ B!syncSession(view') /\ srv' = srv /\ saves' = saves
  BY DEF B!newSession
<1>2. view \in ViewType BY BoardParts
<1>3. view' = [sid |-> NoSession, scope |-> view.scope, gen |-> view.gen + 1]
  BY <1>1, <1>2 DEF ViewType
<1>4. view.gen + 1 \in Nat /\ view.scope \in B!Scopes \cup {NoScope} BY <1>2 DEF ViewType
<1>5. view' \in ViewType /\ view'.sid = NoSession BY <1>3, <1>4 DEF ViewType
<1> QED BY <1>1, <1>5, BoardSynced

LEMMA BoardTimer ==
  ASSUME B!IInv, B!TimerFires \/ B!cancel
  PROVE  B!IInv'
<1>1. /\ B!Refreshed(board)
      /\ srv' = srv /\ view' = view /\ loads' = loads /\ saves' = saves
  BY DEF B!TimerFires, B!cancel
<1>2. board \in BoardType BY BoardParts
<1> QED BY <1>1, <1>2, BoardRefreshed

LEMMA BoardToggle ==
  ASSUME B!IInv, B!toggle
  PROVE  B!IInv'
<1>1. board \in BoardType BY BoardParts
<1>2. PICK o \in BOOLEAN : o = ~board.open OBVIOUS
<1> DEFINE b == [board EXCEPT !.open = o]
<1>3. /\ B!Refreshed(b)
      /\ srv' = srv /\ view' = view /\ loads' = loads /\ saves' = saves
  BY <1>2 DEF B!toggle
<1>4. /\ b \in BoardType
      /\ b.sid = board.sid /\ b.scope = board.scope /\ b.mode = board.mode
      /\ b.locked = board.locked /\ b.saving = board.saving /\ b.loading = board.loading
      /\ b.drawn = board.drawn /\ b.doubt = board.doubt /\ b.mgen = board.mgen
      /\ b.gen = board.gen
  BY <1>1 DEF BoardType
<1> HIDE DEF b
<1> QED BY <1>3, <1>4, BoardRefreshed

\* A board painted from one that is right is right.
LEMMA BoardPainted ==
  ASSUME NEW b \in BoardType, board' = b \/ board' = B!painted(b),
         srv' \in SrvType, view' \in ViewType,
         loads' \subseteq LoadType, saves' \subseteq SaveType, polls' \subseteq PollType,
         FollowsOK(srv', view', b), GroupOK(srv'), PollOK(srv', view', b, polls'),
         LoadOK(srv', b, loads'), SaveOK(srv', b, saves'), ModeOK(srv', b),
         DrawnOK(srv', view', b), LockOK(srv', b)
  PROVE  B!IInv'
<1>1. board' \in BoardType /\ Alike(b, board') BY Painted DEF Alike
<1>2. /\ FollowsOK(srv', view', board') /\ PollOK(srv', view', board', polls')
      /\ LoadOK(srv', board', loads') /\ SaveOK(srv', board', saves') /\ ModeOK(srv', board')
      /\ DrawnOK(srv', view', board') /\ LockOK(srv', board')
  BY <1>1, AlikeOK
<1> QED BY <1>1, <1>2, BoardWhole

\* A choice leaves every earlier request behind; that of a conversation is sent.
LEMMA BoardChoose ==
  ASSUME B!IInv, NEW next \in B!Modes, B!chooseMode(next)
  PROVE  B!IInv'
<1> DEFINE n == board.mgen + 1
<1>1. BoardFine BY BoardParts
<1>2. srv' = srv /\ view' = view /\ loads' = loads /\ polls' = polls BY DEF B!chooseMode
<1>3. /\ n \in Nat
      /\ \A r \in loads \cup saves : r.gen <= n /\ r.gen # n
      /\ \A r \in loads : r.ans.locked => srv[r.sid].locked
  BY <1>1 DEF BoardType, LoadType, SaveType, LoadOK, SaveOK
<1>4. CASE board.sid = NoSession
 <2> DEFINE b == [board EXCEPT !.mode = next, !.mgen = n]
 <2>1. board' = B!painted(b) /\ saves' = saves BY <1>4 DEF B!chooseMode
 <2> HIDE DEF n
 <2>2. /\ b \in BoardType /\ b.sid = board.sid /\ b.scope = board.scope
       /\ b.locked = board.locked /\ b.drawn = board.drawn /\ b.gen = board.gen
       /\ b.timer = board.timer /\ b.mgen = n
   BY <1>1, <1>3 DEF BoardType
 <2> HIDE DEF b
 <2>3. LoadOK(srv, b, loads) /\ SaveOK(srv, b, saves) BY <1>3, <2>2 DEF LoadOK, SaveOK
 <2>4. /\ FollowsOK(srv, view, b) /\ PollOK(srv, view, b, polls) /\ ModeOK(srv, b)
       /\ DrawnOK(srv, view, b) /\ LockOK(srv, b)
   BY <1>1, <1>4, <2>2 DEF FollowsOK, PollOK, ModeOK, DrawnOK, LockOK
 <2> QED BY <1>1, <1>2, <2>1, <2>2, <2>3, <2>4, BoardPainted
<1>5. CASE board.sid # NoSession
 <2> DEFINE b == [board EXCEPT !.mode = next, !.saving = TRUE, !.mgen = n]
            q == [sid |-> board.sid, gen |-> n, next |-> next, before |-> board.mode,
                  end |-> "open"]
 <2>1. board' = B!painted(b) /\ saves' = saves \cup {q} BY <1>5 DEF B!chooseMode
 <2> HIDE DEF n
 <2>2. /\ b \in BoardType /\ b.sid = board.sid /\ b.scope = board.scope
       /\ b.locked = board.locked /\ b.drawn = board.drawn /\ b.gen = board.gen
       /\ b.timer = board.timer /\ b.mgen = n /\ b.saving /\ b.mode = next
   BY <1>1, <1>3 DEF BoardType
 <2>3. /\ q \in SaveType /\ q.gen = n /\ q.sid = board.sid /\ q.next = next
       /\ q.end # "ok"
   BY <1>1, <1>3, <1>5 DEF SaveType, BoardType
 <2> HIDE DEF b, q
 <2>4. LoadOK(srv, b, loads) /\ SaveOK(srv, b, saves')
   BY <1>3, <2>1, <2>2, <2>3 DEF LoadOK, SaveOK
 <2>5. /\ FollowsOK(srv, view, b) /\ PollOK(srv, view, b, polls) /\ ModeOK(srv, b)
       /\ DrawnOK(srv, view, b) /\ LockOK(srv, b)
   BY <1>1, <2>2 DEF FollowsOK, PollOK, ModeOK, DrawnOK, LockOK
 <2> QED BY <1>1, <1>2, <2>1, <2>2, <2>3, <2>4, <2>5, BoardPainted
<1> QED BY <1>4, <1>5

\* What a server has learnt it keeps, as far as the board's rows go.
LEMMA ServerGrown ==
  ASSUME NEW s, NEW t, NEW v \in ViewType, NEW b \in BoardType, NEW ps \in SUBSET PollType,
         \A id \in Boards : /\ s[id].known => t[id].known
                            /\ s[id].locked => t[id].locked
                            /\ s[id].grouped => t[id].grouped
  PROVE  /\ FollowsOK(s, v, b) => FollowsOK(t, v, b)
         /\ PollOK(s, v, b, ps) => PollOK(t, v, b, ps)
         /\ DrawnOK(s, v, b) => DrawnOK(t, v, b)
         /\ LockOK(s, b) => LockOK(t, b)
<1>1. \A id \in Boards : OwnedBy(s, v, id) => OwnedBy(t, v, id) BY DEF OwnedBy
<1>2. \A r \in ps : r.groups \subseteq Boards BY DEF PollType
<1>3. b.sid \in Boards \cup {NoSession} /\ v.sid \in Boards \cup {NoSession} /\ b.drawn \subseteq Boards
  BY DEF BoardType, ViewType
<1>4. FollowsOK(s, v, b) => FollowsOK(t, v, b) BY <1>3 DEF FollowsOK
<1>5. DrawnOK(s, v, b) => DrawnOK(t, v, b) BY <1>1, <1>3 DEF DrawnOK
<1>6. LockOK(s, b) => LockOK(t, b) BY <1>3 DEF LockOK
<1>7. PollOK(s, v, b, ps) => PollOK(t, v, b, ps)
 <2> SUFFICES ASSUME PollOK(s, v, b, ps) PROVE PollOK(t, v, b, ps) OBVIOUS
 <2>1. ASSUME NEW r \in ps, r.gen = b.gen
       PROVE  \A id \in r.groups : OwnedBy(t, v, id) /\ t[id].grouped
   BY <1>1, <1>2, <2>1 DEF PollOK
 <2> QED BY <2>1 DEF PollOK
<1> QED BY <1>4, <1>5, <1>6, <1>7

\* The server takes a choice, or not, and the page is told, or not.
LEMMA BoardSaveServed ==
  ASSUME B!IInv, NEW r \in saves, B!SaveServed(r)
  PROVE  B!IInv'
<1> DEFINE id == r.sid
           taken == ~srv[id].running /\ (srv[id].locked => srv[id].mode = r.next)
<1>1. BoardFine BY BoardParts
<1>2. PICK e \in {"ok", "error"}, y \in BOOLEAN :
        /\ y = (srv[id].stray \/ r.gen # board.mgen)
        /\ saves' = (saves \ {r}) \cup {[r EXCEPT !.end = e]}
        /\ \/ srv' = srv /\ e = "error"
           \/ taken /\ srv' = [srv EXCEPT ![id].mode = r.next, ![id].stray = y]
 <2>1. PICK y \in BOOLEAN : y = (srv[id].stray \/ r.gen # board.mgen) OBVIOUS
 <2> DEFINE kept == IF taken
                    THEN [srv EXCEPT ![id].mode = r.next,
                                     ![id].stray = @ \/ r.gen # board.mgen]
                    ELSE srv
 <2>2. \/ /\ srv' = kept
          /\ saves' = (saves \ {r}) \cup {[r EXCEPT !.end = IF taken THEN "ok" ELSE "error"]}
       \/ /\ saves' = (saves \ {r}) \cup {[r EXCEPT !.end = "error"]}
          /\ srv' \in {srv, kept}
   BY DEF B!SaveServed
 <2>3. taken => kept = [srv EXCEPT ![id].mode = r.next, ![id].stray = y]
  <3>1. id \in Boards BY <1>1 DEF SaveType
  <3> QED BY <1>1, <2>1, <3>1 DEF SrvType
 <2>4. ~taken => kept = srv OBVIOUS
 <2> HIDE DEF kept, taken
 <2> QED BY <2>1, <2>2, <2>3, <2>4
<1> HIDE DEF taken
<1>3. view' = view /\ board' = board /\ loads' = loads /\ polls' = polls BY DEF B!SaveServed
<1> DEFINE q == [r EXCEPT !.end = e]
<1>4. /\ q \in SaveType /\ q.gen = r.gen /\ q.sid = r.sid /\ q.next = r.next /\ q.end = e
      /\ r \in SaveType /\ id \in Boards /\ r.next \in B!Modes
  BY <1>1 DEF SaveType
<1>5. saves' = (saves \ {r}) \cup {q} /\ saves' \subseteq SaveType BY <1>1, <1>2, <1>4
<1> HIDE DEF q
<1>6. CASE srv' = srv /\ e = "error"
 <2>1. SaveOK(srv, board, saves') BY <1>1, <1>4, <1>5, <1>6 DEF SaveOK
 <2> QED BY <1>1, <1>3, <1>5, <1>6, <2>1, BoardWhole
<1>7. CASE taken /\ srv' = [srv EXCEPT ![id].mode = r.next, ![id].stray = y]
 <2>1. /\ srv[id] \in [known : BOOLEAN, mode : B!Modes, locked : BOOLEAN,
                       running : BOOLEAN, grouped : BOOLEAN, stray : BOOLEAN]
       /\ srv[id].locked => srv[id].mode = r.next
   BY <1>1, <1>4, <1>7 DEF SrvType, taken
 <2>2. srv' = [srv EXCEPT ![id] = [srv[id] EXCEPT !.mode = r.next, !.stray = y]]
   BY <1>1, <1>4, <1>7 DEF SrvType
 <2>3. /\ srv' \in SrvType
       /\ \A s \in Boards : s # id => srv'[s] = srv[s]
       /\ srv'[id].known = srv[id].known /\ srv'[id].locked = srv[id].locked
       /\ srv'[id].grouped = srv[id].grouped
       /\ srv'[id].mode = r.next /\ srv'[id].stray = y
   BY <1>1, <1>4, <2>1, <2>2 DEF SrvType
 <2>4. \A s \in Boards : /\ srv[s].known => srv'[s].known
                         /\ srv[s].locked => srv'[s].locked
                         /\ srv[s].grouped => srv'[s].grouped
   BY <2>3
 <2>5. /\ FollowsOK(srv', view, board) /\ PollOK(srv', view, board, polls)
       /\ DrawnOK(srv', view, board) /\ LockOK(srv', board)
   BY <1>1, <2>4, ServerGrown
 <2>6. GroupOK(srv') BY <1>1, <2>3 DEF GroupOK
 <2>7. ~srv'[id].stray => ~srv[id].stray /\ r.gen = board.mgen /\ board.saving /\ id = board.sid
   BY <1>1, <1>2, <2>3 DEF SaveOK
 <2>8. LoadOK(srv', board, loads)
  <3> SUFFICES ASSUME NEW l \in loads
               PROVE  /\ l.gen <= board.mgen
                      /\ l.ans.locked => srv'[l.sid].locked
                      /\ l.gen = board.mgen =>
                            /\ ~board.saving /\ l.sid = board.sid
                            /\ l.ans # B!NoMode /\ ~srv'[l.sid].stray =>
                                   l.ans.mode = srv'[l.sid].mode
    BY DEF LoadOK
  <3>1. l.sid \in Boards BY <1>1 DEF LoadType
  <3>2. /\ l.gen <= board.mgen
        /\ l.ans.locked => srv[l.sid].locked
        /\ l.gen = board.mgen =>
              /\ ~board.saving /\ l.sid = board.sid
              /\ l.ans # B!NoMode /\ ~srv[l.sid].stray => l.ans.mode = srv[l.sid].mode
    BY <1>1 DEF LoadOK
  <3> QED BY <2>3, <2>4, <2>7, <3>1, <3>2
 <2>9. ModeOK(srv', board)
  <3>1. board.sid \in Boards \cup {NoSession} BY <1>1 DEF BoardType
  <3> QED BY <1>1, <2>3, <2>7, <3>1 DEF ModeOK
 <2>10. SaveOK(srv', board, saves')
  <3> SUFFICES ASSUME NEW x \in saves'
               PROVE  /\ x.gen <= board.mgen
                      /\ x.gen = board.mgen =>
                            /\ board.saving /\ x.sid = board.sid
                            /\ \/ board.mode = x.next
                               \/ srv'[x.sid].locked /\ board.mode = srv'[x.sid].mode
                            /\ x.end = "ok" /\ ~srv'[x.sid].stray =>
                                   srv'[x.sid].mode = x.next
    BY DEF SaveOK
  <3>1. /\ r.gen <= board.mgen
        /\ r.gen = board.mgen =>
              /\ board.saving /\ id = board.sid
              /\ board.mode = r.next \/ (srv[id].locked /\ board.mode = srv[id].mode)
    BY <1>1 DEF SaveOK
  <3>2. CASE x = q BY <1>4, <2>1, <2>3, <3>1, <3>2
  <3>3. CASE x # q
   <4>1. x \in saves /\ x.sid \in Boards BY <1>1, <1>5, <3>3 DEF SaveType
   <4>2. /\ x.gen <= board.mgen
         /\ x.gen = board.mgen =>
               /\ board.saving /\ x.sid = board.sid
               /\ board.mode = x.next \/ (srv[x.sid].locked /\ board.mode = srv[x.sid].mode)
               /\ x.end = "ok" /\ ~srv[x.sid].stray => srv[x.sid].mode = x.next
     BY <1>1, <4>1 DEF SaveOK
   <4>3. CASE x.sid # id BY <2>3, <4>1, <4>2, <4>3
   <4>4. CASE x.sid = id BY <2>1, <2>3, <2>7, <3>1, <4>2, <4>4
   <4> QED BY <4>3, <4>4
  <3> QED BY <3>2, <3>3
 <2> QED BY <1>1, <1>3, <1>5, <2>3, <2>5, <2>6, <2>8, <2>9, <2>10, BoardWhole
<1> QED BY <1>2, <1>6, <1>7

\* The answer to a choice settles it, and the mode is asked for again.
LEMMA BoardSaved ==
  ASSUME B!IInv, NEW r \in saves, B!Saved(r)
  PROVE  B!IInv'
<1>1. BoardFine BY BoardParts
<1>2. /\ r.end # "open" /\ saves' = saves \ {r}
      /\ srv' = srv /\ view' = view /\ polls' = polls
  BY DEF B!Saved
<1>3. saves' \subseteq SaveType /\ SaveOK(srv, board, saves') BY <1>1, <1>2 DEF SaveOK
<1>4. CASE r.gen # board.mgen
 <2>1. board' = board /\ loads' = loads BY <1>4 DEF B!Saved
 <2> QED BY <1>1, <1>2, <1>3, <2>1, BoardWhole
<1>5. CASE r.gen = board.mgen
 <2> DEFINE mode == IF r.end = "error" THEN r.before ELSE board.mode
 <2>1. PICK d \in BOOLEAN : d = (r.end = "error") OBVIOUS
 <2> DEFINE b == [board EXCEPT !.saving = FALSE, !.doubt = d, !.mode = mode]
            c == B!painted(b)
            l == B!withLoad(c, loads)
 <2>2. board' = l.b /\ loads' = l.ls BY <1>5, <2>1 DEF B!Saved
 <2>3. /\ r.sid = board.sid /\ board.sid # NoSession /\ r.sid \in Boards
       /\ board.mode = r.next \/ (srv[r.sid].locked /\ board.mode = srv[r.sid].mode)
       /\ r.end = "ok" /\ ~srv[r.sid].stray => srv[r.sid].mode = r.next
       /\ r.end \in {"ok", "error"}
   BY <1>1, <1>2, <1>5, BoardAssumption DEF SaveOK, SaveType
 <2>4. mode \in B!Modes BY <1>1 DEF BoardType, SaveType
 <2>5. ~d => mode = board.mode /\ r.end = "ok"
  <3>1. CASE r.end = "error" BY <2>1, <3>1
  <3>2. CASE r.end = "ok" BY <3>2
  <3> QED BY <2>3, <3>1, <3>2
 <2> HIDE DEF mode
 <2>6. /\ b \in BoardType /\ b.sid = board.sid /\ b.scope = board.scope
       /\ b.locked = board.locked /\ b.drawn = board.drawn /\ b.gen = board.gen
       /\ b.timer = board.timer /\ b.mgen = board.mgen /\ ~b.saving /\ b.mode = mode
       /\ b.doubt = d
   BY <1>1, <2>4 DEF BoardType
 <2> HIDE DEF b
 <2>7. c \in BoardType /\ Alike(b, c) BY <2>6, Painted
 <2> HIDE DEF c
 <2>8. /\ c.sid = board.sid /\ c.scope = board.scope /\ ~c.saving /\ c.mode = mode
       /\ c.locked = board.locked /\ c.drawn = board.drawn /\ c.gen = board.gen
       /\ c.timer = board.timer /\ c.mgen = board.mgen /\ c.doubt = d
   BY <2>6, <2>7 DEF Alike
 <2>9. Behind(c, loads, saves') /\ \A x \in loads : x.ans.locked => srv[x.sid].locked
   BY <1>1, <1>3, <2>8 DEF Behind, LoadOK, SaveOK
 <2>10. /\ l.b \in BoardType /\ l.ls \subseteq LoadType
        /\ LoadOK(srv, l.b, l.ls) /\ SaveOK(srv, l.b, saves')
        /\ l.b.sid = c.sid /\ l.b.scope = c.scope /\ l.b.mode = c.mode
        /\ l.b.locked = c.locked /\ l.b.drawn = c.drawn /\ l.b.doubt = c.doubt
        /\ l.b.gen = c.gen /\ l.b.timer = c.timer
  <3>1. loads \in SUBSET LoadType /\ saves' \in SUBSET SaveType
        /\ c.sid # NoSession
    BY <1>1, <1>3, <2>3, <2>8
  <3> QED BY <2>7, <2>8, <2>9, <3>1, LoadAsked
 <2> HIDE DEF l
 <2>11. /\ FollowsOK(srv, view, l.b) /\ PollOK(srv, view, l.b, polls)
        /\ DrawnOK(srv, view, l.b) /\ LockOK(srv, l.b)
   BY <1>1, <2>8, <2>10 DEF FollowsOK, PollOK, DrawnOK, LockOK
 <2>12. ModeOK(srv, l.b) BY <2>3, <2>5, <2>8, <2>10 DEF ModeOK
 <2> QED BY <1>1, <1>2, <1>3, <2>2, <2>10, <2>11, <2>12, BoardWhole
<1> QED BY <1>4, <1>5

LEMMA BoardLoadServed ==
  ASSUME B!IInv, NEW r \in loads, B!LoadServed(r)
  PROVE  B!IInv'
<1>1. BoardFine BY BoardParts
<1> DEFINE a == [mode |-> srv[r.sid].mode, locked |-> srv[r.sid].locked]
           q == [r EXCEPT !.ans = a]
<1>2. /\ loads' = (loads \ {r}) \cup {q}
      /\ srv' = srv /\ view' = view /\ board' = board /\ saves' = saves /\ polls' = polls
  BY DEF B!LoadServed, B!modeOf
<1>3. /\ a \in [mode : B!Modes, locked : BOOLEAN] /\ r \in LoadType
      /\ a.mode = srv[r.sid].mode /\ a.locked = srv[r.sid].locked
  BY <1>1 DEF SrvType, LoadType
<1> HIDE DEF a
<1>4. q \in LoadType /\ q.sid = r.sid /\ q.gen = r.gen /\ q.ans = a BY <1>3 DEF LoadType
<1> HIDE DEF q
<1>5. LoadOK(srv, board, loads') BY <1>1, <1>2, <1>3, <1>4 DEF LoadOK
<1> QED BY <1>1, <1>2, <1>4, <1>5, BoardWhole

\* The newest answer is what the server has; an open board then asks for its groups.
LEMMA BoardLoaded ==
  ASSUME B!IInv, NEW r \in loads, B!Loaded(r)
  PROVE  B!IInv'
<1>1. BoardFine BY BoardParts
<1>2. /\ r.ans # B!NoMode /\ loads' = loads \ {r}
      /\ srv' = srv /\ view' = view /\ saves' = saves
  BY DEF B!Loaded
<1>3. loads' \subseteq LoadType /\ LoadOK(srv, board, loads') BY <1>1, <1>2 DEF LoadOK
<1>4. CASE r.gen # board.mgen
 <2>1. board' = board /\ polls' = polls BY <1>4 DEF B!Loaded
 <2> QED BY <1>1, <1>2, <1>3, <2>1, BoardWhole
<1>5. CASE r.gen = board.mgen
 <2> DEFINE b == [board EXCEPT !.mode = r.ans.mode, !.locked = r.ans.locked,
                               !.loading = FALSE, !.doubt = FALSE]
            c == B!painted(b)
            p == B!withPoll(c, polls)
 <2>1. \/ board' = p.b /\ polls' = p.ps
       \/ board' = c /\ polls' = polls
   BY <1>5 DEF B!Loaded, B!Refreshed
 <2>2. /\ r.ans.mode \in B!Modes /\ r.ans.locked \in BOOLEAN /\ r.sid \in Boards
       /\ r.sid # NoSession
   BY <1>1, <1>2, BoardAssumption DEF LoadType
 <2>3. /\ ~board.saving /\ r.sid = board.sid
       /\ ~srv[r.sid].stray => r.ans.mode = srv[r.sid].mode
       /\ r.ans.locked => srv[r.sid].locked
   BY <1>1, <1>2, <1>5 DEF LoadOK
 <2>4. /\ b \in BoardType /\ b.sid = board.sid /\ b.scope = board.scope
       /\ b.locked = r.ans.locked /\ b.drawn = board.drawn /\ b.gen = board.gen
       /\ b.timer = board.timer /\ b.mgen = board.mgen /\ b.saving = board.saving
       /\ b.mode = r.ans.mode
   BY <1>1, <2>2 DEF BoardType
 <2> HIDE DEF b
 <2>5. LoadOK(srv, b, loads') /\ SaveOK(srv, b, saves)
   BY <1>1, <1>3, <2>3, <2>4 DEF LoadOK, SaveOK
 <2>6. /\ FollowsOK(srv, view, b) /\ PollOK(srv, view, b, polls)
       /\ DrawnOK(srv, view, b) /\ LockOK(srv, b) /\ ModeOK(srv, b)
   BY <1>1, <2>2, <2>3, <2>4 DEF FollowsOK, PollOK, DrawnOK, LockOK, ModeOK
 <2>7. CASE board' = c /\ polls' = polls
   BY <1>1, <1>2, <1>3, <2>4, <2>5, <2>6, <2>7, BoardPainted
 <2>8. CASE board' = p.b /\ polls' = p.ps
  <3>1. c \in BoardType /\ Alike(b, c) BY <2>4, Painted
  <3> HIDE DEF c
  <3>2. \A x \in polls : x.gen <= c.gen BY <1>1, <2>4, <3>1 DEF PollOK, Alike
  <3>3. /\ FollowsOK(srv, view, c) /\ DrawnOK(srv, view, c) /\ LockOK(srv, c)
        /\ ModeOK(srv, c) /\ LoadOK(srv, c, loads') /\ SaveOK(srv, c, saves)
    BY <2>5, <2>6, <3>1, AlikeOK
  <3>4. /\ p.b \in BoardType /\ p.ps \subseteq PollType /\ PollOK(srv, view, p.b, p.ps)
        /\ p.b.sid = c.sid /\ p.b.scope = c.scope /\ p.b.mode = c.mode
        /\ p.b.locked = c.locked /\ p.b.saving = c.saving /\ p.b.loading = c.loading
        /\ p.b.drawn = c.drawn /\ p.b.doubt = c.doubt /\ p.b.mgen = c.mgen
   <4>1. polls \in SUBSET PollType /\ p = B!withPoll(c, polls) BY <1>1
   <4> HIDE DEF p
   <4> QED BY ONLY <3>1, <3>2, <4>1, PollAsked
  <3> HIDE DEF p
  <3>5. /\ FollowsOK(srv, view, p.b) /\ DrawnOK(srv, view, p.b) /\ LockOK(srv, p.b)
        /\ ModeOK(srv, p.b) /\ LoadOK(srv, p.b, loads') /\ SaveOK(srv, p.b, saves)
    BY <3>3, <3>4 DEF FollowsOK, DrawnOK, LockOK, ModeOK, LoadOK, SaveOK
  <3> QED BY <1>1, <1>2, <1>3, <2>8, <3>4, <3>5, BoardWhole
 <2> QED BY <2>1, <2>7, <2>8
<1> QED BY <1>4, <1>5

LEMMA BoardLoadFailed ==
  ASSUME B!IInv, NEW r \in loads, B!LoadFailed(r)
  PROVE  B!IInv'
<1>1. BoardFine BY BoardParts
<1>2. /\ loads' = loads \ {r} /\ srv' = srv /\ view' = view /\ board' = board
      /\ saves' = saves /\ polls' = polls
  BY DEF B!LoadFailed
<1>3. loads' \subseteq LoadType /\ LoadOK(srv, board, loads') BY <1>1, <1>2 DEF LoadOK
<1> QED BY <1>1, <1>2, <1>3, BoardWhole

\* The server lists the groups of the login.
LEMMA BoardPollServed ==
  ASSUME B!IInv, NEW r \in polls, B!PollServed(r)
  PROVE  B!IInv'
<1>1. BoardFine BY BoardParts
<1> DEFINE g == {s \in Boards : B!Own(s) /\ srv[s].grouped}
           q == [r EXCEPT !.step = "listed", !.groups = g]
<1>2. /\ polls' = (polls \ {r}) \cup {q}
      /\ srv' = srv /\ view' = view /\ board' = board /\ loads' = loads /\ saves' = saves
  BY DEF B!PollServed
<1>3. g \subseteq Boards /\ \A id \in g : OwnedBy(srv, view, id) /\ srv[id].grouped
  BY DEF B!Own, OwnedBy
<1> HIDE DEF g
<1>4. q \in PollType /\ q.sid = r.sid /\ q.gen = r.gen /\ q.groups = g
  BY <1>1, <1>3 DEF PollType
<1> HIDE DEF q
<1>5. PollOK(srv, view, board, polls') BY <1>1, <1>2, <1>3, <1>4 DEF PollOK
<1> QED BY <1>1, <1>2, <1>4, <1>5, BoardWhole

\* The poll that counts may find the execution fixed; it goes on, or the timer does.
LEMMA BoardPollListed ==
  ASSUME B!IInv, NEW r \in polls, B!PollListed(r)
  PROVE  B!IInv'
<1>1. BoardFine BY BoardParts
<1>2. srv' = srv /\ view' = view /\ loads' = loads /\ saves' = saves BY DEF B!PollListed
<1>3. CASE r.gen # board.gen
 <2>1. polls' = polls \ {r} /\ board' = board BY <1>3 DEF B!PollListed
 <2>2. PollOK(srv, view, board, polls') /\ polls' \subseteq PollType
   BY <1>1, <1>3, <2>1 DEF PollOK
 <2> QED BY <1>1, <1>2, <2>1, <2>2, BoardWhole
<1>4. CASE r.gen = board.gen
 <2> DEFINE mine == r.sid \in r.groups
            c == [board EXCEPT !.locked = TRUE, !.mode = srv[r.sid].mode]
            b == IF mine THEN B!painted(c) ELSE board
            q == [r EXCEPT !.step = "detail"]
 <2>1. \/ polls' = (polls \ {r}) \cup {q} /\ board' = b
       \/ polls' = polls \ {r} /\ board' = [b EXCEPT !.timer = TRUE]
   BY <1>4 DEF B!PollListed
 <2>2. /\ q \in PollType /\ q.gen = r.gen /\ q.sid = r.sid /\ q.groups = r.groups
       /\ r.sid = board.sid /\ ~board.timer
       /\ \A id \in r.groups : OwnedBy(srv, view, id) /\ srv[id].grouped
       /\ r.groups \subseteq Boards
   BY <1>1, <1>4 DEF PollOK, PollType
 <2> HIDE DEF q
 <2>3. /\ b \in BoardType /\ b.sid = board.sid /\ b.scope = board.scope
       /\ b.drawn = board.drawn /\ b.gen = board.gen /\ b.timer = board.timer
       /\ FollowsOK(srv, view, b) /\ LoadOK(srv, b, loads) /\ SaveOK(srv, b, saves)
       /\ ModeOK(srv, b) /\ DrawnOK(srv, view, b) /\ LockOK(srv, b)
  <3>1. CASE mine
   <4>1. /\ r.sid \in Boards /\ r.sid # NoSession
         /\ srv[r.sid].locked /\ srv[r.sid].mode \in B!Modes
     BY <1>1, <2>2, <3>1, BoardAssumption DEF GroupOK, SrvType
   <4>2. /\ c \in BoardType /\ c.sid = board.sid /\ c.scope = board.scope
         /\ c.drawn = board.drawn /\ c.gen = board.gen /\ c.timer = board.timer
         /\ c.mgen = board.mgen /\ c.saving = board.saving /\ c.locked
         /\ c.mode = srv[r.sid].mode
     BY <1>1, <4>1 DEF BoardType
   <4>3. b = B!painted(c) BY <3>1
   <4> HIDE DEF c, b, mine
   <4>4. LoadOK(srv, c, loads) /\ SaveOK(srv, c, saves)
     BY <1>1, <2>2, <4>1, <4>2 DEF LoadOK, SaveOK
   <4>5. FollowsOK(srv, view, c) /\ ModeOK(srv, c) /\ DrawnOK(srv, view, c) /\ LockOK(srv, c)
     BY <1>1, <2>2, <4>1, <4>2 DEF FollowsOK, ModeOK, DrawnOK, LockOK
   <4>6. b \in BoardType /\ Alike(c, b) BY <4>2, <4>3, Painted
   <4>7. /\ FollowsOK(srv, view, b) /\ LoadOK(srv, b, loads) /\ SaveOK(srv, b, saves)
         /\ ModeOK(srv, b) /\ DrawnOK(srv, view, b) /\ LockOK(srv, b)
     BY <4>4, <4>5, <4>6, AlikeOK
   <4> QED BY <4>2, <4>6, <4>7 DEF Alike
  <3>2. CASE ~mine BY <1>1, <3>2
  <3> QED BY <3>1, <3>2
 <2> HIDE DEF b, mine
 <2>4. CASE polls' = (polls \ {r}) \cup {q} /\ board' = b
  <3>1. PollOK(srv, view, b, polls') /\ polls' \subseteq PollType
    BY <1>1, <1>4, <2>2, <2>3, <2>4 DEF PollOK
  <3> QED BY <1>1, <1>2, <2>3, <2>4, <3>1, BoardWhole
 <2>5. CASE polls' = polls \ {r} /\ board' = [b EXCEPT !.timer = TRUE]
  <3>1. /\ board' \in BoardType /\ board'.sid = b.sid /\ board'.scope = b.scope
        /\ board'.mode = b.mode /\ board'.locked = b.locked /\ board'.saving = b.saving
        /\ board'.loading = b.loading /\ board'.drawn = b.drawn /\ board'.doubt = b.doubt
        /\ board'.mgen = b.mgen /\ board'.gen = b.gen /\ board'.timer
    BY <2>3, <2>5 DEF BoardType
  <3>2. \A x \in polls' : x.gen <= board.gen /\ x.gen # board.gen BY <1>1, <1>4, <2>5 DEF PollOK
  <3>3. PollOK(srv, view, board', polls') /\ polls' \subseteq PollType
    BY <1>1, <2>3, <2>5, <3>1, <3>2 DEF PollOK
  <3>4. /\ FollowsOK(srv, view, board') /\ LoadOK(srv, board', loads)
        /\ SaveOK(srv, board', saves) /\ ModeOK(srv, board')
        /\ DrawnOK(srv, view, board') /\ LockOK(srv, board')
    BY <2>3, <3>1 DEF FollowsOK, LoadOK, SaveOK, ModeOK, DrawnOK, LockOK
  <3> QED BY <1>1, <1>2, <3>1, <3>3, <3>4, BoardWhole
 <2> QED BY <2>1, <2>4, <2>5
<1> QED BY <1>3, <1>4

LEMMA BoardPollDrawn ==
  ASSUME B!IInv, NEW r \in polls, B!PollDrawn(r) \/ B!PollFailed(r)
  PROVE  B!IInv'
<1>1. BoardFine BY BoardParts
<1> DEFINE d == r.groups \cap {r.sid}
<1>2. /\ polls' = polls \ {r}
      /\ srv' = srv /\ view' = view /\ loads' = loads /\ saves' = saves
      /\ IF r.gen # board.gen THEN board' = board
         ELSE \/ board' = [board EXCEPT !.timer = TRUE, !.drawn = d]
              \/ board' = [board EXCEPT !.timer = TRUE]
  BY DEF B!PollDrawn, B!PollFailed
<1>3. CASE r.gen # board.gen
 <2>1. PollOK(srv, view, board, polls') /\ polls' \subseteq PollType
   BY <1>1, <1>2, <1>3 DEF PollOK
 <2> QED BY <1>1, <1>2, <1>3, <2>1, BoardWhole
<1>4. CASE r.gen = board.gen
 <2>1. /\ d \subseteq {board.sid} /\ d \subseteq Boards
       /\ \A id \in d : OwnedBy(srv, view, id)
   BY <1>1, <1>4 DEF PollOK, PollType
 <2> HIDE DEF d
 <2>2. /\ board' \in BoardType /\ board'.sid = board.sid /\ board'.scope = board.scope
       /\ board'.mode = board.mode /\ board'.locked = board.locked
       /\ board'.saving = board.saving /\ board'.loading = board.loading
       /\ board'.doubt = board.doubt /\ board'.mgen = board.mgen
       /\ board'.gen = board.gen /\ board'.timer /\ board'.drawn \in {board.drawn, d}
   BY <1>1, <1>2, <1>4, <2>1 DEF BoardType
 <2>3. \A x \in polls' : x.gen <= board.gen /\ x.gen # board.gen BY <1>1, <1>2, <1>4 DEF PollOK
 <2>4. PollOK(srv, view, board', polls') /\ polls' \subseteq PollType
   BY <1>1, <1>2, <2>2, <2>3 DEF PollOK
 <2>5. /\ FollowsOK(srv, view, board') /\ LoadOK(srv, board', loads)
       /\ SaveOK(srv, board', saves) /\ ModeOK(srv, board') /\ LockOK(srv, board')
   BY <1>1, <2>2 DEF FollowsOK, LoadOK, SaveOK, ModeOK, LockOK
 <2>6. DrawnOK(srv, view, board') BY <1>1, <2>1, <2>2 DEF DrawnOK
 <2> QED BY <1>1, <1>2, <2>2, <2>4, <2>5, <2>6, BoardWhole
<1> QED BY <1>3, <1>4

\* A send that goes carries what the board shows; no save is on its way then.
LEMMA BoardSend ==
  ASSUME B!IInv, NEW id \in Boards, B!send(id)
  PROVE  B!IInv'
<1>1. BoardFine BY BoardParts
<1>2. /\ ~board.saving
      /\ board' = board /\ loads' = loads /\ saves' = saves /\ polls' = polls
      /\ IF view.sid = NoSession
         THEN /\ ~srv[id].known /\ Owner[id] = view.scope
              /\ view' = [view EXCEPT !.sid = id]
         ELSE id = view.sid /\ view' = view
  BY DEF B!send, B!Sendable
<1>3. PICK y \in BOOLEAN :
        /\ y = (srv[id].stray \/ (srv[id].known /\ srv[id].mode # board.mode))
        /\ srv' = [srv EXCEPT ![id] = [srv[id] EXCEPT !.known = TRUE, !.running = TRUE,
                                                      !.mode = board.mode, !.stray = y]]
 <2>1. PICK y \in BOOLEAN : y = (srv[id].stray \/ (srv[id].known /\ srv[id].mode # board.mode))
   OBVIOUS
 <2>2. srv' = [srv EXCEPT ![id].known = TRUE, ![id].running = TRUE, ![id].mode = board.mode,
                          ![id].stray = @ \/ (srv[id].known /\ srv[id].mode # board.mode)]
   BY DEF B!send
 <2>3. srv' = [srv EXCEPT ![id] = [srv[id] EXCEPT !.known = TRUE, !.running = TRUE,
                                                  !.mode = board.mode, !.stray = y]]
   BY <1>1, <2>1, <2>2 DEF SrvType
 <2> QED BY <2>1, <2>3
<1>4. /\ srv[id] \in [known : BOOLEAN, mode : B!Modes, locked : BOOLEAN,
                      running : BOOLEAN, grouped : BOOLEAN, stray : BOOLEAN]
      /\ board.mode \in B!Modes
  BY <1>1 DEF SrvType, BoardType
<1>5. /\ srv' \in SrvType
      /\ \A s \in Boards : s # id => srv'[s] = srv[s]
      /\ srv'[id].known /\ srv'[id].locked = srv[id].locked
      /\ srv'[id].grouped = srv[id].grouped
      /\ srv'[id].mode = board.mode /\ srv'[id].stray = y
  BY <1>1, <1>3, <1>4 DEF SrvType
<1>6. \A s \in Boards : /\ srv[s].known => srv'[s].known
                        /\ srv[s].locked => srv'[s].locked
                        /\ srv[s].grouped => srv'[s].grouped
  BY <1>5
<1>7. /\ FollowsOK(srv', view, board) /\ PollOK(srv', view, board, polls)
      /\ DrawnOK(srv', view, board) /\ LockOK(srv', board)
  BY <1>1, <1>6, ServerGrown
<1>8. GroupOK(srv') BY <1>1, <1>5 DEF GroupOK
<1>9. SaveOK(srv', board, saves) BY <1>1, <1>2 DEF SaveOK
<1>10. board.sid # NoSession => board.sid = id /\ view' = view /\ srv[id].known
  BY <1>1, <1>2 DEF FollowsOK
<1>11. ModeOK(srv', board) BY <1>5, <1>10 DEF ModeOK
<1>12. LoadOK(srv', board, loads)
 <2> SUFFICES ASSUME NEW l \in loads
              PROVE  /\ l.gen <= board.mgen
                     /\ l.ans.locked => srv'[l.sid].locked
                     /\ l.gen = board.mgen =>
                           /\ ~board.saving /\ l.sid = board.sid
                           /\ l.ans # B!NoMode /\ ~srv'[l.sid].stray =>
                                  l.ans.mode = srv'[l.sid].mode
   BY DEF LoadOK
 <2>1. l.sid \in Boards /\ l.sid # NoSession BY <1>1, BoardAssumption DEF LoadType
 <2>2. /\ l.gen <= board.mgen
       /\ l.ans.locked => srv[l.sid].locked
       /\ l.gen = board.mgen =>
             /\ ~board.saving /\ l.sid = board.sid
             /\ l.ans # B!NoMode /\ ~srv[l.sid].stray => l.ans.mode = srv[l.sid].mode
   BY <1>1 DEF LoadOK
 <2>3. ~y => ~srv[id].stray /\ (srv[id].known => srv[id].mode = board.mode) BY <1>3
 <2> QED BY <1>5, <1>6, <1>10, <2>1, <2>2, <2>3
<1>13. CASE view.sid # NoSession
  BY <1>1, <1>2, <1>5, <1>7, <1>8, <1>9, <1>11, <1>12, <1>13, BoardWhole
<1>14. CASE view.sid = NoSession
 <2>1. view' = [view EXCEPT !.sid = id] /\ board.sid = NoSession
   BY <1>1, <1>2, <1>10, <1>14 DEF FollowsOK
 <2>2. view' \in ViewType /\ view'.sid = id /\ view'.scope = view.scope
   BY <1>1, <2>1 DEF ViewType
 <2>3. FollowsOK(srv', view', board) BY <1>1, <1>5, <2>1, <2>2 DEF FollowsOK
 <2>4. PollOK(srv', view', board, polls) /\ DrawnOK(srv', view', board)
   BY <1>7, <2>2 DEF PollOK, DrawnOK, OwnedBy
 <2> QED BY <1>1, <1>2, <1>5, <1>7, <1>8, <1>9, <1>11, <1>12, <2>2, <2>3, <2>4, BoardWhole
<1> QED BY <1>13, <1>14

\* A run fixes the execution, or makes its group, or ends; the mode stays.
LEMMA BoardTurnRuns ==
  ASSUME B!IInv, NEW id \in Boards, B!TurnRuns(id)
  PROVE  B!IInv'
<1>1. BoardFine BY BoardParts
<1>2. /\ \/ srv' = [srv EXCEPT ![id].locked = TRUE]
         \/ srv[id].locked /\ srv' = [srv EXCEPT ![id].grouped = TRUE]
         \/ srv' = [srv EXCEPT ![id].running = FALSE]
      /\ view' = view /\ board' = board /\ loads' = loads /\ saves' = saves /\ polls' = polls
  BY DEF B!TurnRuns
<1>3. srv[id] \in [known : BOOLEAN, mode : B!Modes, locked : BOOLEAN,
                   running : BOOLEAN, grouped : BOOLEAN, stray : BOOLEAN]
  BY <1>1 DEF SrvType
<1>4. /\ srv' \in SrvType
      /\ \A s \in Boards : /\ srv[s].known => srv'[s].known
                           /\ srv[s].locked => srv'[s].locked
                           /\ srv[s].grouped => srv'[s].grouped
                           /\ srv'[s].grouped => srv[s].grouped \/ srv'[s].locked
                           /\ srv'[s].mode = srv[s].mode /\ srv'[s].stray = srv[s].stray
 <2>1. CASE srv' = [srv EXCEPT ![id].locked = TRUE] BY <1>1, <1>3, <2>1 DEF SrvType
 <2>2. CASE srv[id].locked /\ srv' = [srv EXCEPT ![id].grouped = TRUE]
   BY <1>1, <1>3, <2>2 DEF SrvType
 <2>3. CASE srv' = [srv EXCEPT ![id].running = FALSE] BY <1>1, <1>3, <2>3 DEF SrvType
 <2> QED BY <1>2, <2>1, <2>2, <2>3
<1>5. /\ FollowsOK(srv', view, board) /\ PollOK(srv', view, board, polls)
      /\ DrawnOK(srv', view, board) /\ LockOK(srv', board)
  BY <1>1, <1>4, ServerGrown
<1>6. GroupOK(srv') BY <1>1, <1>4 DEF GroupOK
<1>7. LoadOK(srv', board, loads)
 <2>1. \A l \in loads : l.sid \in Boards BY <1>1 DEF LoadType
 <2> QED BY <1>1, <1>4, <2>1 DEF LoadOK
<1>8. SaveOK(srv', board, saves)
 <2>1. \A x \in saves : x.sid \in Boards BY <1>1 DEF SaveType
 <2> QED BY <1>1, <1>4, <2>1 DEF SaveOK
<1>9. ModeOK(srv', board)
 <2>1. board.sid \in Boards \cup {NoSession} BY <1>1 DEF BoardType
 <2> QED BY <1>1, <1>4, <2>1 DEF ModeOK
<1> QED BY <1>1, <1>2, <1>4, <1>5, <1>6, <1>7, <1>8, <1>9, BoardWhole

LEMMA BoardStep ==
  ASSUME B!IInv, B!Next
  PROVE  B!IInv'
BY BoardListed, BoardNew, BoardTimer, BoardToggle, BoardLogin, BoardOpen, BoardSend,
   BoardTurnRuns, BoardChoose, BoardSaveServed, BoardSaved, BoardLoadServed, BoardLoaded,
   BoardLoadFailed, BoardPollServed, BoardPollListed, BoardPollDrawn DEF B!Next

LEMMA BoardStutter ==
  ASSUME B!IInv, UNCHANGED <<view, OfBoard>>
  PROVE  B!IInv'
<1>1. /\ srv' = srv /\ view' = view /\ board' = board /\ loads' = loads /\ saves' = saves
      /\ polls' = polls
  BY DEF OfBoard
<1> QED BY <1>1, BoardParts, BoardWhole

\* At most one poll counts, and one does unless the timer runs.
LEMMA OnePoll ==
  ASSUME B!IInv
  PROVE  B!PollsOnce
<1> DEFINE P == {r \in polls : r.gen = board.gen}
<1>1. PollOK(srv, view, board, polls) BY BoardParts
<1>2. CASE board.timer
 <2>1. P = {} BY <1>1, <1>2 DEF PollOK
 <2> QED BY <1>2, <2>1 DEF B!PollsOnce
<1>3. CASE ~board.timer
 <2>1. PICK r \in polls : r.gen = board.gen BY <1>1, <1>3 DEF PollOK
 <2>2. P = {r} BY <1>1, <2>1 DEF PollOK
 <2> QED BY <1>3, <2>2 DEF B!PollsOnce
<1> QED BY <1>2, <1>3

\* The board polls for ever and never twice at once, draws what is of its conversation,
\* sends the mode the server has and shows as fixed what is fixed, for every number of
\* conversations and logins and however late an answer is (board.js, 62-410).
THEOREM BoardHolds == Spec => []BoardFaithful
<1> DEFINE I == part = "board" => B!IInv
<1>1. Init => I BY BoardInit DEF Init
<1>2. I /\ [Next]_vars => I'
 <2>1. CASE part = "board" /\ Next BY <2>1, BoardStep DEF Next
 <2>2. CASE part # "board" /\ Next BY <2>2 DEF Next
 <2>3. CASE UNCHANGED vars BY <2>3, BoardStutter DEF vars
 <2> QED BY <2>1, <2>2, <2>3
<1>3. B!IInv => B!ModeTrue BY BoardParts DEF ModeOK, B!ModeTrue, B!Sendable
<1>4. I => BoardFaithful BY <1>3, OnePoll DEF BoardFaithful, B!BoardFaithful, B!IInv
<1> QED BY <1>1, <1>2, <1>4, PTL DEF Spec

------------------------
\* Transcript
\*
\* Sound is the invariant of one view, Paired that of two views which draw
\* a turn alike: the page, and a replay of the turn's log as far as the
\* page has read it.  Each function of the renderer is shown to keep the
\* one (Moved, ...Is) and the other (Pair...), then each step of the page.
\* In between stand the views the functions make: a row comes (Placed),
\* goes (Gone) or changes (Turned).  These words are in TranscriptTerms.

\* A sequence without its k-th element, and with one put before it.
LEMMA RemoveAtIs ==
  ASSUME NEW S, NEW s \in Seq(S), NEW k \in 1 .. Len(s)
  PROVE  /\ T!RemoveAt(s, k) \in Seq(S) /\ Len(T!RemoveAt(s, k)) = Len(s) - 1
         /\ \A i \in 1 .. Len(s) - 1 : T!RemoveAt(s, k)[i] = IF i < k THEN s[i] ELSE s[i + 1]
<1> DEFINE a == SubSeq(s, 1, k - 1)
           b == SubSeq(s, k + 1, Len(s))
<1>1. a \in Seq(S) /\ Len(a) = k - 1 /\ \A i \in 1 .. k - 1 : a[i] = s[i] OBVIOUS
<1>2. b \in Seq(S) /\ Len(b) = Len(s) - k /\ \A i \in 1 .. Len(s) - k : b[i] = s[i + k] OBVIOUS
<1>3. T!RemoveAt(s, k) = a \o b BY DEF T!RemoveAt
<1> HIDE DEF a, b
<1>4. a \o b \in Seq(S) /\ Len(a \o b) = Len(s) - 1
 <2>1. a \o b \in Seq(S) /\ Len(a \o b) = Len(a) + Len(b) BY <1>1, <1>2, ConcatProperties
 <2> QED BY <1>1, <1>2, <2>1
<1>5. ASSUME NEW i \in 1 .. Len(s) - 1
      PROVE  (a \o b)[i] = IF i < k THEN s[i] ELSE s[i + 1]
 <2>1. CASE i < k BY <1>1, <1>2, <2>1
 <2>2. CASE ~(i < k)
  <3>1. (a \o b)[i] = b[i - (k - 1)] BY <1>1, <1>2, <2>2
  <3>2. i - (k - 1) \in 1 .. Len(s) - k /\ (i - (k - 1)) + k = i + 1 BY <2>2
  <3> QED BY <1>2, <2>2, <3>1, <3>2
 <2> QED BY <2>1, <2>2
<1> QED BY <1>3, <1>4, <1>5

\* What is put before the k-th element moves that one and those after it.
LEMMA InsertAtHas ==
  ASSUME NEW S, NEW s \in Seq(S), NEW k \in 1 .. Len(s), NEW e \in S
  PROVE  /\ T!InsertAt(s, k, e) \in Seq(S) /\ Len(T!InsertAt(s, k, e)) = Len(s) + 1
         /\ \A i \in 1 .. Len(s) + 1 :
               /\ i < k => T!InsertAt(s, k, e)[i] = s[i]
               /\ i = k => T!InsertAt(s, k, e)[i] = e
               /\ i > k => T!InsertAt(s, k, e)[i] = s[i - 1]
BY DEF T!InsertAt

LEMMA InsertAtIs ==
  ASSUME NEW S, NEW s \in Seq(S), NEW k \in 1 .. Len(s), NEW e \in S, NEW q,
         q = T!InsertAt(s, k, e)
  PROVE  /\ q \in Seq(S) /\ Len(q) = Len(s) + 1
         /\ \A i \in 1 .. Len(s) + 1 :
               /\ i < k => q[i] = s[i]
               /\ i = k => q[i] = e
               /\ i > k => q[i] = s[i - 1]
<1>1. q \in Seq(S) /\ Len(q) = Len(s) + 1 BY InsertAtHas
<1>2. ASSUME NEW i \in 1 .. Len(s) + 1
      PROVE  (i < k => q[i] = s[i]) /\ (i = k => q[i] = e) /\ (i > k => q[i] = s[i - 1])
  BY DEF T!InsertAt
<1> QED BY <1>1, <1>2

------------------------
\* Rows by their ids.

\* A row is where its number says.
LEMMA AtIs ==
  ASSUME NEW v, Rowed(v), NEW i \in DOMAIN v.rows
  PROVE  /\ T!At(v, v.rows[i].id) = i /\ T!Line(v, v.rows[i].id) = v.rows[i]
         /\ v.rows[i].id \in T!Ids(v) /\ v.rows[i] \in T!Lines /\ v.rows[i].id \in Nat \ {0}
<1>1. v.rows[i] \in T!Lines BY DEF Rowed
<1>2. v.rows[i].id \in Nat \ {0} BY <1>1 DEF T!Lines
<1> QED BY <1>1, <1>2 DEF Rowed, T!At, T!Ids, T!Line

\* A number names one row, which has it.
LEMMA IdIs ==
  ASSUME NEW v, Rowed(v), NEW a \in T!Ids(v)
  PROVE  /\ T!At(v, a) \in DOMAIN v.rows /\ v.rows[T!At(v, a)].id = a
         /\ T!Line(v, a) = v.rows[T!At(v, a)] /\ T!Line(v, a) \in T!Lines /\ T!Line(v, a).id = a
<1>1. PICK i \in DOMAIN v.rows : v.rows[i].id = a BY DEF T!Ids
<1> QED BY <1>1, AtIs DEF Rowed, T!Line

\* Has and Ids mean the same.
LEMMA HasIs ==
  ASSUME NEW v, NEW a
  PROVE  T!Has(v, a) <=> a \in T!Ids(v)
BY DEF T!Has, T!Ids

\* The rows stand in a row.
LEMMA InOrder ==
  ASSUME NEW v, Rowed(v), NEW a \in T!Ids(v), NEW b \in T!Ids(v)
  PROVE  /\ ~T!Before(v, a, a) /\ T!Before(v, a, b) \in BOOLEAN
         /\ a # b => (T!Before(v, a, b) <=> ~T!Before(v, b, a))
         /\ \A c \in T!Ids(v) : ~T!Before(v, a, b) /\ ~T!Before(v, b, c) => ~T!Before(v, a, c)
         /\ \A c \in T!Ids(v) : T!Before(v, a, b) /\ ~T!Before(v, c, b) => T!Before(v, a, c)
         /\ \A c \in T!Ids(v) : T!Before(v, a, b) /\ T!Before(v, b, c) => T!Before(v, a, c)
<1>1. \A c \in T!Ids(v) : T!At(v, c) \in Nat /\ v.rows[T!At(v, c)].id = c BY IdIs DEF Rowed
<1> QED BY <1>1 DEF T!Before

\* A row that is appended comes after all the others.
LEMMA Appending ==
  ASSUME NEW v, Rowed(v), NEW u, NEW r \in T!Lines, r.id \notin T!Ids(v),
         u.rows = Append(v.rows, r)
  PROVE  Rowed(u) /\ Placed(v, u, r, 0)
<1> DEFINE n == Len(v.rows)
<1>1. /\ u.rows \in Seq(T!Lines) /\ n \in Nat /\ DOMAIN v.rows = 1 .. n /\ DOMAIN u.rows = 1 .. n + 1
      /\ u.rows[n + 1] = r /\ \A i \in 1 .. n : u.rows[i] = v.rows[i]
  BY DEF Rowed
<1> HIDE DEF n
<1>2. \A i \in 1 .. n : v.rows[i].id # r.id BY <1>1 DEF T!Ids
<1>3. Rowed(u) BY <1>1, <1>2 DEF Rowed
<1>4. T!Ids(u) = T!Ids(v) \cup {r.id} BY <1>1 DEF T!Ids
<1>5. T!At(u, r.id) = n + 1 /\ T!Line(u, r.id) = r BY <1>1, <1>3, AtIs
<1>6. \A a \in T!Ids(v) : T!At(v, a) \in 1 .. n /\ T!At(u, a) = T!At(v, a) /\ T!Line(u, a) = T!Line(v, a)
 <2> TAKE a \in T!Ids(v)
 <2>1. T!At(v, a) \in 1 .. n /\ v.rows[T!At(v, a)].id = a /\ T!Line(v, a) = v.rows[T!At(v, a)]
   BY <1>1, IdIs
 <2> QED BY <1>1, <1>3, <2>1, AtIs
<1>7. 0 \notin T!Ids(v) BY AtIs DEF T!Ids
<1> QED BY <1>1, <1>3, <1>4, <1>5, <1>6, <1>7 DEF Placed, T!Before

\* A row that is inserted comes right before the row t.
LEMMA Inserting ==
  ASSUME NEW v, Rowed(v), NEW u, NEW r \in T!Lines, r.id \notin T!Ids(v), NEW t \in T!Ids(v),
         u.rows = T!InsertAt(v.rows, T!At(v, t), r)
  PROVE  Rowed(u) /\ Placed(v, u, r, t)
<1> DEFINE n == Len(v.rows)
           k == T!At(v, t)
<1>1. v.rows \in Seq(T!Lines) /\ n \in Nat /\ DOMAIN v.rows = 1 .. n /\ k \in 1 .. n
  BY IdIs DEF Rowed
<1> DEFINE from(i) == IF i < k THEN i ELSE i - 1
<1>2. /\ u.rows \in Seq(T!Lines) /\ DOMAIN u.rows = 1 .. n + 1 /\ u.rows[k] = r
      /\ \A i \in 1 .. n + 1 : i # k => from(i) \in 1 .. n /\ u.rows[i] = v.rows[from(i)]
 <2>1. u.rows = T!InsertAt(v.rows, k, r) /\ k \in 1 .. Len(v.rows) /\ v.rows \in Seq(T!Lines)
   BY <1>1
 <2> HIDE DEF k
 <2>2. /\ u.rows \in Seq(T!Lines) /\ Len(u.rows) = n + 1
       /\ \A i \in 1 .. n + 1 : /\ i < k => u.rows[i] = v.rows[i]
                                /\ i = k => u.rows[i] = r
                                /\ i > k => u.rows[i] = v.rows[i - 1]
  <3> DEFINE s == v.rows
             q == u.rows
  <3>1. k \in 1 .. Len(s) /\ s \in Seq(T!Lines) /\ q = T!InsertAt(s, k, r) BY <2>1
  <3> HIDE DEF s, q
  <3>2. /\ q \in Seq(T!Lines) /\ Len(q) = Len(s) + 1
        /\ \A i \in 1 .. Len(s) + 1 : /\ i < k => q[i] = s[i]
                                      /\ i = k => q[i] = r
                                      /\ i > k => q[i] = s[i - 1]
    BY <3>1, InsertAtIs
  <3> QED BY <3>2 DEF s, q
 <2>3. DOMAIN u.rows = 1 .. n + 1 BY <2>2
 <2> HIDE DEF n
 <2>4. \A i \in 1 .. n + 1 : i # k => from(i) \in 1 .. n BY <1>1
 <2>5. k \in 1 .. n + 1 /\ k \in Int BY <1>1
 <2>8. ASSUME NEW i \in 1 .. n + 1, i # k
       PROVE  (i < k /\ from(i) = i) \/ (i > k /\ from(i) = i - 1)
   BY <1>1, <2>5, <2>8
 <2> HIDE DEF from
 <2>6. u.rows[k] = r BY <1>1, <2>2, <2>5
 <2>7. ASSUME NEW i \in 1 .. n + 1, i # k PROVE u.rows[i] = v.rows[from(i)]
  <3>1. (i < k => u.rows[i] = v.rows[i]) /\ (i > k => u.rows[i] = v.rows[i - 1]) BY <1>1, <2>2
  <3> QED BY <2>7, <2>8, <3>1
 <2> QED BY <2>2, <2>3, <2>4, <2>6, <2>7
<1> HIDE DEF n, k
<1>3. \A i \in 1 .. n : v.rows[i].id # r.id BY <1>1 DEF T!Ids
<1>4. Rowed(u)
 <2>1. ASSUME NEW i \in 1 .. n + 1, NEW j \in 1 .. n + 1, u.rows[i].id = u.rows[j].id
       PROVE  i = j
  <3>1. \A x, y \in 1 .. n : v.rows[x].id = v.rows[y].id => x = y BY <1>1 DEF Rowed
  <3>2. CASE i = k \/ j = k BY <1>2, <1>3, <2>1, <3>2
  <3>3. CASE i # k /\ j # k
   <4>1. from(i) = from(j) BY <1>2, <2>1, <3>1, <3>3
   <4> QED BY <1>1, <3>3, <4>1
  <3> QED BY <3>2, <3>3
 <2> QED BY <1>2, <2>1 DEF Rowed
<1>5. T!At(u, r.id) = k /\ T!Line(u, r.id) = r /\ r.id \in T!Ids(u)
 <2>1. k \in DOMAIN u.rows BY <1>1, <1>2
 <2> QED BY <1>2, <1>4, <2>1, AtIs
<1>6. \A a \in T!Ids(v) : /\ T!At(v, a) \in 1 .. n /\ T!Line(u, a) = T!Line(v, a) /\ a \in T!Ids(u)
                          /\ T!At(u, a) = IF T!At(v, a) < k THEN T!At(v, a) ELSE T!At(v, a) + 1
 <2> TAKE a \in T!Ids(v)
 <2> DEFINE i == T!At(v, a)
            j == IF i < k THEN i ELSE i + 1
 <2>1. i \in 1 .. n /\ v.rows[i].id = a /\ T!Line(v, a) = v.rows[i] BY <1>1, IdIs
 <2> HIDE DEF i
 <2>2. j \in DOMAIN u.rows /\ u.rows[j] = v.rows[i]
  <3>1. j \in 1 .. n + 1 /\ j # k /\ from(j) = i BY <1>1, <2>1
  <3> QED BY <1>2, <3>1
 <2> HIDE DEF j
 <2>3. T!At(u, a) = j /\ T!Line(u, a) = v.rows[i] /\ a \in T!Ids(u) BY <1>4, <2>1, <2>2, AtIs
 <2> QED BY <2>1, <2>3 DEF i, j
<1>7. T!Ids(u) = T!Ids(v) \cup {r.id}
 <2>1. ASSUME NEW i \in 1 .. n + 1 PROVE u.rows[i].id \in T!Ids(v) \cup {r.id}
   BY <1>1, <1>2 DEF T!Ids
 <2>2. T!Ids(u) \subseteq T!Ids(v) \cup {r.id} BY <1>2, <2>1 DEF T!Ids
 <2> QED BY <1>5, <1>6, <2>2
<1>8. \A a, b \in T!Ids(v) : T!Before(u, a, b) <=> T!Before(v, a, b) BY <1>1, <1>6 DEF T!Before
<1>9. \A a \in T!Ids(v) : /\ T!Before(u, r.id, a) <=> ~T!Before(v, a, t)
                          /\ T!Before(u, a, r.id) <=> ~T!Before(u, r.id, a)
  BY <1>1, <1>5, <1>6 DEF T!Before, k
<1> QED BY <1>4, <1>5, <1>6, <1>7, <1>8, <1>9 DEF Placed

\* The row at place k is gone, and the others keep their order.
LEMMA Removing ==
  ASSUME NEW v, Rowed(v), NEW u, NEW k \in DOMAIN v.rows, u.rows = T!RemoveAt(v.rows, k)
  PROVE  Rowed(u) /\ Gone(v, u, v.rows[k].id)
<1> DEFINE n == Len(v.rows)
<1>1. v.rows \in Seq(T!Lines) /\ n \in Nat /\ DOMAIN v.rows = 1 .. n /\ k \in 1 .. n
  BY DEF Rowed
<1> DEFINE from(i) == IF i < k THEN i ELSE i + 1
<1>2. /\ u.rows \in Seq(T!Lines) /\ DOMAIN u.rows = 1 .. n - 1
      /\ \A i \in 1 .. n - 1 : from(i) \in 1 .. n /\ from(i) # k /\ u.rows[i] = v.rows[from(i)]
 <2>1. /\ u.rows \in Seq(T!Lines) /\ Len(u.rows) = n - 1
       /\ \A i \in 1 .. n - 1 : u.rows[i] = IF i < k THEN v.rows[i] ELSE v.rows[i + 1]
   BY <1>1, RemoveAtIs
 <2>2. DOMAIN u.rows = 1 .. n - 1 BY <2>1
 <2> HIDE DEF n
 <2> QED BY <1>1, <2>1, <2>2
<1> HIDE DEF n
<1>3. Rowed(u)
 <2>1. ASSUME NEW i \in 1 .. n - 1, NEW j \in 1 .. n - 1, u.rows[i].id = u.rows[j].id
       PROVE  i = j
  <3>1. \A x, y \in 1 .. n : v.rows[x].id = v.rows[y].id => x = y BY <1>1 DEF Rowed
  <3>2. from(i) = from(j) BY <1>2, <2>1, <3>1
  <3> QED BY <1>1, <3>2
 <2> QED BY <1>2, <2>1 DEF Rowed
<1>4. \A a \in T!Ids(v) \ {v.rows[k].id} :
         /\ T!At(v, a) \in 1 .. n /\ T!At(v, a) # k /\ T!Line(u, a) = T!Line(v, a) /\ a \in T!Ids(u)
         /\ T!At(u, a) = IF T!At(v, a) < k THEN T!At(v, a) ELSE T!At(v, a) - 1
 <2> TAKE a \in T!Ids(v) \ {v.rows[k].id}
 <2> DEFINE i == T!At(v, a)
            j == IF i < k THEN i ELSE i - 1
 <2>1. i \in 1 .. n /\ v.rows[i].id = a /\ T!Line(v, a) = v.rows[i] /\ i # k BY <1>1, IdIs
 <2> HIDE DEF i
 <2>2. j \in DOMAIN u.rows /\ u.rows[j] = v.rows[i]
  <3>1. j \in 1 .. n - 1 /\ from(j) = i BY <1>1, <2>1
  <3> QED BY <1>2, <3>1
 <2> HIDE DEF j
 <2>3. T!At(u, a) = j /\ T!Line(u, a) = v.rows[i] /\ a \in T!Ids(u) BY <1>3, <2>1, <2>2, AtIs
 <2> QED BY <2>1, <2>3 DEF i, j
<1>5. T!Ids(u) = T!Ids(v) \ {v.rows[k].id}
 <2>1. ASSUME NEW i \in 1 .. n - 1 PROVE u.rows[i].id \in T!Ids(v) \ {v.rows[k].id}
  <3>1. \A x \in 1 .. n : v.rows[x].id \in T!Ids(v) /\ (v.rows[x].id = v.rows[k].id => x = k)
    BY <1>1 DEF Rowed, T!Ids
  <3> QED BY <1>1, <1>2, <3>1
 <2> QED BY <1>2, <1>4, <2>1 DEF T!Ids
<1>6. \A a, b \in T!Ids(u) : T!Before(u, a, b) <=> T!Before(v, a, b)
  BY <1>1, <1>4, <1>5 DEF T!Before
<1> QED BY <1>3, <1>4, <1>5, <1>6 DEF Gone

\* A row that is changed stays where it was.
LEMMA Changing ==
  ASSUME NEW v, Rowed(v), NEW u, NEW r \in T!Lines, r.id \in T!Ids(v),
         u.rows = [v.rows EXCEPT ![T!At(v, r.id)] = r]
  PROVE  Rowed(u) /\ Turned(v, u, r)
<1> DEFINE k == T!At(v, r.id)
<1>1. k \in DOMAIN v.rows /\ v.rows[k].id = r.id /\ v.rows \in Seq(T!Lines) BY IdIs DEF Rowed
<1> HIDE DEF k
<1>2. /\ u.rows \in Seq(T!Lines) /\ DOMAIN u.rows = DOMAIN v.rows /\ u.rows[k] = r
      /\ \A i \in DOMAIN v.rows : u.rows[i].id = v.rows[i].id /\ (i # k => u.rows[i] = v.rows[i])
  BY <1>1 DEF k
<1>3. Rowed(u) /\ T!Ids(u) = T!Ids(v) BY <1>2 DEF Rowed, T!Ids
<1>4. \A a \in T!Ids(v) : T!At(u, a) = T!At(v, a)
 <2> TAKE a \in T!Ids(v)
 <2>1. T!At(v, a) \in DOMAIN v.rows /\ v.rows[T!At(v, a)].id = a BY IdIs
 <2> QED BY <1>2, <1>3, <2>1, AtIs
<1>5. \A a \in T!Ids(v) \ {r.id} : T!Line(u, a) = T!Line(v, a)
 <2> TAKE a \in T!Ids(v) \ {r.id}
 <2>1. T!At(v, a) \in DOMAIN v.rows /\ v.rows[T!At(v, a)].id = a BY IdIs
 <2> QED BY <1>1, <1>2, <1>4, <2>1 DEF T!Line
<1>6. T!Line(u, r.id) = r BY <1>2, <1>4 DEF T!Line, k
<1> QED BY <1>3, <1>4, <1>5, <1>6 DEF Turned, T!Before

------------------------
\* What each operation on a view does, in those terms.

\* The parts of a view that is formed.
LEMMA FormedIs ==
  ASSUME NEW v, T!Formed(v)
  PROVE  /\ Rowed(v) /\ v \in T!Pages /\ v.next \in Nat \ {0} /\ v.rows \in Seq(T!Lines)
         /\ v.seg.row \in Nat /\ v.seg.text \in Nat /\ v.seg.kind \in {"none", "think", "out"}
         /\ v.activity \in Nat /\ v.turnTop \in Nat /\ v.todo \in Nat /\ v.tools \in [ToolIds -> Nat]
         /\ v.skip \in BOOLEAN /\ v.owns \in BOOLEAN /\ v.raf \in BOOLEAN
         /\ \A a \in T!Ids(v) : /\ a \in Nat /\ 0 < a /\ a < v.next
                                /\ T!Line(v, a) \in T!Lines /\ T!Line(v, a).id = a
<1>1. v \in T!Pages /\ Rowed(v) BY DEF T!Formed, T!Pages, Rowed
<1>2. \A a \in T!Ids(v) : a < v.next BY DEF T!Formed, T!Ids
<1>3. \A a \in T!Ids(v) : T!Line(v, a) \in T!Lines /\ T!Line(v, a).id = a BY <1>1, IdIs
<1>4. \A a \in T!Ids(v) : a \in Nat \ {0} BY <1>3 DEF T!Lines
<1> QED BY <1>1, <1>2, <1>3, <1>4 DEF T!Pages

\* What a new row is.
LEMMA RowIs ==
  ASSUME NEW id \in Nat \ {0}, NEW kind \in T!Kinds, NEW p \in Nat
  PROVE  /\ T!Row(id, kind, p) \in T!Lines /\ T!Row(id, kind, p).id = id
         /\ T!Row(id, kind, p).kind = kind /\ T!Row(id, kind, p).prompt = p
         /\ T!Row(id, kind, p).text = 0 /\ T!Row(id, kind, p).painted = 0
BY DEF T!Row, T!Lines

\* What a new row says.
LEMMA RowSays ==
  ASSUME NEW id, NEW kind, NEW p
  PROVE  T!Says(T!Row(id, kind, p)) = <<kind, p, 0, [i \in ToolIds |-> ""]>>
BY DEF T!Row, T!Says

\* Other rows, or another next one, form a view as long as they have numbers of their own.
LEMMA Reformed ==
  ASSUME NEW v, T!Formed(v), NEW u, u \in T!Pages, Rowed(u), Rest(u) = Rest(v),
         v.next <= u.next,
         \A a \in T!Ids(u) : a < u.next
  PROVE  T!Formed(u)
<1>1. /\ v.next \in Nat /\ u.next \in Nat /\ v.seg.row \in Nat /\ v.activity \in Nat
      /\ v.turnTop \in Nat /\ v.todo \in Nat /\ \A t \in ToolIds : v.tools[t] \in Nat
  BY FormedIs DEF T!Pages
<1>2. /\ v.seg.row < v.next /\ v.activity < v.next /\ v.turnTop < v.next /\ v.todo < v.next
      /\ \A t \in ToolIds : v.tools[t] < v.next
  BY DEF T!Formed
<1>3. /\ u.seg.row < u.next /\ u.activity < u.next /\ u.turnTop < u.next /\ u.todo < u.next
      /\ \A t \in ToolIds : u.tools[t] < u.next
  BY <1>1, <1>2 DEF Rest
<1> QED BY <1>3 DEF T!Formed, Rowed, T!Ids

\* A change of the rows alone.
LEMMA RowsOnly ==
  ASSUME NEW v, T!Formed(v), NEW s \in Seq(T!Lines), NEW u, u = [v EXCEPT !.rows = s]
  PROVE  u \in T!Pages /\ u.rows = s /\ u.next = v.next /\ Rest(u) = Rest(v)
<1>1. v \in T!Pages BY DEF T!Formed
<1> QED BY <1>1 DEF T!Pages, Rest

\* addMsg puts a new row at the end.
LEMMA AddMsgIs ==
  ASSUME NEW v, T!Formed(v), NEW kind \in T!Kinds, NEW p \in Nat, NEW u,
         u = T!addMsg(v, kind, p)
  PROVE  /\ T!Formed(u) /\ Placed(v, u, T!Row(v.next, kind, p), 0) /\ Rest(u) = Rest(v)
         /\ u.next = v.next + 1
<1> DEFINE r == T!Row(v.next, kind, p)
<1>1. r \in T!Lines /\ r.id = v.next
 <2>1. v.next \in Nat \ {0} BY FormedIs
 <2> QED BY <2>1, RowIs
<1>2. v.next \notin T!Ids(v) BY FormedIs
<1>3. u \in T!Pages /\ u.rows = Append(v.rows, r) /\ u.next = v.next + 1 /\ Rest(u) = Rest(v)
 <2>1. v.next + 1 \in Nat \ {0} /\ Append(v.rows, r) \in Seq(T!Lines) BY <1>1, FormedIs
 <2>2. u = [v EXCEPT !.rows = Append(v.rows, r), !.next = v.next + 1] BY DEF T!addMsg
 <2> DEFINE s == Append(v.rows, r)
            n == v.next + 1
 <2>3. s \in Seq(T!Lines) /\ n \in Nat \ {0} /\ u = [v EXCEPT !.rows = s, !.next = n]
   BY <2>1, <2>2
 <2> HIDE DEF s, n, r
 <2>4. u \in T!Pages /\ u.rows = s /\ u.next = n /\ Rest(u) = Rest(v)
  <3>1. v \in T!Pages BY FormedIs
  <3> QED BY <2>3, <3>1 DEF T!Pages, Rest
 <2> QED BY <2>4 DEF s, n
<1> HIDE DEF r
<1>4. Rowed(u) /\ Placed(v, u, r, 0) BY <1>1, <1>2, <1>3, FormedIs, Appending
<1>5. T!Formed(u)
 <2>1. \A a \in T!Ids(u) : a < u.next BY <1>1, <1>3, <1>4, FormedIs DEF Placed
 <2> QED BY <1>3, <1>4, <2>1, FormedIs, Reformed
<1> QED BY <1>3, <1>4, <1>5 DEF r

\* addAbove puts it before the first answer, or at the end.
LEMMA AddAboveIs ==
  ASSUME NEW v, T!Formed(v), NEW kind \in T!Kinds, NEW u, u = T!addAbove(v, kind)
  PROVE  /\ T!Formed(u) /\ Placed(v, u, T!Row(v.next, kind, 0), v.turnTop) /\ Rest(u) = Rest(v)
         /\ u.next = v.next + 1
<1>1. CASE ~T!Has(v, v.turnTop)
 <2>1. u = T!addMsg(v, kind, 0) BY <1>1 DEF T!addAbove, T!None
 <2>2. 0 \notin T!Ids(v) /\ v.turnTop \notin T!Ids(v) BY <1>1, FormedIs, HasIs
 <2> QED BY <2>1, <2>2, AddMsgIs DEF Placed
<1>2. CASE T!Has(v, v.turnTop)
 <2> DEFINE r == T!Row(v.next, kind, 0)
 <2>1. r \in T!Lines /\ r.id = v.next
  <3>1. v.next \in Nat \ {0} BY FormedIs
  <3> QED BY <3>1, RowIs
 <2>2. v.next \notin T!Ids(v) /\ v.turnTop \in T!Ids(v) BY <1>2, FormedIs, HasIs
 <2>3. u = [v EXCEPT !.rows = T!InsertAt(@, T!At(v, v.turnTop), r), !.next = @ + 1]
   BY <1>2 DEF T!addAbove, T!None
 <2> HIDE DEF r
 <2> DEFINE s == T!InsertAt(v.rows, T!At(v, v.turnTop), r)
 <2>4. Rowed([v EXCEPT !.rows = s]) /\ Placed(v, [v EXCEPT !.rows = s], r, v.turnTop)
  <3>1. [v EXCEPT !.rows = s].rows = s BY FormedIs DEF T!Pages
  <3> QED BY <2>1, <2>2, <3>1, FormedIs, Inserting
 <2>5. s \in Seq(T!Lines) /\ v.next + 1 \in Nat \ {0} BY <2>4, FormedIs DEF Rowed, T!Pages
 <2>6. u \in T!Pages /\ u.rows = s /\ u.next = v.next + 1 /\ Rest(u) = Rest(v)
  <3> DEFINE n == v.next + 1
  <3>1. s \in Seq(T!Lines) /\ n \in Nat \ {0} /\ u = [v EXCEPT !.rows = s, !.next = n]
    BY <2>3, <2>5
  <3> HIDE DEF s, n
  <3>2. u \in T!Pages /\ u.rows = s /\ u.next = n /\ Rest(u) = Rest(v)
   <4>1. v \in T!Pages BY FormedIs
   <4> QED BY <3>1, <4>1 DEF T!Pages, Rest
  <3> QED BY <3>2 DEF n
 <2>7. Rowed(u) /\ Placed(v, u, r, v.turnTop) BY <2>1, <2>2, <2>6, FormedIs, Inserting
 <2>8. T!Formed(u)
  <3>1. \A a \in T!Ids(u) : a < u.next BY <2>1, <2>6, <2>7, FormedIs DEF Placed
  <3> QED BY <2>6, <2>7, <3>1, FormedIs, Reformed
 <2> QED BY <2>6, <2>7, <2>8 DEF r
<1> QED BY <1>1, <1>2

\* A row is taken away.
LEMMA RemovedIs ==
  ASSUME NEW v, T!Formed(v), NEW i \in DOMAIN v.rows, NEW u, u = T!Removed(v, i)
  PROVE  /\ T!Formed(u) /\ Gone(v, u, v.rows[i].id) /\ Rest(u) = Rest(v) /\ u.next = v.next
<1> DEFINE s == T!RemoveAt(v.rows, i)
<1>1. s \in Seq(T!Lines) BY FormedIs, RemoveAtIs
<1>2. u \in T!Pages /\ u.rows = s /\ u.next = v.next /\ Rest(u) = Rest(v)
 <2>1. u = [v EXCEPT !.rows = s] BY DEF T!Removed
 <2> HIDE DEF s
 <2> QED BY <1>1, <2>1, RowsOnly
<1>3. Rowed(u) /\ Gone(v, u, v.rows[i].id) BY <1>2, FormedIs, Removing
<1>4. T!Formed(u)
 <2>1. \A a \in T!Ids(u) : a < u.next BY <1>2, <1>3, FormedIs DEF Gone
 <2> QED BY <1>2, <1>3, <2>1, FormedIs, Reformed
<1> QED BY <1>2, <1>3, <1>4

\* The row a is r now, in a view that is otherwise as it was.
LEMMA RowChanged ==
  ASSUME NEW v, T!Formed(v), NEW r \in T!Lines, r.id \in T!Ids(v),
         NEW u, u = [v EXCEPT !.rows[T!At(v, r.id)] = r]
  PROVE  /\ T!Formed(u) /\ Turned(v, u, r) /\ Rest(u) = Rest(v) /\ u.next = v.next
<1> DEFINE k == T!At(v, r.id)
           s == [v.rows EXCEPT ![k] = r]
<1>1. k \in DOMAIN v.rows /\ v.rows \in Seq(T!Lines) BY FormedIs, IdIs
<1>2. s \in Seq(T!Lines)
 <2> HIDE DEF k
 <2> QED BY <1>1
<1>3. u \in T!Pages /\ u.rows = s /\ u.next = v.next /\ Rest(u) = Rest(v)
 <2>1. u = [v EXCEPT !.rows = s] BY FormedIs DEF T!Pages
 <2> HIDE DEF s
 <2> QED BY <1>2, <2>1, RowsOnly
<1>4. Rowed(u) /\ Turned(v, u, r) BY <1>3, FormedIs, Changing
<1>5. T!Formed(u)
 <2>1. \A a \in T!Ids(u) : a < u.next BY <1>3, <1>4, FormedIs DEF Turned
 <2>2. v.next <= u.next BY <1>3, FormedIs
 <2> HIDE DEF s
 <2> QED BY <1>3, <1>4, <2>1, <2>2, Reformed
<1> QED BY <1>3, <1>4, <1>5

------------------------
\* One view: what a step keeps of it.

\* Views with the same rows have them at the same places.
LEMMA SameRows ==
  ASSUME NEW v, Rowed(v), NEW u, u.rows = v.rows
  PROVE  /\ T!Ids(u) = T!Ids(v) /\ Gone(v, u, 0) /\ Rowed(u)
         /\ \A a : T!Line(u, a) = T!Line(v, a) /\ T!At(u, a) = T!At(v, a) /\ (T!Has(u, a) <=> T!Has(v, a))
         /\ \A a, b : T!Before(u, a, b) <=> T!Before(v, a, b)
<1>1. \A a : T!At(u, a) = T!At(v, a) BY DEF T!At
<1>2. T!Ids(u) = T!Ids(v) BY DEF T!Ids
<1>3. Rowed(u) BY DEF Rowed
<1>4. 0 \notin T!Ids(v) BY AtIs DEF T!Ids
<1> QED BY <1>1, <1>2, <1>3, <1>4 DEF Gone, T!Line, T!Has, T!Before

\* Steady is transitive.
LEMMA SteadyTwice ==
  ASSUME NEW v, NEW u, NEW q, Steady(v, u), Steady(u, q), v.next \in Nat, u.next \in Nat,
         q.next \in Nat
  PROVE  Steady(v, q)
BY DEF Steady

\* The pending row goes.
LEMMA ClearIs ==
  ASSUME NEW from, NEW v, Sound(v, from), NEW u, u = T!clearPending(v)
  PROVE  /\ Sound(u, from) /\ Steady(v, u) /\ Rest(u) = Rest(v) /\ u.next = v.next
         /\ \A a \in T!Ids(u) : T!Line(u, a).kind # "pending"
         /\ \E x : Gone(v, u, x) /\ (x \in T!Ids(v) => T!Line(v, x).kind = "pending")
<1>1. T!Formed(v) /\ Rowed(v) BY FormedIs DEF Sound
<1>2. CASE T!Kind(v, "pending") = {}
 <2>1. u = v BY <1>2 DEF T!clearPending
 <2>2. \A a \in T!Ids(v) : T!Line(v, a).kind # "pending" BY <1>1, <1>2, IdIs DEF T!Kind
 <2>3. Gone(v, u, 0) /\ 0 \notin T!Ids(v) BY <1>1, <2>1, SameRows, FormedIs
 <2>4. Steady(v, u) BY <1>1, <2>1, FormedIs DEF Steady
 <2> QED BY <2>1, <2>2, <2>3, <2>4
<1>3. CASE T!Kind(v, "pending") # {}
 <2>1. PICK i \in DOMAIN v.rows : v.rows[i].kind = "pending" /\ u = T!Removed(v, i)
   BY <1>3 DEF T!clearPending, T!Kind
 <2> DEFINE x == v.rows[i].id
 <2>2. T!Formed(u) /\ Gone(v, u, x) /\ Rest(u) = Rest(v) /\ u.next = v.next
   BY <1>1, <2>1, RemovedIs
 <2>3. x \in T!Ids(v) /\ T!Line(v, x).kind = "pending" BY <1>1, <2>1, AtIs
 <2> HIDE DEF x
 <2>4. \A a \in T!Ids(u) : T!Line(u, a).kind # "pending" BY <2>2, <2>3 DEF Gone, Sound, T!Drawn
 <2>5. T!Drawn(u) BY <2>2, <2>3 DEF Gone, Sound, T!Drawn, Rest
 <2>6. T!Topped(u, from) BY <2>2, <2>3 DEF Gone, Sound, T!Topped, Rest
 <2>7. Steady(v, u) BY <1>1, <2>2, <2>3, FormedIs DEF Steady, Gone, Rest
 <2> QED BY <2>2, <2>3, <2>4, <2>5, <2>6, <2>7 DEF Sound
<1> QED BY <1>2, <1>3

\* A pending row comes unless there is one.
LEMMA ShowIs ==
  ASSUME NEW from, NEW v, Sound(v, from), NEW u, u = T!showPending(v)
  PROVE  /\ Sound(u, from) /\ Steady(v, u) /\ Rest(u) = Rest(v)
         /\ u = v \/ (Placed(v, u, T!Row(v.next, "pending", 0), 0) /\ u.next = v.next + 1)
<1>1. T!Formed(v) /\ Rowed(v) BY FormedIs DEF Sound
<1>2. CASE T!Kind(v, "pending") # {}
 <2>1. u = v BY <1>2 DEF T!showPending
 <2>2. v.next \in Nat BY <1>1, FormedIs
 <2>3. Steady(v, v) BY <2>2 DEF Steady
 <2> QED BY <2>1, <2>3
<1>3. CASE T!Kind(v, "pending") = {}
 <2>1. \A a \in T!Ids(v) : T!Line(v, a).kind # "pending" BY <1>1, <1>3, IdIs DEF T!Kind
 <2>2. "pending" \in T!Kinds /\ u = T!addMsg(v, "pending", 0)
   BY <1>3 DEF T!Kinds, T!showPending, T!None
 <2> DEFINE r == T!Row(v.next, "pending", 0)
 <2>3. T!Formed(u) /\ Placed(v, u, r, 0) /\ Rest(u) = Rest(v) /\ u.next = v.next + 1
   BY <1>1, <2>2, AddMsgIs
 <2>4. r.id = v.next /\ r.kind = "pending" BY <1>1, <2>2, FormedIs, RowIs
 <2> HIDE DEF r
 <2>5. v.next \in Nat /\ v.next \notin T!Ids(v) /\ v.seg.row # v.next
   BY <1>1, FormedIs DEF T!Formed
 <2>6. T!Drawn(u)
  <3>1. T!Ids(u) = T!Ids(v) \cup {v.next} /\ T!Line(u, v.next).kind = "pending"
    BY <2>3, <2>4 DEF Placed
  <3>2. \A a \in T!Ids(v) : T!Line(u, a) = T!Line(v, a) BY <2>3 DEF Placed
  <3>3. u.seg = v.seg /\ u.activity = v.activity /\ u.tools = v.tools BY <2>3 DEF Rest
  <3>4. v.activity # v.next /\ \A t \in ToolIds : v.tools[t] # v.next
    BY <1>1, FormedIs DEF T!Formed
  <3> QED BY <2>1, <2>5, <3>1, <3>2, <3>3, <3>4 DEF Sound, T!Drawn
 <2>7. v.turnTop # v.next /\ v.activity # v.next BY <1>1, FormedIs DEF T!Formed
 <2>8. T!Topped(u, from) BY <2>3, <2>4, <2>5, <2>7 DEF Placed, Sound, T!Topped, Rest
 <2>9. Steady(v, u) BY <1>1, <2>3, <2>4, <2>5 DEF Steady, Placed, Rest
 <2> QED BY <2>3, <2>5, <2>6, <2>8, <2>9 DEF Sound, r
<1> QED BY <1>2, <1>3

\* Other fields than the rows change, and still name no row to come.
LEMMA Refielded ==
  ASSUME NEW v, T!Formed(v), NEW u, u \in T!Pages, u.rows = v.rows, u.next = v.next,
         u.seg.row < v.next, u.activity < v.next, u.turnTop < v.next, u.todo < v.next,
         \A t \in ToolIds : u.tools[t] < v.next
  PROVE  T!Formed(u)
BY DEF T!Formed

\* A row of any kind but an answer or a pending one comes, at the end or above the answer.
LEMMA Added ==
  ASSUME NEW from, NEW v, Sound(v, from), NEW u, T!Formed(u), Rest(u) = Rest(v),
         u.next = v.next + 1,
         NEW r, NEW t, Placed(v, u, r, t), r.id = v.next, t = 0 \/ t = v.turnTop,
         r.kind \notin {"bot", "pending"}
  PROVE  Sound(u, from) /\ (r.kind # "user" => Steady(v, u))
<1>1. /\ T!Formed(v) /\ Rowed(v) /\ v.next \in Nat /\ v.next \notin T!Ids(v)
      /\ v.seg.row # v.next /\ v.activity # v.next /\ v.turnTop # v.next
      /\ \A k \in ToolIds : v.tools[k] # v.next
  BY FormedIs DEF Sound, T!Formed
<1>2. T!Ids(u) = T!Ids(v) \cup {v.next} /\ T!Line(u, v.next).kind = r.kind BY DEF Placed
<1>3. \A a \in T!Ids(v) : T!Line(u, a) = T!Line(v, a) BY DEF Placed
<1>4. \A a, b \in T!Ids(v) : T!Before(u, a, b) <=> T!Before(v, a, b) BY DEF Placed
<1>5. /\ u.seg = v.seg /\ u.activity = v.activity /\ u.tools = v.tools /\ u.turnTop = v.turnTop
      /\ u.owns = v.owns /\ u.skip = v.skip
  BY DEF Rest
<1>6. T!Drawn(u) BY <1>1, <1>2, <1>3, <1>5 DEF Sound, T!Drawn
<1>7. T!Topped(u, from) BY <1>1, <1>2, <1>3, <1>4, <1>5 DEF Sound, T!Topped
<1>8. ASSUME r.kind # "user" PROVE Steady(v, u) BY <1>1, <1>2, <1>3, <1>4, <1>5, <1>8 DEF Steady
<1> QED BY <1>1, <1>6, <1>7, <1>8 DEF Sound

\* The open segment is closed: painted, or taken away when it has nothing to show.
LEMMA FinalizeIs ==
  ASSUME NEW from, NEW v, Sound(v, from), NEW u, u = T!finalizeSeg(v)
  PROVE  /\ Sound(u, from) /\ Steady(v, u) /\ u.next = v.next /\ u.seg = T!NoSeg
         /\ u.tools = v.tools /\ u.activity = v.activity /\ u.turnTop = v.turnTop /\ u.todo = v.todo
         /\ u.owns = v.owns
         /\ IF v.seg.kind # "out" THEN Gone(v, u, 0)
            ELSE IF v.seg.text = 0 THEN Gone(v, u, v.seg.row)
            ELSE Turned(v, u, [T!Line(v, v.seg.row) EXCEPT !.painted = T!Line(v, v.seg.row).text])
<1> DEFINE q == [v EXCEPT !.seg = T!NoSeg]
<1>1. T!Formed(v) /\ Rowed(v) /\ v \in T!Pages /\ v.next \in Nat /\ v.seg.text \in Nat
  BY FormedIs DEF Sound
<1>2. /\ q \in T!Pages /\ q.rows = v.rows /\ q.next = v.next /\ q.seg = T!NoSeg
      /\ q.tools = v.tools /\ q.activity = v.activity /\ q.turnTop = v.turnTop /\ q.todo = v.todo
      /\ q.owns = v.owns /\ q.skip = v.skip
  BY <1>1 DEF T!Pages, T!NoSeg, T!None
<1>3. T!Formed(q)
 <2>1. q.seg.row < v.next BY <1>1, <1>2, FormedIs DEF T!NoSeg, T!None
 <2> HIDE DEF q
 <2> QED BY <1>1, <1>2, <2>1, Refielded DEF T!Formed
<1>4. /\ T!Ids(q) = T!Ids(v) /\ Gone(v, q, 0)
      /\ \A a : T!Line(q, a) = T!Line(v, a) /\ T!At(q, a) = T!At(v, a) /\ (T!Has(q, a) <=> T!Has(v, a))
      /\ \A a, b : T!Before(q, a, b) <=> T!Before(v, a, b)
 <2> HIDE DEF q
 <2> QED BY <1>1, <1>2, SameRows
<1>5. v.seg.kind = "out" => v.seg.row \in T!Ids(v) /\ T!Line(v, v.seg.row).kind = "bot"
  BY DEF Sound, T!Drawn
<1>6. \A a \in T!Ids(v) : T!Line(v, a).kind = "bot" /\ a # v.seg.row => T!Line(v, a).painted = T!Line(v, a).text
  BY DEF Sound, T!Drawn
<1>7. CASE v.seg.kind # "out"
 <2>1. u = q BY <1>7 DEF T!finalizeSeg
 <2> HIDE DEF q
 <2>2. \A a \in T!Ids(v) : T!Line(v, a).kind = "bot" => a # v.seg.row
   BY <1>1, <1>7, FormedIs DEF Sound, T!Drawn, T!NoSeg, T!None
 <2>3. T!Drawn(u) BY <1>2, <1>4, <1>6, <2>1, <2>2 DEF Sound, T!Drawn, T!NoSeg
 <2>4. T!Topped(u, from) BY <1>2, <1>4, <2>1 DEF Sound, T!Topped
 <2>5. Steady(v, u) BY <1>1, <1>2, <1>4, <2>1 DEF Steady
 <2> QED BY <1>2, <1>3, <1>4, <1>7, <2>1, <2>3, <2>4, <2>5 DEF Sound
<1>8. CASE v.seg.kind = "out" /\ v.seg.text = 0
 <2> DEFINE x == v.seg.row
 <2>1. u = T!Removed(q, T!At(q, x)) /\ T!At(q, x) \in DOMAIN q.rows /\ q.rows[T!At(q, x)].id = x
  <3>1. u = T!Without(q, x) BY <1>8 DEF T!finalizeSeg
  <3> HIDE DEF q, x
  <3>2. T!Has(q, x) /\ Rowed(q) /\ x \in T!Ids(q)
    BY <1>3, <1>4, <1>5, <1>8, HasIs, FormedIs DEF x
  <3> QED BY <3>1, <3>2, IdIs DEF T!Without
 <2> HIDE DEF q, x
 <2>2. T!Formed(u) /\ Gone(q, u, x) /\ Rest(u) = Rest(q) /\ u.next = v.next
   BY <1>2, <1>3, <2>1, RemovedIs
 <2>3. Gone(v, u, x) BY <1>4, <2>2 DEF Gone
 <2>4. /\ u.seg = T!NoSeg /\ u.activity = v.activity /\ u.turnTop = v.turnTop /\ u.tools = v.tools
       /\ u.todo = v.todo /\ u.owns = v.owns /\ u.skip = v.skip
   BY <1>2, <2>2 DEF Rest
 <2>5. T!Drawn(u) BY <1>5, <1>6, <1>8, <2>3, <2>4 DEF Sound, T!Drawn, T!NoSeg, Gone, x
 <2>6. T!Topped(u, from) BY <2>3, <2>4 DEF Sound, T!Topped, Gone
 <2>7. Steady(v, u) BY <1>1, <1>5, <1>8, <2>2, <2>3, <2>4 DEF Steady, Gone, x
 <2> QED BY <1>8, <2>2, <2>3, <2>4, <2>5, <2>6, <2>7 DEF Sound, x
<1>9. CASE v.seg.kind = "out" /\ v.seg.text > 0
 <2> DEFINE x == v.seg.row
            l == T!Line(v, x)
            r == [l EXCEPT !.painted = l.text]
 <2>1. x \in T!Ids(v) /\ l \in T!Lines /\ l.id = x /\ l.kind = "bot"
   BY <1>1, <1>5, <1>9, FormedIs
 <2>2. r \in T!Lines /\ r.id = x /\ r.kind = "bot" /\ r.text = l.text /\ r.painted = l.text
   BY <2>1 DEF T!Lines
 <2>3. u = [q EXCEPT !.rows[T!At(q, x)] = r]
  <3>1. u = T!painted(q, x) BY <1>1, <1>9 DEF T!finalizeSeg
  <3>2. T!Has(q, x) /\ q.rows[T!At(q, x)] = l BY <1>2, <1>4, <2>1, HasIs DEF T!Line
  <3> HIDE DEF q, x, l
  <3> QED BY <3>1, <3>2 DEF T!painted, T!WithRow
 <2> HIDE DEF q, x, r, l
 <2>4. T!Formed(u) /\ Turned(q, u, r) /\ Rest(u) = Rest(q) /\ u.next = v.next
   BY <1>2, <1>3, <1>4, <2>1, <2>2, <2>3, RowChanged
 <2>5. Turned(v, u, r) BY <1>4, <2>4 DEF Turned
 <2>6. /\ u.seg = T!NoSeg /\ u.activity = v.activity /\ u.turnTop = v.turnTop /\ u.tools = v.tools
       /\ u.todo = v.todo /\ u.owns = v.owns /\ u.skip = v.skip
   BY <1>2, <2>4 DEF Rest
 <2>7. \A a \in T!Ids(v) : T!Line(u, a).kind = T!Line(v, a).kind
   BY <2>1, <2>2, <2>5 DEF Turned, l
 <2>8. T!Drawn(u) BY <1>6, <2>1, <2>2, <2>5, <2>6, <2>7 DEF Sound, T!Drawn, T!NoSeg, Turned, x
 <2>9. T!Topped(u, from) BY <2>5, <2>6, <2>7 DEF Sound, T!Topped, Turned
 <2>10. Steady(v, u) BY <1>1, <2>1, <2>2, <2>4, <2>5, <2>6, <2>7 DEF Steady, Turned, l
 <2> QED BY <1>1, <1>9, <2>4, <2>5, <2>6, <2>8, <2>9, <2>10 DEF Sound, x, r, l
<1> QED BY <1>1, <1>7, <1>8, <1>9

\* One row for the turn's thinking and tools.
LEMMA GroupIs ==
  ASSUME NEW from, NEW v, Sound(v, from), NEW u, u = T!activityGroup(v)
  PROVE  /\ Sound(u, from) /\ Steady(v, u) /\ u.seg = v.seg /\ u.tools = v.tools /\ u.turnTop = v.turnTop
         /\ u.todo = v.todo /\ u.owns = v.owns
         /\ u.activity \in T!Ids(u) /\ T!Line(u, u.activity).kind = "activity"
         /\ IF v.activity \in T!Ids(v) THEN u = v
            ELSE /\ Placed(v, u, T!Row(v.next, "activity", 0), v.turnTop)
                 /\ u.next = v.next + 1 /\ u.activity = v.next
<1>1. T!Formed(v) /\ Rowed(v) /\ v.next \in Nat \ {0} /\ v.next \notin T!Ids(v)
  BY FormedIs DEF Sound
<1>2. CASE v.activity \in T!Ids(v)
 <2>1. u = v BY <1>2, HasIs DEF T!activityGroup
 <2>2. Steady(v, v) BY <1>1 DEF Steady
 <2>3. T!Line(v, v.activity).kind = "activity" BY <1>2 DEF Sound, T!Drawn
 <2> QED BY <1>2, <2>1, <2>2, <2>3
<1>3. CASE v.activity \notin T!Ids(v)
 <2> DEFINE q == T!addAbove(v, "activity")
            r == T!Row(v.next, "activity", 0)
 <2>1. "activity" \in T!Kinds BY DEF T!Kinds
 <2>2. T!Formed(q) /\ Placed(v, q, r, v.turnTop) /\ Rest(q) = Rest(v) /\ q.next = v.next + 1
   BY <1>1, <2>1, AddAboveIs
 <2>3. r.id = v.next /\ r.kind = "activity" BY <1>1, <2>1, RowIs
 <2>4. u = [q EXCEPT !.activity = v.next] BY <1>3, HasIs DEF T!activityGroup
 <2> HIDE DEF q, r
 <2>5. Sound(q, from) /\ Steady(v, q) BY <2>2, <2>3, Added
 <2>6. q \in T!Pages /\ Rowed(q) BY <2>2, FormedIs
 <2>7. /\ u \in T!Pages /\ u.rows = q.rows /\ u.next = q.next /\ u.seg = q.seg /\ u.tools = q.tools
       /\ u.turnTop = q.turnTop /\ u.todo = q.todo /\ u.owns = q.owns /\ u.skip = q.skip /\ u.activity = v.next
   BY <1>1, <2>4, <2>6 DEF T!Pages
 <2>8. T!Formed(u) BY <1>1, <2>2, <2>7, Refielded DEF T!Formed
 <2>9. /\ T!Ids(u) = T!Ids(q) /\ \A a : T!Line(u, a) = T!Line(q, a)
       /\ \A a, b : T!Before(u, a, b) <=> T!Before(q, a, b)
   BY <2>6, <2>7, SameRows
 <2>10. v.next \in T!Ids(u) /\ T!Line(u, v.next).kind = "activity"
   BY <2>2, <2>3, <2>9 DEF Placed
 <2>11. T!Drawn(u) BY <2>5, <2>7, <2>9, <2>10 DEF Sound, T!Drawn
 <2>12. T!Topped(u, from)
  <3>1. ASSUME v.turnTop \in T!Ids(v) PROVE T!Before(q, v.next, v.turnTop)
   <4>1. ~T!Before(v, v.turnTop, v.turnTop) BY <1>1, <3>1, InOrder
   <4> QED BY <2>2, <2>3, <3>1, <4>1 DEF Placed
  <3>2. q.turnTop = v.turnTop /\ (v.turnTop \in T!Ids(q) => v.turnTop \in T!Ids(v))
    BY <1>1, <2>2, <2>3, FormedIs DEF Placed, Rest, T!Formed
  <3> QED BY <2>5, <2>7, <2>9, <3>1, <3>2 DEF Sound, T!Topped
 <2>13. Steady(v, u) BY <2>5, <2>7, <2>9 DEF Steady
 <2>14. Placed(v, u, r, v.turnTop) BY <2>2, <2>9 DEF Placed
 <2> QED
   BY <1>3, <2>2, <2>5, <2>7, <2>8, <2>10, <2>11, <2>12, <2>13, <2>14
     DEF Sound, Rest, r
<1> QED BY <1>2, <1>3

\* One task card.
LEMMA TodoIs ==
  ASSUME NEW from, NEW v, Sound(v, from), NEW u, u = T!showTodos(v)
  PROVE  /\ Sound(u, from) /\ Steady(v, u) /\ u.seg = v.seg /\ u.tools = v.tools /\ u.turnTop = v.turnTop
         /\ u.activity = v.activity /\ u.owns = v.owns
         /\ u = v \/ (Placed(v, u, T!Row(v.next, "todo", 0), v.turnTop) /\ u.next = v.next + 1)
<1>1. T!Formed(v) /\ Rowed(v) /\ v.next \in Nat \ {0} /\ v.next \notin T!Ids(v)
  BY FormedIs DEF Sound
<1>2. CASE v.todo \in T!Ids(v)
 <2>1. u = v BY <1>2, HasIs DEF T!showTodos
 <2>2. Steady(v, v) BY <1>1 DEF Steady
 <2> QED BY <1>2, <2>1, <2>2
<1>3. CASE v.todo \notin T!Ids(v)
 <2> DEFINE q == T!addAbove(v, "todo")
            r == T!Row(v.next, "todo", 0)
 <2>1. "todo" \in T!Kinds BY DEF T!Kinds
 <2>2. T!Formed(q) /\ Placed(v, q, r, v.turnTop) /\ Rest(q) = Rest(v) /\ q.next = v.next + 1
   BY <1>1, <2>1, AddAboveIs
 <2>3. r.id = v.next /\ r.kind = "todo" BY <1>1, <2>1, RowIs
 <2>4. u = [q EXCEPT !.todo = v.next] BY <1>3, HasIs DEF T!showTodos
 <2> HIDE DEF q, r
 <2>5. Sound(q, from) /\ Steady(v, q) BY <2>2, <2>3, Added
 <2>6. q \in T!Pages /\ Rowed(q) BY <2>2, FormedIs
 <2>7. /\ u \in T!Pages /\ u.rows = q.rows /\ u.next = q.next /\ u.seg = q.seg /\ u.tools = q.tools
       /\ u.turnTop = q.turnTop /\ u.activity = q.activity /\ u.owns = q.owns /\ u.skip = q.skip
       /\ u.todo = v.next
   BY <1>1, <2>4, <2>6 DEF T!Pages
 <2>8. T!Formed(u) BY <1>1, <2>2, <2>7, Refielded DEF T!Formed
 <2>9. /\ T!Ids(u) = T!Ids(q) /\ \A a : T!Line(u, a) = T!Line(q, a)
       /\ \A a, b : T!Before(u, a, b) <=> T!Before(q, a, b)
   BY <2>6, <2>7, SameRows
 <2>10. T!Drawn(u) /\ T!Topped(u, from) BY <2>5, <2>7, <2>9 DEF Sound, T!Drawn, T!Topped
 <2>11. Steady(v, u) BY <2>5, <2>7, <2>9 DEF Steady
 <2>12. Placed(v, u, r, v.turnTop) BY <2>2, <2>9 DEF Placed
 <2> QED BY <1>3, <2>2, <2>5, <2>7, <2>8, <2>10, <2>11, <2>12 DEF Sound, Rest, r
<1> QED BY <1>2, <1>3

\* A thinking segment opens on the activity row.
LEMMA ThinkIs ==
  ASSUME NEW from, NEW v, Sound(v, from), v.seg = T!NoSeg, v.activity \in T!Ids(v),
         NEW u, u = AtThought(v)
  PROVE  /\ Sound(u, from) /\ Steady(v, u) /\ Gone(v, u, 0) /\ u.next = v.next /\ u.tools = v.tools
         /\ u.turnTop = v.turnTop /\ u.activity = v.activity /\ u.todo = v.todo /\ u.owns = v.owns
         /\ u.seg = [kind |-> "think", row |-> v.activity, text |-> 0]
<1>1. /\ T!Formed(v) /\ Rowed(v) /\ v \in T!Pages /\ v.next \in Nat \ {0}
      /\ v.activity \in Nat /\ 0 \notin T!Ids(v)
  BY FormedIs DEF Sound
<1>2. /\ u \in T!Pages /\ u.rows = v.rows /\ u.next = v.next /\ u.tools = v.tools /\ u.skip = v.skip
      /\ u.turnTop = v.turnTop /\ u.activity = v.activity /\ u.todo = v.todo /\ u.owns = v.owns
      /\ u.seg = [kind |-> "think", row |-> v.activity, text |-> 0]
  BY <1>1 DEF T!Pages, AtThought
<1>3. T!Formed(u) BY <1>1, <1>2, Refielded DEF T!Formed
<1>4. /\ T!Ids(u) = T!Ids(v) /\ Gone(v, u, 0) /\ \A a : T!Line(u, a) = T!Line(v, a)
      /\ \A a, b : T!Before(u, a, b) <=> T!Before(v, a, b)
  BY <1>1, <1>2, SameRows
<1>5. T!Drawn(u)
 <2>1. v.seg.row = 0 BY DEF T!NoSeg, T!None
 <2> QED BY <1>1, <1>2, <1>4, <2>1 DEF Sound, T!Drawn
<1>6. T!Topped(u, from) /\ Steady(v, u) BY <1>1, <1>2, <1>4 DEF Sound, T!Topped, Steady
<1> QED BY <1>2, <1>3, <1>4, <1>5, <1>6 DEF Sound

\* An answer segment opens on a row of its own.
LEMMA OutIs ==
  ASSUME NEW from, NEW v, Sound(v, from), v.seg = T!NoSeg, Owning(v),
         NEW top, v.turnTop = 0 => top = v.next, v.turnTop # 0 => top = v.turnTop,
         NEW u, u = AtAnswer(v, top)
  PROVE  /\ Sound(u, from) /\ Steady(v, u) /\ Placed(v, u, T!Row(v.next, "bot", 0), 0)
         /\ u.next = v.next + 1 /\ u.tools = v.tools /\ u.activity = v.activity /\ u.todo = v.todo
         /\ u.owns = v.owns /\ u.turnTop = top
         /\ u.seg = [kind |-> "out", row |-> v.next, text |-> 0]
<1> DEFINE r == T!Row(v.next, "bot", 0)
           q == T!addMsg(v, "bot", 0)
<1>0. u = [q EXCEPT !.turnTop = top, !.seg = [kind |-> "out", row |-> v.next, text |-> 0]]
  BY DEF AtAnswer
<1>1. T!Formed(v) /\ Rowed(v) /\ v.next \in Nat \ {0} /\ v.next \notin T!Ids(v) /\ 0 \notin T!Ids(v)
  BY FormedIs DEF Sound
<1>2. "bot" \in T!Kinds BY DEF T!Kinds
<1>3. T!Formed(q) /\ Placed(v, q, r, 0) /\ Rest(q) = Rest(v) /\ q.next = v.next + 1
  BY <1>1, <1>2, AddMsgIs
<1>4. r.id = v.next /\ r.kind = "bot" /\ r.text = 0 /\ r.painted = 0 BY <1>1, <1>2, RowIs
<1>6. q \in T!Pages /\ Rowed(q) /\ top \in Nat /\ top < q.next /\ top # 0
 <2>1. v.turnTop \in Nat /\ v.turnTop < v.next BY <1>1, FormedIs DEF T!Formed
 <2> QED BY <1>1, <1>3, <2>1, FormedIs
<1> HIDE DEF r, q
<1>7. /\ u \in T!Pages /\ u.rows = q.rows /\ u.next = q.next /\ u.tools = q.tools
      /\ u.activity = q.activity /\ u.todo = q.todo /\ u.owns = q.owns /\ u.skip = q.skip
      /\ u.turnTop = top
      /\ u.seg = [kind |-> "out", row |-> v.next, text |-> 0]
 <2>1. ASSUME NEW uu,
              uu = [q EXCEPT !.turnTop = top, !.seg = [kind |-> "out", row |-> v.next, text |-> 0]]
       PROVE  /\ uu \in T!Pages /\ uu.rows = q.rows /\ uu.next = q.next /\ uu.tools = q.tools
              /\ uu.activity = q.activity /\ uu.todo = q.todo /\ uu.owns = q.owns /\ uu.skip = q.skip
              /\ uu.turnTop = top
              /\ uu.seg = [kind |-> "out", row |-> v.next, text |-> 0]
   BY <1>1, <1>6, <2>1 DEF T!Pages
 <2> QED BY <1>0, <2>1
<1>8. /\ q.tools = v.tools /\ q.activity = v.activity /\ q.todo = v.todo /\ q.owns = v.owns
      /\ q.skip = v.skip /\ q.turnTop = v.turnTop
  BY <1>3 DEF Rest
<1>9. T!Formed(u) BY <1>1, <1>3, <1>6, <1>7, Refielded DEF T!Formed
<1>10. /\ T!Ids(u) = T!Ids(q) /\ \A a : T!Line(u, a) = T!Line(q, a)
       /\ \A a, b : T!Before(u, a, b) <=> T!Before(q, a, b)
 <2>1. Rowed(q) /\ u.rows = q.rows BY <1>6, <1>7
 <2> QED BY <2>1, SameRows
<1>11. Placed(v, u, r, 0) BY <1>3, <1>10 DEF Placed
<1>12. /\ T!Ids(u) = T!Ids(v) \cup {v.next} /\ T!Line(u, v.next) = r
       /\ \A a \in T!Ids(v) : T!Line(u, a) = T!Line(v, a)
       /\ \A a, b \in T!Ids(v) : T!Before(u, a, b) <=> T!Before(v, a, b)
       /\ \A a \in T!Ids(v) : ~T!Before(u, v.next, a) /\ T!Before(u, a, v.next)
  BY <1>1, <1>4, <1>11 DEF Placed
<1>13. v.activity # v.next /\ v.turnTop # v.next /\ \A t \in ToolIds : v.tools[t] # v.next
  BY <1>1, FormedIs DEF T!Formed
<1>14. T!Drawn(u)
 <2>1. v.seg.row = 0 BY DEF T!NoSeg, T!None
 <2>2. \A a \in T!Ids(v) : T!Line(v, a).kind = "bot" => T!Line(v, a).painted = T!Line(v, a).text
   BY <1>1, <2>1 DEF Sound, T!Drawn
 <2> QED BY <1>1, <1>4, <1>7, <1>8, <1>12, <1>13, <2>2 DEF Sound, T!Drawn
<1>15. T!Topped(u, from)
 <2>1. ~T!Before(u, v.next, v.next) BY <1>9, <1>12, FormedIs, InOrder
 <2>2. CASE v.turnTop = 0
  <3>1. \A a \in T!Ids(v) : T!Line(v, a).kind = "bot" => a < from
    BY <2>2 DEF Sound, T!Topped, T!None, Owning
  <3>2. \A a \in T!Ids(v) : a \in Nat BY <1>1, FormedIs
  <3> QED BY <1>1, <1>7, <1>8, <1>12, <1>13, <2>1, <2>2, <3>1, <3>2 DEF Sound, T!Topped, T!None
 <2>3. CASE v.turnTop # 0 BY <1>1, <1>7, <1>8, <1>12, <1>13, <2>3 DEF Sound, T!Topped, T!None
 <2> QED BY <2>2, <2>3
<1>17. u.next = v.next + 1 /\ from <= u.next BY <1>1, <1>3, <1>7 DEF Sound
<1>16. Steady(v, u)
 <2>1. v.next <= u.next BY <1>1, <1>17
 <2>3. u.skip = v.skip /\ u.owns = v.owns BY <1>7, <1>8
 <2>2. T!Line(u, v.next).kind # "user" BY <1>4, <1>12
 <2> QED BY <1>1, <1>12, <2>1, <2>2, <2>3 DEF Steady
<1> QED BY <1>7, <1>8, <1>9, <1>11, <1>14, <1>15, <1>16, <1>17 DEF Sound, r

\* A row is written to, in a view that may have other fields than before.
LEMMA Written ==
  ASSUME NEW from, NEW v, Sound(v, from), NEW q, T!Formed(q), q.rows = v.rows, q.next = v.next,
         NEW r \in T!Lines, r.id \in T!Ids(v), NEW u, u = [q EXCEPT !.rows[T!At(q, r.id)] = r]
  PROVE  T!Formed(u) /\ Turned(v, u, r) /\ Rest(u) = Rest(q) /\ u.next = v.next
<1>1. Rowed(v) BY FormedIs DEF Sound
<1>2. /\ T!Ids(q) = T!Ids(v) /\ \A a : T!Line(q, a) = T!Line(v, a)
      /\ \A a, b : T!Before(q, a, b) <=> T!Before(v, a, b)
  BY <1>1, SameRows
<1>3. T!Formed(u) /\ Turned(q, u, r) /\ Rest(u) = Rest(q) /\ u.next = q.next BY <1>2, RowChanged
<1> QED BY <1>2, <1>3 DEF Turned

\* A thought is written to the activity row, a token to the open answer.
LEMMA TextIs ==
  ASSUME NEW from, NEW v, Sound(v, from), NEW k \in {"think", "out"}, v.seg.kind = k,
         NEW n \in Nat,
         NEW q, q \in T!Pages, q.rows = v.rows, q.next = v.next, q.tools = v.tools,
         q.activity = v.activity, q.turnTop = v.turnTop, q.todo = v.todo, q.owns = v.owns, q.skip = v.skip,
         q.seg.kind = k, q.seg.row = v.seg.row, q.seg.text = n,
         NEW r \in T!Lines, r.id = v.seg.row, r.kind = T!Line(v, v.seg.row).kind,
         NEW u, u = [q EXCEPT !.rows[T!At(q, r.id)] = r]
  PROVE  /\ Sound(u, from) /\ Steady(v, u) /\ Turned(v, u, r) /\ u.next = v.next /\ u.tools = v.tools
         /\ u.activity = v.activity /\ u.turnTop = v.turnTop /\ u.todo = v.todo /\ u.owns = v.owns
         /\ u.seg = q.seg
<1> DEFINE x == v.seg.row
           l == T!Line(v, x)
<1>1. /\ T!Formed(v) /\ Rowed(v) /\ v \in T!Pages /\ v.next \in Nat
      /\ v.seg \in [kind : {"none", "think", "out"}, row : Nat, text : Nat]
  BY FormedIs DEF Sound, T!Pages
<1>2. x \in T!Ids(v) /\ l.kind = (IF k = "think" THEN "activity" ELSE "bot")
  BY DEF Sound, T!Drawn
<1>4. r.id = x /\ r.kind = l.kind /\ r.id \in T!Ids(v) BY <1>2
<1> HIDE DEF l, x
<1>5. q.seg.row = x BY DEF x
<1>6. T!Formed(q) BY <1>1, <1>5, Refielded DEF T!Formed, x
<1>7. T!Formed(u) /\ Turned(v, u, r) /\ Rest(u) = Rest(q) /\ u.next = v.next
  BY <1>4, <1>6, Written
<1>8. /\ u.seg = q.seg /\ u.activity = v.activity /\ u.turnTop = v.turnTop /\ u.tools = v.tools
      /\ u.todo = v.todo /\ u.owns = v.owns /\ u.skip = v.skip
  BY <1>7 DEF Rest
<1>9. \A a \in T!Ids(v) : T!Line(u, a).kind = T!Line(v, a).kind BY <1>4, <1>7 DEF Turned, l, x
<1>10. T!Ids(u) = T!Ids(v) /\ \A a \in T!Ids(v) \ {x} : T!Line(u, a) = T!Line(v, a)
  BY <1>4, <1>7 DEF Turned
<1>11. T!Drawn(u)
 <2>1. \A a \in T!Ids(v) : T!Line(v, a).kind = "bot" /\ a # x => T!Line(v, a).painted = T!Line(v, a).text
   BY DEF Sound, T!Drawn, x
 <2>2. \A a \in T!Ids(u) : T!Line(u, a).kind = "bot" /\ a # u.seg.row => T!Line(u, a).painted = T!Line(u, a).text
   BY <1>5, <1>8, <1>9, <1>10, <2>1
 <2>3. \A a, b \in T!Ids(u) : T!Line(u, a).kind = "pending" /\ T!Line(u, b).kind = "pending" => a = b
   BY <1>9, <1>10 DEF Sound, T!Drawn
 <2>4. /\ u.activity \in T!Ids(u) => T!Line(u, u.activity).kind = "activity"
       /\ \A t \in ToolIds : u.tools[t] \in T!Ids(u) => T!Line(u, u.tools[t]).kind = "activity"
   BY <1>8, <1>9, <1>10 DEF Sound, T!Drawn
 <2> QED BY <1>2, <1>5, <1>8, <1>9, <1>10, <2>2, <2>3, <2>4 DEF T!Drawn, l, x
<1>12. T!Topped(u, from) BY <1>7, <1>8, <1>9 DEF Sound, T!Topped, Turned
<1>13. Steady(v, u) BY <1>1, <1>2, <1>4, <1>7, <1>8, <1>9 DEF Steady, Turned, l, x
<1> QED BY <1>4, <1>7, <1>8, <1>11, <1>12, <1>13 DEF Sound

\* A row is written to and nothing else.
LEMMA Rewritten ==
  ASSUME NEW from, NEW v, Sound(v, from), NEW u, T!Formed(u), Rest(u) = Rest(v),
         u.next = v.next,
         NEW r, Turned(v, u, r), r.kind = T!Line(v, r.id).kind, r.kind # "user",
         r.kind = "bot" /\ r.id # v.seg.row => r.painted = r.text
  PROVE  Sound(u, from) /\ Steady(v, u)
<1>1. T!Formed(v) /\ v.next \in Nat BY FormedIs DEF Sound
<1>2. /\ u.seg = v.seg /\ u.activity = v.activity /\ u.turnTop = v.turnTop /\ u.tools = v.tools
      /\ u.owns = v.owns /\ u.skip = v.skip
  BY DEF Rest
<1>3. /\ T!Ids(u) = T!Ids(v) /\ \A a \in T!Ids(v) \ {r.id} : T!Line(u, a) = T!Line(v, a)
      /\ T!Line(u, r.id) = r /\ r.id \in T!Ids(v)
      /\ \A a, b \in T!Ids(v) : T!Before(u, a, b) <=> T!Before(v, a, b)
  BY DEF Turned
<1>4. \A a \in T!Ids(v) : T!Line(u, a).kind = T!Line(v, a).kind BY <1>3
<1>5. T!Drawn(u) BY <1>2, <1>3, <1>4 DEF Sound, T!Drawn
<1>6. T!Topped(u, from) BY <1>2, <1>3, <1>4 DEF Sound, T!Topped
<1>7. Steady(v, u) BY <1>1, <1>2, <1>3, <1>4 DEF Steady
<1> QED BY <1>5, <1>6, <1>7 DEF Sound

\* A tool call gets the activity row.
LEMMA ToolSetIs ==
  ASSUME NEW from, NEW v, Sound(v, from), v.activity \in T!Ids(v), NEW k \in ToolIds, NEW u,
         u = Bind(v, k)
  PROVE  /\ Sound(u, from) /\ Steady(v, u) /\ Gone(v, u, 0) /\ u.next = v.next /\ u.seg = v.seg
         /\ u.turnTop = v.turnTop /\ u.activity = v.activity /\ u.todo = v.todo /\ u.owns = v.owns
         /\ u.tools[k] = v.activity /\ \A t \in ToolIds \ {k} : u.tools[t] = v.tools[t]
<1>1. T!Formed(v) /\ Rowed(v) /\ v \in T!Pages /\ v.next \in Nat \ {0} /\ v.activity \in Nat
  BY FormedIs DEF Sound
<1>2. /\ u \in T!Pages /\ u.rows = v.rows /\ u.next = v.next /\ u.seg = v.seg /\ u.skip = v.skip
      /\ u.turnTop = v.turnTop /\ u.activity = v.activity /\ u.todo = v.todo /\ u.owns = v.owns
      /\ u.tools[k] = v.activity /\ \A t \in ToolIds \ {k} : u.tools[t] = v.tools[t]
  BY <1>1 DEF T!Pages, Bind
<1>3. T!Formed(u) BY <1>1, <1>2, Refielded DEF T!Formed
<1>4. /\ T!Ids(u) = T!Ids(v) /\ Gone(v, u, 0) /\ \A a : T!Line(u, a) = T!Line(v, a)
      /\ \A a, b : T!Before(u, a, b) <=> T!Before(v, a, b)
  BY <1>1, <1>2, SameRows
<1>5. T!Line(v, v.activity).kind = "activity" BY DEF Sound, T!Drawn
<1>6. \A t \in ToolIds : u.tools[t] \in T!Ids(u) => T!Line(u, u.tools[t]).kind = "activity"
  BY <1>2, <1>4, <1>5 DEF Sound, T!Drawn
<1>7. T!Drawn(u) /\ T!Topped(u, from) /\ Steady(v, u)
  BY <1>1, <1>2, <1>4, <1>6 DEF Sound, T!Drawn, T!Topped, Steady
<1> QED BY <1>2, <1>3, <1>4, <1>7 DEF Sound

\* The state of a tool call is written to its row.
LEMMA ToolMarkIs ==
  ASSUME NEW from, NEW v, Sound(v, from), NEW k \in ToolIds,
         NEW st \in {"running", "completed"},
         NEW u, u = Marking(v, k, st)
  PROVE  /\ Sound(u, from) /\ Steady(v, u) /\ Rest(u) = Rest(v) /\ u.next = v.next
         /\ IF v.tools[k] \in T!Ids(v)
            THEN /\ T!Line(v, v.tools[k]).kind = "activity"
                 /\ Turned(v, u, Told(T!Line(v, v.tools[k]), k, st))
            ELSE u = v
<1>1. T!Formed(v) /\ Rowed(v) /\ v \in T!Pages /\ v.next \in Nat BY FormedIs DEF Sound
<1>2. CASE v.tools[k] \notin T!Ids(v)
 <2>1. u = v BY <1>2, HasIs DEF T!WithRow, Marking
 <2>2. Steady(v, v) BY <1>1 DEF Steady
 <2>3. Sound(u, from) /\ Steady(v, u) /\ Rest(u) = Rest(v) /\ u.next = v.next BY <2>1, <2>2
 <2> QED BY <1>2, <2>1, <2>3
<1>3. CASE v.tools[k] \in T!Ids(v)
 <2> DEFINE x == v.tools[k]
            l == T!Line(v, x)
            r == [l EXCEPT !.tools[k] = st]
 <2>1. l \in T!Lines /\ l.id = x /\ l.kind = "activity"
   BY <1>1, <1>3, FormedIs DEF Sound, T!Drawn
 <2>2. r \in T!Lines /\ r.id = x /\ r.kind = "activity" BY <2>1 DEF T!Lines
 <2>3. u = [v EXCEPT !.rows[T!At(v, r.id)] = r]
  <3>1. T!Has(v, x) /\ v.rows[T!At(v, x)] = l BY <1>3, HasIs DEF T!Line
  <3>2. u = [v EXCEPT !.rows[T!At(v, x)] = [v.rows[T!At(v, x)] EXCEPT !.tools[k] = st]]
    BY <3>1 DEF T!WithRow, Marking
  <3> HIDE DEF x, l
  <3> QED BY <2>2, <3>1, <3>2
 <2>4. x \in T!Ids(v) BY <1>3
 <2> HIDE DEF x, l, r
 <2>5. T!Formed(u) /\ Turned(v, u, r) /\ Rest(u) = Rest(v) /\ u.next = v.next
   BY <1>1, <2>2, <2>3, <2>4, RowChanged
 <2>6. Sound(u, from) /\ Steady(v, u) BY <2>1, <2>2, <2>5, Rewritten DEF l
 <2> QED BY <1>3, <2>1, <2>5, <2>6 DEF x, l, r, Told
<1> QED BY <1>2, <1>3

\* The frame: the open answer is painted.
LEMMA PaintIs ==
  ASSUME NEW from, NEW v, Sound(v, from), v.seg.kind = "out", NEW u, u = T!painted(v, v.seg.row)
  PROVE  /\ Sound(u, from) /\ Steady(v, u) /\ Rest(u) = Rest(v) /\ u.next = v.next
         /\ v.seg.row \in T!Ids(v) /\ T!Line(v, v.seg.row).kind = "bot"
         /\ Turned(v, u, [T!Line(v, v.seg.row) EXCEPT !.painted = T!Line(v, v.seg.row).text])
<1>1. T!Formed(v) /\ Rowed(v) /\ v \in T!Pages /\ v.next \in Nat BY FormedIs DEF Sound
<1> DEFINE x == v.seg.row
           l == T!Line(v, x)
           r == [l EXCEPT !.painted = l.text]
<1>2. x \in T!Ids(v) /\ l.kind = "bot" BY DEF Sound, T!Drawn
<1>3. l \in T!Lines /\ l.id = x BY <1>1, <1>2, FormedIs
<1>4. r \in T!Lines /\ r.id = x /\ r.kind = "bot" /\ r.text = l.text /\ r.painted = l.text
  BY <1>2, <1>3 DEF T!Lines
<1>5. u = [v EXCEPT !.rows[T!At(v, x)] = r]
 <2>1. T!Has(v, x) /\ v.rows[T!At(v, x)] = l BY <1>2, HasIs DEF T!Line
 <2>2. u = T!painted(v, x) OBVIOUS
 <2> HIDE DEF x, l
 <2> QED BY <2>1, <2>2 DEF T!painted, T!WithRow
<1> HIDE DEF x, l, r
<1>6. T!Formed(u) /\ Turned(v, u, r) /\ Rest(u) = Rest(v) /\ u.next = v.next
  BY <1>1, <1>2, <1>4, <1>5, RowChanged
<1>7. Sound(u, from) /\ Steady(v, u) BY <1>2, <1>4, <1>6, Rewritten DEF l
<1> QED BY <1>2, <1>6, <1>7 DEF x, l, r

\* There is a last row of any kind there is a row of.
LEMMA LastExists ==
  ASSUME NEW n \in Nat, NEW S \in SUBSET (1 .. n), S # {}
  PROVE  T!Final(S) \in S /\ \A j \in S : j <= T!Final(S)
<1> DEFINE D == {n - i : i \in S}
<1>1. D \subseteq Nat /\ D # {}
 <2>1. \A i \in S : n - i \in Nat OBVIOUS
 <2>2. PICK i \in S : TRUE OBVIOUS
 <2> QED BY <2>1, <2>2
<1>2. PICK d \in D : \A y \in D : <<y, d>> \notin OpToRel(<, Nat)
 <2> HIDE DEF OpToRel, D
 <2> QED BY <1>1, NatLessThanWellFounded, WFMin
<1>3. PICK i \in S : d = n - i BY <1>2
<1>4. \A j \in S : j <= i
 <2> SUFFICES ASSUME NEW j \in S PROVE j <= i OBVIOUS
 <2>1. n - j \in D /\ n - j \in Nat BY <1>1
 <2>2. ~(n - j < d) BY <1>1, <1>2, <2>1 DEF OpToRel
 <2> QED BY <1>3, <2>2
<1> QED BY <1>4 DEF T!Final

\* The last prompt is taken away.
LEMMA DropIs ==
  ASSUME NEW from, NEW v, Sound(v, from), NEW u, u = T!dropLastUser(v)
  PROVE  /\ Sound(u, from) /\ Rest(u) = Rest(v) /\ u.next = v.next
         /\ \E x : /\ Gone(v, u, x)
                   /\ x \in T!Ids(v) => T!Line(v, x).kind = "user"
                   /\ \A a \in T!Ids(v) : T!Line(v, a).kind = "user" =>
                         x \in T!Ids(v) /\ ~T!Before(v, x, a)
<1>1. T!Formed(v) /\ Rowed(v) /\ v.rows \in Seq(T!Lines) BY FormedIs DEF Sound
<1>2. CASE T!Kind(v, "user") = {}
 <2>1. u = v BY <1>2 DEF T!dropLastUser
 <2>2. \A a \in T!Ids(v) : T!Line(v, a).kind # "user" BY <1>1, <1>2, IdIs DEF T!Kind
 <2>3. Gone(v, u, 0) /\ 0 \notin T!Ids(v) BY <1>1, <2>1, SameRows, FormedIs
 <2> QED BY <2>1, <2>2, <2>3
<1>3. CASE T!Kind(v, "user") # {}
 <2> DEFINE i == T!Final(T!Kind(v, "user"))
            x == v.rows[i].id
 <2>1. i \in T!Kind(v, "user") /\ \A j \in T!Kind(v, "user") : j <= i
  <3>1. Len(v.rows) \in Nat /\ T!Kind(v, "user") \in SUBSET (1 .. Len(v.rows))
    BY <1>1 DEF T!Kind
  <3> QED BY <1>3, <3>1, LastExists
 <2>2. u = T!Removed(v, i) BY <1>3 DEF T!dropLastUser
 <2> HIDE DEF i
 <2>3. i \in DOMAIN v.rows /\ v.rows[i].kind = "user" /\ i \in Nat BY <1>1, <2>1 DEF T!Kind
 <2>4. T!Formed(u) /\ Gone(v, u, x) /\ Rest(u) = Rest(v) /\ u.next = v.next
   BY <1>1, <2>2, <2>3, RemovedIs
 <2>5. x \in T!Ids(v) /\ T!Line(v, x).kind = "user" /\ T!At(v, x) = i BY <1>1, <2>3, AtIs
 <2> HIDE DEF x
 <2>6. \A a \in T!Ids(v) : T!Line(v, a).kind = "user" => ~T!Before(v, x, a)
  <3> SUFFICES ASSUME NEW a \in T!Ids(v), T!Line(v, a).kind = "user" PROVE ~T!Before(v, x, a)
    OBVIOUS
  <3>1. T!At(v, a) \in T!Kind(v, "user") /\ T!At(v, a) \in Nat BY <1>1, IdIs DEF T!Kind
  <3> QED BY <2>1, <2>3, <2>5, <3>1 DEF T!Before
 <2>7. u.seg = v.seg /\ u.activity = v.activity /\ u.turnTop = v.turnTop /\ u.tools = v.tools /\ u.owns = v.owns
   BY <2>4 DEF Rest
 <2>8. /\ T!Ids(u) = T!Ids(v) \ {x} /\ \A a \in T!Ids(u) : T!Line(u, a) = T!Line(v, a)
       /\ \A a, b \in T!Ids(u) : T!Before(u, a, b) <=> T!Before(v, a, b)
   BY <2>4 DEF Gone
 <2>9. T!Drawn(u) BY <2>5, <2>7, <2>8 DEF Sound, T!Drawn
 <2>10. T!Topped(u, from) BY <2>7, <2>8 DEF Sound, T!Topped
 <2> QED BY <2>4, <2>5, <2>6, <2>9, <2>10 DEF Sound
<1> QED BY <1>2, <1>3

\* A turn that has ended owns nothing.
LEMMA QuietIs ==
  ASSUME NEW from, NEW v, Sound(v, from), v.seg = T!NoSeg, NEW u, u = Quieted(v)
  PROVE  /\ Sound(u, from) /\ T!Idle(u) /\ ~u.owns /\ u.rows = v.rows /\ u.next = v.next
         /\ u.skip = v.skip /\ u.seg = T!NoSeg
<1>1. T!Formed(v) /\ Rowed(v) /\ v \in T!Pages /\ v.next \in Nat \ {0} /\ 0 \notin T!Ids(v)
  BY FormedIs DEF Sound
<1>2. /\ u \in T!Pages /\ u.rows = v.rows /\ u.next = v.next /\ u.seg = v.seg /\ u.skip = v.skip
      /\ u.turnTop = 0 /\ u.activity = 0 /\ u.todo = v.todo /\ u.owns = FALSE
      /\ u.tools = [i \in ToolIds |-> 0] /\ u.tools = T!NoTools
  BY <1>1 DEF T!Pages, T!NewTurn, T!None, T!NoTools, Quieted
<1>3. T!Formed(u) BY <1>1, <1>2, Refielded DEF T!Formed
<1>4. /\ T!Ids(u) = T!Ids(v) /\ \A a : T!Line(u, a) = T!Line(v, a)
      /\ \A a, b : T!Before(u, a, b) <=> T!Before(v, a, b)
  BY <1>1, <1>2, SameRows
<1>5. T!Drawn(u)
 <2>1. u.activity \notin T!Ids(u) /\ \A t \in ToolIds : u.tools[t] \notin T!Ids(u)
   BY <1>1, <1>2, <1>4
 <2>2. T!Drawn(v) BY DEF Sound
 <2>3. u.seg = v.seg BY <1>2
 <2>4. \A a \in T!Ids(u) : T!Line(u, a).kind = "bot" /\ a # u.seg.row => T!Line(u, a).painted = T!Line(u, a).text
   BY <1>4, <2>2, <2>3 DEF T!Drawn
 <2>5. \A a, b \in T!Ids(u) : T!Line(u, a).kind = "pending" /\ T!Line(u, b).kind = "pending" => a = b
  <3>1. \A a, b \in T!Ids(v) : T!Line(v, a).kind = "pending" /\ T!Line(v, b).kind = "pending" => a = b
    BY <2>2 DEF T!Drawn
  <3> QED BY <1>4, <3>1
 <2>6. u.seg.kind = "none" BY <2>3 DEF T!NoSeg
 <2> QED BY <2>1, <2>3, <2>4, <2>5, <2>6 DEF T!Drawn
<1>6. T!Topped(u, from) BY <1>1, <1>2, <1>4 DEF T!Topped
<1>7. T!Idle(u) BY <1>2 DEF T!Idle, T!None
<1> QED BY <1>2, <1>3, <1>5, <1>6, <1>7 DEF Sound

\* A turn's first event, when it is a prompt.
LEMMA UserIs ==
  ASSUME NEW from, NEW v, Sound(v, from), T!Idle(v), NEW p \in Nat, NEW u, u = T!userEvent(v, p)
  PROVE  /\ Sound(u, from) /\ u.owns = v.owns
         /\ v.skip => u = [v EXCEPT !.skip = FALSE]
         /\ ~v.skip /\ (\A a \in T!Ids(v) : T!Line(v, a).kind = "aside")
               => u = T!addMsg(v, "user", p)
<1>1. /\ T!Formed(v) /\ Rowed(v) /\ v \in T!Pages /\ v.next \in Nat \ {0} /\ v.rows \in Seq(T!Lines)
      /\ 0 \notin T!Ids(v) /\ v.skip \in BOOLEAN
  BY FormedIs DEF Sound
<1>2. T!NewTurn(T!finalizeSeg(v)) = v
 <2>1. v.seg = T!NoSeg /\ v.activity = T!None /\ v.turnTop = T!None /\ v.tools = T!NoTools
   BY DEF T!Idle
 <2>2. v.seg.kind # "out" BY <2>1 DEF T!NoSeg
 <2>3. T!finalizeSeg(v) = [v EXCEPT !.seg = T!NoSeg] BY <2>2 DEF T!finalizeSeg
 <2>4. [v EXCEPT !.seg = T!NoSeg] = v BY <1>1, <2>1 DEF T!Pages
 <2>5. [v EXCEPT !.activity = T!None, !.turnTop = T!None, !.tools = T!NoTools] = v
   BY <1>1, <2>1 DEF T!Pages
 <2> QED BY <2>3, <2>4, <2>5 DEF T!NewTurn
<1>3. u = IF v.skip THEN [v EXCEPT !.skip = FALSE] ELSE T!addUserMsg(v, p)
  BY <1>2 DEF T!userEvent
<1>4. CASE v.skip
 <2>1. u = [v EXCEPT !.skip = FALSE] BY <1>3, <1>4
 <2>2. u \in T!Pages /\ u.rows = v.rows /\ u.next = v.next BY <1>1, <2>1 DEF T!Pages
 <2>3. /\ u.seg = v.seg /\ u.activity = v.activity /\ u.turnTop = v.turnTop /\ u.tools = v.tools
       /\ u.todo = v.todo /\ u.owns = v.owns
   BY <1>1, <2>1 DEF T!Pages
 <2>4. T!Formed(u) BY <1>1, <2>2, <2>3, Refielded DEF T!Formed
 <2>5. /\ T!Ids(u) = T!Ids(v) /\ \A a : T!Line(u, a) = T!Line(v, a)
       /\ \A a, b : T!Before(u, a, b) <=> T!Before(v, a, b)
   BY <1>1, <2>2, SameRows
 <2>6. T!Drawn(u) /\ T!Topped(u, from) BY <2>3, <2>5 DEF Sound, T!Drawn, T!Topped
 <2> QED BY <1>4, <2>1, <2>2, <2>3, <2>4, <2>6 DEF Sound
<1>5. CASE ~v.skip
 <2> DEFINE q == T!addMsg(v, "user", p)
            r == T!Row(v.next, "user", p)
 <2>1. "user" \in T!Kinds BY DEF T!Kinds
 <2>2. T!Formed(q) /\ Placed(v, q, r, 0) /\ Rest(q) = Rest(v) /\ q.next = v.next + 1
   BY <1>1, <2>1, AddMsgIs
 <2>3. r.id = v.next /\ r.kind = "user" BY <1>1, <2>1, RowIs
 <2>4. u = v \/ u = q BY <1>3, <1>5 DEF T!addUserMsg
 <2>5. ASSUME \A a \in T!Ids(v) : T!Line(v, a).kind = "aside"
       PROVE  u = q
  <3> DEFINE S == DOMAIN v.rows \ T!Kind(v, "pending")
  <3>1. CASE S = {} BY <1>3, <1>5, <3>1 DEF T!addUserMsg
  <3>2. CASE S # {}
   <4>1. Len(v.rows) \in Nat /\ S \subseteq 1 .. Len(v.rows) /\ DOMAIN v.rows = 1 .. Len(v.rows)
     BY <1>1
   <4>2. T!Final(S) \in DOMAIN v.rows BY <3>2, <4>1, LastExists
   <4> DEFINE l == v.rows[T!Final(S)]
   <4>3. l.id \in T!Ids(v) /\ T!Line(v, l.id) = l BY <1>1, <4>2, AtIs
   <4>4. l.kind = "aside" BY <2>5, <4>3
   <4> HIDE DEF S
   <4> QED BY <1>3, <1>5, <4>4 DEF T!addUserMsg, S
  <3> QED BY <3>1, <3>2
 <2> HIDE DEF q, r
 <2>6. Sound(q, from) /\ q.owns = v.owns BY <2>2, <2>3, Added DEF Rest
 <2> QED BY <1>5, <2>4, <2>5, <2>6 DEF q
<1> QED BY <1>1, <1>4, <1>5

------------------------
\* Two views that draw a turn alike, and what becomes of the rows of both.

\* Two views that draw a turn alike draw one more row each, with the same words.
LEMMA BothPlaced ==
  ASSUME NEW v, NEW u, NEW F \in SUBSET T!Ids(v), NEW G \in SUBSET T!Ids(u), NEW m \in [F -> G],
         T!Alike(m, v, F, u, G),
         NEW vv, NEW uu, NEW r, NEW s, NEW t, NEW z, Placed(v, vv, r, t), Placed(u, uu, s, z),
         T!Says(r) = T!Says(s), r.id # 0, s.id # 0, T!Refers(m, v, F, u, G, t, z),
         Rowed(v), Rowed(u), Rowed(vv), Rowed(uu)
  PROVE  \E n \in [F \cup {r.id} -> G \cup {s.id}] :
            /\ T!Alike(n, vv, F \cup {r.id}, uu, G \cup {s.id})
            /\ \A a, b : a # r.id /\ b # s.id /\ T!Refers(m, v, F, u, G, a, b)
                            => T!Refers(n, vv, F \cup {r.id}, uu, G \cup {s.id}, a, b)
            /\ T!Refers(n, vv, F \cup {r.id}, uu, G \cup {s.id}, r.id, s.id)
<1> DEFINE x == r.id
           y == s.id
           FF == F \cup {x}
           GG == G \cup {y}
           n == [a \in FF |-> IF a = x THEN y ELSE m[a]]
<1>1. x \notin T!Ids(v) /\ y \notin T!Ids(u) /\ x \notin F /\ y \notin G BY DEF Placed
<1>2. n \in [FF -> GG] /\ n[x] = y /\ \A a \in F : n[a] = m[a] /\ m[a] \in G BY <1>1
<1>3. /\ T!Ids(vv) = T!Ids(v) \cup {x} /\ T!Line(vv, x) = r
      /\ \A a \in F : T!Line(vv, a) = T!Line(v, a)
      /\ \A a, b \in F : T!Before(vv, a, b) <=> T!Before(v, a, b)
      /\ \A a \in F : /\ T!Before(vv, x, a) <=> t \in T!Ids(v) /\ ~T!Before(v, a, t)
                      /\ T!Before(vv, a, x) <=> ~T!Before(vv, x, a)
  BY DEF Placed
<1>4. /\ T!Ids(uu) = T!Ids(u) \cup {y} /\ T!Line(uu, y) = s
      /\ \A a \in G : T!Line(uu, a) = T!Line(u, a)
      /\ \A a, b \in G : T!Before(uu, a, b) <=> T!Before(u, a, b)
      /\ \A a \in G : /\ T!Before(uu, y, a) <=> z \in T!Ids(u) /\ ~T!Before(u, a, z)
                      /\ T!Before(uu, a, y) <=> ~T!Before(uu, y, a)
  BY DEF Placed
<1>5. ~T!Before(vv, x, x) /\ ~T!Before(uu, y, y) BY <1>3, <1>4, InOrder
<1> HIDE DEF n, x, y
<1>6. \A a \in F : T!Before(vv, x, a) <=> T!Before(uu, y, n[a])
 <2> SUFFICES ASSUME NEW a \in F PROVE T!Before(vv, x, a) <=> T!Before(uu, y, m[a]) BY <1>2
 <2>1. (t \in T!Ids(v) <=> z \in T!Ids(u)) /\ (t \in T!Ids(v) => t \in F /\ m[t] = z)
   BY DEF T!Refers
 <2>2. t \in T!Ids(v) => (T!Before(v, a, t) <=> T!Before(u, m[a], z)) BY <2>1 DEF T!Alike
 <2> QED BY <1>2, <1>3, <1>4, <2>1, <2>2
<1>7. T!Alike(n, vv, FF, uu, GG)
 <2>1. \A a, b \in FF : n[a] = n[b] => a = b BY <1>1, <1>2 DEF T!Alike
 <2>2. \A b \in GG : \E a \in FF : n[a] = b BY <1>2 DEF T!Alike
 <2>3. \A a, b \in FF : T!Before(vv, a, b) <=> T!Before(uu, n[a], n[b])
  <3> SUFFICES ASSUME NEW a \in FF, NEW b \in FF PROVE T!Before(vv, a, b) <=> T!Before(uu, n[a], n[b])
    OBVIOUS
  <3>1. CASE a \in F /\ b \in F BY <1>2, <1>3, <1>4, <3>1 DEF T!Alike
  <3>2. CASE a = x /\ b \in F BY <1>2, <1>6, <3>2
  <3>3. CASE a \in F /\ b = x BY <1>2, <1>3, <1>4, <1>6, <3>3
  <3>4. CASE a = x /\ b = x BY <1>2, <1>5, <3>4
  <3> QED BY <3>1, <3>2, <3>3, <3>4
 <2>4. \A a \in FF : T!Says(T!Line(vv, a)) = T!Says(T!Line(uu, n[a]))
   BY <1>2, <1>3, <1>4 DEF T!Alike
 <2> QED BY <1>2, <2>1, <2>2, <2>3, <2>4 DEF T!Alike
<1>8. ASSUME NEW a, NEW b, a # x, b # y, T!Refers(m, v, F, u, G, a, b)
      PROVE  T!Refers(n, vv, FF, uu, GG, a, b)
  BY <1>2, <1>3, <1>4, <1>8 DEF T!Refers
<1>9. T!Refers(n, vv, FF, uu, GG, x, y) BY <1>2 DEF T!Refers, T!None, x, y
<1> QED BY <1>2, <1>7, <1>8, <1>9 DEF x, y

\* Each loses a row, the one the other's.
LEMMA BothGone ==
  ASSUME NEW v, NEW u, NEW F \in SUBSET T!Ids(v), NEW G \in SUBSET T!Ids(u), NEW m \in [F -> G],
         T!Alike(m, v, F, u, G),
         NEW vv, NEW uu, NEW x \in F, NEW y, y = m[x], Gone(v, vv, x), Gone(u, uu, y)
  PROVE  \E n \in [F \ {x} -> G \ {y}] :
            /\ T!Alike(n, vv, F \ {x}, uu, G \ {y})
            /\ \A a, b : T!Refers(m, v, F, u, G, a, b) => T!Refers(n, vv, F \ {x}, uu, G \ {y}, a, b)
<1> DEFINE FF == F \ {x}
           GG == G \ {y}
           n == [a \in FF |-> m[a]]
<1>1. \A a \in FF : m[a] \in GG BY DEF T!Alike
<1>2. n \in [FF -> GG] /\ \A a \in FF : n[a] = m[a] BY <1>1
<1>3. /\ T!Ids(vv) = T!Ids(v) \ {x} /\ \A a \in FF : T!Line(vv, a) = T!Line(v, a)
      /\ \A a, b \in FF : T!Before(vv, a, b) <=> T!Before(v, a, b)
  BY DEF Gone
<1>4. /\ T!Ids(uu) = T!Ids(u) \ {y} /\ \A a \in GG : T!Line(uu, a) = T!Line(u, a)
      /\ \A a, b \in GG : T!Before(uu, a, b) <=> T!Before(u, a, b)
  BY DEF Gone
<1> HIDE DEF n
<1>5. T!Alike(n, vv, FF, uu, GG)
 <2>1. \A b \in GG : \E a \in FF : n[a] = b BY <1>2 DEF T!Alike
 <2> QED BY <1>1, <1>2, <1>3, <1>4, <2>1 DEF T!Alike
<1>6. ASSUME NEW a, NEW b, T!Refers(m, v, F, u, G, a, b)
      PROVE  T!Refers(n, vv, FF, uu, GG, a, b)
 <2>1. a \in FF <=> b \in GG BY <1>6 DEF T!Refers, T!Alike
 <2> QED BY <1>2, <1>3, <1>4, <1>6, <2>1 DEF T!Refers
<1> QED BY <1>2, <1>5, <1>6

\* Corresponding rows change to say the same.
LEMMA BothTurned ==
  ASSUME NEW v, NEW u, NEW F \in SUBSET T!Ids(v), NEW G \in SUBSET T!Ids(u), NEW m \in [F -> G],
         T!Alike(m, v, F, u, G),
         NEW vv, NEW uu, NEW r, NEW s, Turned(v, vv, r), Turned(u, uu, s), r.id \in F,
         s.id = m[r.id],
         T!Says(r) = T!Says(s)
  PROVE  /\ T!Alike(m, vv, F, uu, G)
         /\ \A a, b : T!Refers(m, v, F, u, G, a, b) => T!Refers(m, vv, F, uu, G, a, b)
<1>1. /\ T!Ids(vv) = T!Ids(v) /\ T!Line(vv, r.id) = r
      /\ \A a \in F \ {r.id} : T!Line(vv, a) = T!Line(v, a)
      /\ \A a, b \in F : T!Before(vv, a, b) <=> T!Before(v, a, b)
  BY DEF Turned
<1>2. /\ T!Ids(uu) = T!Ids(u) /\ T!Line(uu, s.id) = s
      /\ \A a \in G \ {s.id} : T!Line(uu, a) = T!Line(u, a)
      /\ \A a, b \in G : T!Before(uu, a, b) <=> T!Before(u, a, b)
  BY DEF Turned
<1>3. \A a \in F : T!Says(T!Line(vv, a)) = T!Says(T!Line(uu, m[a])) BY <1>1, <1>2 DEF T!Alike
<1>4. T!Alike(m, vv, F, uu, G) BY <1>1, <1>2, <1>3 DEF T!Alike
<1> QED BY <1>1, <1>2, <1>4 DEF T!Refers

\* Neither view's rows of the turn change.
LEMMA BothKept ==
  ASSUME NEW v, NEW u, NEW F, NEW G, NEW m \in [F -> G], T!Alike(m, v, F, u, G),
         NEW vv, NEW uu, Keeps(v, vv, F), Keeps(u, uu, G)
  PROVE  /\ T!Alike(m, vv, F, uu, G)
         /\ \A a, b : /\ a \in T!Ids(vv) => a \in T!Ids(v)
                      /\ b \in T!Ids(uu) => b \in T!Ids(u)
                      /\ T!Refers(m, v, F, u, G, a, b)
                      => T!Refers(m, vv, F, uu, G, a, b)
<1>1. T!Alike(m, vv, F, uu, G) BY DEF Keeps, T!Alike
<1> QED BY <1>1 DEF T!Refers

------------------------
\* Two views of a turn through each step of its drawing.

\* What a turn has drawn is among the rows.
LEMMA MineIs ==
  ASSUME NEW v, NEW from, NEW x
  PROVE  T!Mine(v, from, x) \subseteq T!Ids(v)
BY DEF T!Mine

\* A new row is the turn's, unless it is pending or a task card.
LEMMA MinePlaced ==
  ASSUME NEW from, NEW v, Sound(v, from), NEW x, x # v.next, NEW vv, NEW r, NEW t,
         Placed(v, vv, r, t), r.id = v.next
  PROVE  /\ Keeps(v, vv, T!Mine(v, from, x))
         /\ r.kind \in {"pending", "todo", "aside"} => T!Mine(vv, from, x) = T!Mine(v, from, x)
         /\ r.kind \notin {"pending", "todo", "aside"} => T!Mine(vv, from, x) = T!Mine(v, from, x) \cup {v.next}
<1>1. v.next >= from /\ v.next \notin T!Ids(v) BY FormedIs DEF Sound
<1>2. /\ T!Ids(vv) = T!Ids(v) \cup {v.next} /\ T!Line(vv, v.next).kind = r.kind
      /\ \A a \in T!Ids(v) : T!Line(vv, a) = T!Line(v, a)
  BY DEF Placed
<1>3. Keeps(v, vv, T!Mine(v, from, x)) BY DEF Keeps, Placed, T!Mine
<1> QED BY <1>1, <1>2, <1>3 DEF T!Mine

\* What is taken away is the turn's no more.
LEMMA MineGone ==
  ASSUME NEW from, NEW v, NEW x, NEW vv, NEW y, Gone(v, vv, y)
  PROVE  /\ Less(T!Mine(v, from, x), y, T!Mine(vv, from, x))
         /\ y \notin T!Mine(v, from, x) =>
               T!Mine(vv, from, x) = T!Mine(v, from, x) /\ Keeps(v, vv, T!Mine(v, from, x))
<1>1. /\ T!Ids(vv) = T!Ids(v) \ {y} /\ \A a \in T!Ids(vv) : T!Line(vv, a) = T!Line(v, a)
      /\ \A a, b \in T!Ids(vv) : T!Before(vv, a, b) <=> T!Before(v, a, b)
  BY DEF Gone
<1>2. T!Mine(vv, from, x) = T!Mine(v, from, x) \ {y} BY <1>1 DEF T!Mine
<1>3. ASSUME y \notin T!Mine(v, from, x)
      PROVE  T!Mine(vv, from, x) = T!Mine(v, from, x) /\ Keeps(v, vv, T!Mine(v, from, x))
 <2>1. T!Mine(v, from, x) \subseteq T!Ids(vv) /\ T!Mine(v, from, x) \subseteq T!Ids(v)
   BY <1>1, <1>3, MineIs
 <2>2. T!Mine(vv, from, x) = T!Mine(v, from, x) BY <1>2, <1>3
 <2> QED BY <1>1, <2>1, <2>2 DEF Keeps
<1> QED BY <1>2, <1>3 DEF Less

\* A change of a row that keeps its kind keeps the turn's rows.
LEMMA MineTurned ==
  ASSUME NEW from, NEW v, NEW x, NEW vv, NEW r, Turned(v, vv, r), r.kind = T!Line(v, r.id).kind
  PROVE  /\ T!Mine(vv, from, x) = T!Mine(v, from, x)
         /\ T!Says(r) = T!Says(T!Line(v, r.id)) => Keeps(v, vv, T!Mine(v, from, x))
<1>1. /\ T!Ids(vv) = T!Ids(v) /\ T!Line(vv, r.id) = r
      /\ \A a \in T!Ids(v) \ {r.id} : T!Line(vv, a) = T!Line(v, a)
      /\ \A a, b \in T!Ids(v) : T!Before(vv, a, b) <=> T!Before(v, a, b)
  BY DEF Turned
<1>2. \A a \in T!Ids(v) : T!Line(vv, a).kind = T!Line(v, a).kind BY <1>1
<1>3. T!Mine(vv, from, x) = T!Mine(v, from, x) BY <1>1, <1>2 DEF T!Mine
<1> QED BY <1>1, <1>3, MineIs DEF Keeps

\* None refers to no row on either side.
LEMMA RefersNone ==
  ASSUME NEW v, T!Formed(v), NEW u, T!Formed(u), NEW F, F \subseteq T!Ids(v), NEW G,
         G \subseteq T!Ids(u), NEW m
  PROVE  T!Refers(m, v, F, u, G, 0, 0)
BY FormedIs DEF T!Refers, T!None

\* The fields of a view that the two have in common, and those rows are named in.

\* The parts of Follows, with what the views name in one.
LEMMA FollowsIs ==
  ASSUME NEW m, NEW v, NEW F, NEW u, NEW G
  PROVE  T!Follows(m, v, F, u, G) <=>
            /\ T!Alike(m, v, F, u, G) /\ Matched(m, v, F, u, G) /\ v.owns = u.owns
            /\ v.seg.kind = u.seg.kind /\ v.seg.text = u.seg.text
            /\ T!Refers(m, v, F, u, G, v.seg.row, u.seg.row)
BY DEF T!Follows, Matched

\* Neither view's own rows change.
LEMMA PairKept ==
  ASSUME NEW from, NEW x, NEW v, NEW u, Paired(v, from, x, u),
         NEW vv, NEW uu, NEW xx, Sound(vv, from), Sound(uu, 1), xx \in Nat, xx < vv.next,
         T!Mine(vv, from, xx) = T!Mine(v, from, x), T!Mine(uu, 1, 0) = T!Mine(u, 1, 0),
         Keeps(v, vv, T!Mine(v, from, x)), Keeps(u, uu, T!Mine(u, 1, 0)),
         \A a \in T!Ids(vv) : a \in T!Ids(v) \/ a = v.next, \A a \in T!Ids(uu) : a \in T!Ids(u) \/ a = u.next,
         vv.seg = v.seg, vv.activity = v.activity, vv.turnTop = v.turnTop, vv.tools = v.tools,
         uu.seg = u.seg, uu.activity = u.activity, uu.turnTop = u.turnTop, uu.tools = u.tools,
         vv.owns = uu.owns
  PROVE  Paired(vv, from, xx, uu)
<1> DEFINE F == T!Mine(v, from, x)
           G == T!Mine(u, 1, 0)
<1>1. PICK m \in [F -> G] : T!Follows(m, v, F, u, G) BY DEF Paired
<1> HIDE DEF F, G
<1>2. T!Alike(m, v, F, u, G) BY <1>1, FollowsIs
<1>3. Keeps(v, vv, F) /\ Keeps(u, uu, G) BY DEF F, G
<1>4. /\ T!Alike(m, vv, F, uu, G)
      /\ \A a, b : /\ a \in T!Ids(vv) => a \in T!Ids(v)
                   /\ b \in T!Ids(uu) => b \in T!Ids(u)
                   /\ T!Refers(m, v, F, u, G, a, b)
                   => T!Refers(m, vv, F, uu, G, a, b)
  BY <1>2, <1>3, BothKept
<1>5. /\ v.seg.row # v.next /\ v.activity # v.next /\ v.turnTop # v.next
      /\ \A t \in ToolIds : v.tools[t] # v.next
  BY FormedIs DEF Paired, Sound, T!Formed
<1>6. /\ u.seg.row # u.next /\ u.activity # u.next /\ u.turnTop # u.next
      /\ \A t \in ToolIds : u.tools[t] # u.next
  BY FormedIs DEF Paired, Sound, T!Formed
<1>7. Matched(m, vv, F, uu, G)
 <2>1. Matched(m, v, F, u, G) BY <1>1, FollowsIs
 <2> QED BY <1>4, <1>5, <1>6, <2>1 DEF Matched
<1>8. T!Refers(m, vv, F, uu, G, vv.seg.row, uu.seg.row) BY <1>1, <1>4, <1>5, <1>6, FollowsIs
<1>9. vv.seg.kind = uu.seg.kind /\ vv.seg.text = uu.seg.text BY <1>1, FollowsIs
<1>10. T!Follows(m, vv, F, uu, G) BY <1>4, <1>7, <1>8, <1>9, FollowsIs
<1>11. \E n \in [T!Mine(vv, from, xx) -> T!Mine(uu, 1, 0)] :
          T!Follows(n, vv, T!Mine(vv, from, xx), uu, T!Mine(uu, 1, 0))
  BY <1>10 DEF F, G
<1> QED BY <1>11 DEF Paired

LEMMA PairClear ==
  ASSUME NEW from, NEW x, NEW v, NEW u, Paired(v, from, x, u)
  PROVE  Paired(T!clearPending(v), from, x, T!clearPending(u))
<1> DEFINE vv == T!clearPending(v)
           uu == T!clearPending(u)
<1>0. Sound(v, from) /\ Sound(u, 1) BY DEF Paired
<1>1. /\ Sound(vv, from) /\ Rest(vv) = Rest(v) /\ vv.next = v.next
      /\ \E y : Gone(v, vv, y) /\ (y \in T!Ids(v) => T!Line(v, y).kind = "pending")
  BY <1>0, ClearIs
<1>2. /\ Sound(uu, 1) /\ Rest(uu) = Rest(u) /\ uu.next = u.next
      /\ \E y : Gone(u, uu, y) /\ (y \in T!Ids(u) => T!Line(u, y).kind = "pending")
  BY <1>0, ClearIs
<1> HIDE DEF vv, uu
<1>3. /\ T!Mine(vv, from, x) = T!Mine(v, from, x) /\ Keeps(v, vv, T!Mine(v, from, x))
      /\ \A a \in T!Ids(vv) : a \in T!Ids(v)
 <2>1. PICK y : Gone(v, vv, y) /\ (y \in T!Ids(v) => T!Line(v, y).kind = "pending") BY <1>1
 <2>2. y \notin T!Mine(v, from, x) BY <2>1 DEF T!Mine
 <2>3. T!Mine(vv, from, x) = T!Mine(v, from, x) /\ Keeps(v, vv, T!Mine(v, from, x))
   BY <2>1, <2>2, MineGone
 <2>5. \A a \in T!Ids(vv) : a \in T!Ids(v) BY <2>1 DEF Gone
 <2> QED BY <2>3, <2>5
<1>4. /\ T!Mine(uu, 1, 0) = T!Mine(u, 1, 0) /\ Keeps(u, uu, T!Mine(u, 1, 0))
      /\ \A a \in T!Ids(uu) : a \in T!Ids(u)
 <2>1. PICK y : Gone(u, uu, y) /\ (y \in T!Ids(u) => T!Line(u, y).kind = "pending") BY <1>2
 <2>2. y \notin T!Mine(u, 1, 0) BY <2>1 DEF T!Mine
 <2>3. T!Mine(uu, 1, 0) = T!Mine(u, 1, 0) /\ Keeps(u, uu, T!Mine(u, 1, 0))
   BY <2>1, <2>2, MineGone
 <2>5. \A a \in T!Ids(uu) : a \in T!Ids(u) BY <2>1 DEF Gone
 <2> QED BY <2>3, <2>5
<1>5. x \in Nat /\ x < vv.next /\ v.owns = u.owns BY <1>1 DEF Paired, T!Follows
<1>6. /\ vv.seg = v.seg /\ vv.activity = v.activity /\ vv.turnTop = v.turnTop /\ vv.tools = v.tools
      /\ uu.seg = u.seg /\ uu.activity = u.activity /\ uu.turnTop = u.turnTop /\ uu.tools = u.tools
      /\ vv.owns = uu.owns
  BY <1>1, <1>2, <1>5 DEF Rest
<1> QED BY <1>1, <1>2, <1>3, <1>4, <1>5, <1>6, PairKept DEF vv, uu

\* A pending row, or a task card, on both or on one of the two.
LEMMA PairAside ==
  ASSUME NEW from, NEW x, NEW v, NEW u, Paired(v, from, x, u),
         NEW vv, Sound(vv, from), vv.next >= v.next, NEW uu, Sound(uu, 1),
         NEW k \in {"pending", "todo"},
         NEW t, NEW z, vv = v \/ Placed(v, vv, T!Row(v.next, k, 0), t),
         uu = u \/ Placed(u, uu, T!Row(u.next, k, 0), z),
         vv.seg = v.seg, vv.activity = v.activity, vv.turnTop = v.turnTop, vv.tools = v.tools,
         uu.seg = u.seg, uu.activity = u.activity, uu.turnTop = u.turnTop, uu.tools = u.tools,
         vv.owns = v.owns, uu.owns = u.owns
  PROVE  Paired(vv, from, x, uu)
<1>1. /\ Sound(v, from) /\ Sound(u, 1) /\ x \in Nat /\ x < v.next /\ v.owns = u.owns
  BY DEF Paired, T!Follows
<1>2. v.next \in Nat \ {0} /\ u.next \in Nat \ {0} /\ vv.next \in Nat
  BY <1>1, FormedIs DEF Sound
<1>3. k \in T!Kinds BY DEF T!Kinds
<1>4. /\ T!Row(v.next, k, 0).id = v.next /\ T!Row(v.next, k, 0).kind = k
      /\ T!Row(u.next, k, 0).id = u.next /\ T!Row(u.next, k, 0).kind = k
  BY <1>2, <1>3, RowIs
<1>5. /\ T!Mine(vv, from, x) = T!Mine(v, from, x) /\ Keeps(v, vv, T!Mine(v, from, x))
      /\ \A a \in T!Ids(vv) : a \in T!Ids(v) \/ a = v.next
 <2>1. CASE vv = v BY <2>1, MineIs DEF Keeps
 <2>2. CASE Placed(v, vv, T!Row(v.next, k, 0), t)
  <3>1. x # v.next BY <1>1, <1>2
  <3>2. T!Mine(vv, from, x) = T!Mine(v, from, x) /\ Keeps(v, vv, T!Mine(v, from, x))
    BY <1>1, <1>4, <2>2, <3>1, MinePlaced
  <3> QED BY <1>4, <2>2, <3>2 DEF Placed
 <2> QED BY <2>1, <2>2
<1>6. /\ T!Mine(uu, 1, 0) = T!Mine(u, 1, 0) /\ Keeps(u, uu, T!Mine(u, 1, 0))
      /\ \A a \in T!Ids(uu) : a \in T!Ids(u) \/ a = u.next
 <2>1. CASE uu = u BY <2>1, MineIs DEF Keeps
 <2>2. CASE Placed(u, uu, T!Row(u.next, k, 0), z)
  <3>1. 0 # u.next BY <1>2
  <3>2. T!Mine(uu, 1, 0) = T!Mine(u, 1, 0) /\ Keeps(u, uu, T!Mine(u, 1, 0))
    BY <1>1, <1>4, <2>2, <3>1, MinePlaced
  <3> QED BY <1>4, <2>2, <3>2 DEF Placed
 <2> QED BY <2>1, <2>2
<1>7. x < vv.next BY <1>1, <1>2
<1> QED BY <1>1, <1>5, <1>6, <1>7, PairKept

LEMMA PairShow ==
  ASSUME NEW from, NEW x, NEW v, NEW u, Paired(v, from, x, u)
  PROVE  Paired(T!showPending(v), from, x, T!showPending(u))
<1> DEFINE vv == T!showPending(v)
           uu == T!showPending(u)
<1>1. /\ Sound(vv, from) /\ Rest(vv) = Rest(v) /\ v.next <= vv.next
      /\ vv = v \/ Placed(v, vv, T!Row(v.next, "pending", 0), 0)
  BY ShowIs DEF Paired, Steady
<1>2. /\ Sound(uu, 1) /\ Rest(uu) = Rest(u)
      /\ uu = u \/ Placed(u, uu, T!Row(u.next, "pending", 0), 0)
  BY ShowIs DEF Paired
<1> HIDE DEF vv, uu
<1>3. v.next \in Nat /\ vv.next \in Nat BY <1>1, FormedIs DEF Paired, Sound
<1>4. vv.next >= v.next BY <1>1, <1>3
<1> QED BY <1>1, <1>2, <1>4, PairAside DEF Rest, vv, uu

LEMMA PairTodo ==
  ASSUME NEW from, NEW x, NEW v, NEW u, Paired(v, from, x, u)
  PROVE  Paired(T!showTodos(v), from, x, T!showTodos(u))
<1> DEFINE vv == T!showTodos(v)
           uu == T!showTodos(u)
<1>0. Sound(v, from) /\ Sound(u, 1) BY DEF Paired
<1>1. /\ Sound(vv, from) /\ Steady(v, vv)
      /\ vv.seg = v.seg /\ vv.activity = v.activity /\ vv.turnTop = v.turnTop /\ vv.tools = v.tools /\ vv.owns = v.owns
      /\ vv = v \/ Placed(v, vv, T!Row(v.next, "todo", 0), v.turnTop)
  BY <1>0, TodoIs
<1>2. /\ Sound(uu, 1)
      /\ uu.seg = u.seg /\ uu.activity = u.activity /\ uu.turnTop = u.turnTop /\ uu.tools = u.tools /\ uu.owns = u.owns
      /\ uu = u \/ Placed(u, uu, T!Row(u.next, "todo", 0), u.turnTop)
  BY <1>0, TodoIs
<1> HIDE DEF vv, uu
<1>3. v.next \in Nat /\ vv.next \in Nat BY <1>0, <1>1, FormedIs DEF Sound
<1>4. vv.next >= v.next BY <1>1, <1>3 DEF Steady
<1> QED BY <1>1, <1>2, <1>4, PairAside DEF vv, uu

LEMMA PairFinalize ==
  ASSUME NEW from, NEW x, NEW v, NEW u, Paired(v, from, x, u)
  PROVE  Paired(T!finalizeSeg(v), from, x, T!finalizeSeg(u))
<1> DEFINE F == T!Mine(v, from, x)
           G == T!Mine(u, 1, 0)
           vv == T!finalizeSeg(v)
           uu == T!finalizeSeg(u)
           FF == T!Mine(vv, from, x)
           GG == T!Mine(uu, 1, 0)
           l == T!Line(v, v.seg.row)
           k == T!Line(u, u.seg.row)
           r == [l EXCEPT !.painted = l.text]
           s == [k EXCEPT !.painted = k.text]
<1>1. PICK m \in [F -> G] : T!Follows(m, v, F, u, G) BY DEF Paired
<1>2. Sound(v, from) /\ Sound(u, 1) /\ x \in Nat /\ x < v.next BY DEF Paired
<1>3. /\ Sound(vv, from) /\ vv.next = v.next /\ vv.seg = T!NoSeg
      /\ vv.tools = v.tools /\ vv.activity = v.activity /\ vv.turnTop = v.turnTop /\ vv.owns = v.owns
      /\ IF v.seg.kind # "out" THEN Gone(v, vv, 0)
         ELSE IF v.seg.text = 0 THEN Gone(v, vv, v.seg.row)
         ELSE Turned(v, vv, r)
  BY <1>2, FinalizeIs
<1>4. /\ Sound(uu, 1) /\ uu.next = u.next /\ uu.seg = T!NoSeg
      /\ uu.tools = u.tools /\ uu.activity = u.activity /\ uu.turnTop = u.turnTop /\ uu.owns = u.owns
      /\ IF u.seg.kind # "out" THEN Gone(u, uu, 0)
         ELSE IF u.seg.text = 0 THEN Gone(u, uu, u.seg.row)
         ELSE Turned(u, uu, s)
  BY <1>2, FinalizeIs
<1>5. /\ T!Alike(m, v, F, u, G) /\ Matched(m, v, F, u, G) /\ v.owns = u.owns
      /\ v.seg.kind = u.seg.kind /\ v.seg.text = u.seg.text
      /\ T!Refers(m, v, F, u, G, v.seg.row, u.seg.row)
  BY <1>1, FollowsIs
<1>6. F \subseteq T!Ids(v) /\ G \subseteq T!Ids(u) /\ FF \subseteq T!Ids(vv) /\ GG \subseteq T!Ids(uu)
  BY MineIs
<1>7. v.seg.kind = "out" =>
        /\ v.seg.row \in F /\ u.seg.row = m[v.seg.row]
        /\ l.kind = "bot" /\ k.kind = "bot" /\ l \in T!Lines /\ k \in T!Lines
        /\ l.id = v.seg.row /\ k.id = u.seg.row
 <2> SUFFICES ASSUME v.seg.kind = "out"
              PROVE  /\ v.seg.row \in F /\ u.seg.row = m[v.seg.row]
                     /\ l.kind = "bot" /\ k.kind = "bot" /\ l \in T!Lines /\ k \in T!Lines
                     /\ l.id = v.seg.row /\ k.id = u.seg.row
   OBVIOUS
 <2>1. v.seg.row \in T!Ids(v) /\ l.kind = "bot" BY <1>2 DEF Sound, T!Drawn
 <2>2. u.seg.row \in T!Ids(u) /\ k.kind = "bot" BY <1>2, <1>5 DEF Sound, T!Drawn
 <2>3. v.seg.row \in F /\ u.seg.row = m[v.seg.row] BY <1>5, <2>1 DEF T!Refers
 <2>4. T!Formed(v) /\ T!Formed(u) BY <1>2 DEF Sound
 <2> QED BY <2>1, <2>2, <2>3, <2>4, FormedIs
<1> HIDE DEF F, G, vv, uu, l, k
<1>8. \E n \in [FF -> GG] :
         /\ T!Alike(n, vv, FF, uu, GG)
         /\ \A a, b : T!Refers(m, v, F, u, G, a, b) => T!Refers(n, vv, FF, uu, GG, a, b)
 <2>1. CASE v.seg.kind # "out"
  <3>1. Gone(v, vv, 0) /\ Gone(u, uu, 0) BY <1>3, <1>4, <1>5, <2>1
  <3>2. 0 \notin F /\ 0 \notin G BY <1>2, <1>6, FormedIs DEF Sound
  <3>3. /\ FF = F /\ GG = G /\ Keeps(v, vv, F) /\ Keeps(u, uu, G)
   <4>1. 0 \notin T!Mine(v, from, x) /\ 0 \notin T!Mine(u, 1, 0) BY <3>2 DEF F, G
   <4>2. /\ T!Mine(vv, from, x) = T!Mine(v, from, x) /\ Keeps(v, vv, T!Mine(v, from, x))
         /\ T!Mine(uu, 1, 0) = T!Mine(u, 1, 0) /\ Keeps(u, uu, T!Mine(u, 1, 0))
     BY <3>1, <4>1, MineGone
   <4> QED BY <4>2 DEF F, G
  <3>4. T!Ids(vv) \subseteq T!Ids(v) /\ T!Ids(uu) \subseteq T!Ids(u) BY <3>1 DEF Gone
  <3> HIDE DEF FF, GG
  <3> QED BY <1>5, <3>3, <3>4, BothKept
 <2>2. CASE v.seg.kind = "out" /\ v.seg.text = 0
  <3>1. Gone(v, vv, v.seg.row) /\ Gone(u, uu, u.seg.row) BY <1>3, <1>4, <1>5, <2>2
  <3>2. FF = F \ {v.seg.row} /\ GG = G \ {u.seg.row}
   <4>1. /\ Less(T!Mine(v, from, x), v.seg.row, T!Mine(vv, from, x))
         /\ Less(T!Mine(u, 1, 0), u.seg.row, T!Mine(uu, 1, 0))
     BY <3>1, MineGone
   <4> QED BY <4>1 DEF F, G, Less
  <3> HIDE DEF FF, GG
  <3> QED BY <1>5, <1>6, <1>7, <2>2, <3>1, <3>2, BothGone
 <2>3. CASE v.seg.kind = "out" /\ v.seg.text # 0
  <3>1. Turned(v, vv, r) /\ Turned(u, uu, s) BY <1>3, <1>4, <1>5, <2>3
  <3>2. /\ r.id = v.seg.row /\ r.kind = l.kind /\ T!Says(r) = T!Says(l)
        /\ s.id = u.seg.row /\ s.kind = k.kind /\ T!Says(s) = T!Says(k)
    BY <1>7, <2>3 DEF T!Lines, T!Says
  <3> HIDE DEF r, s
  <3>3. FF = F /\ GG = G /\ Keeps(v, vv, F) /\ Keeps(u, uu, G)
    BY <3>1, <3>2, MineTurned DEF F, G, l, k
  <3>4. T!Ids(vv) \subseteq T!Ids(v) /\ T!Ids(uu) \subseteq T!Ids(u) BY <3>1 DEF Turned
  <3> HIDE DEF FF, GG
  <3> QED BY <1>5, <3>3, <3>4, BothKept
 <2> QED BY <2>1, <2>2, <2>3
<1> HIDE DEF FF, GG
<1>9. PICK n \in [FF -> GG] :
         /\ T!Alike(n, vv, FF, uu, GG)
         /\ \A a, b : T!Refers(m, v, F, u, G, a, b) => T!Refers(n, vv, FF, uu, GG, a, b)
  BY <1>8
<1>10. Matched(n, vv, FF, uu, GG) BY <1>3, <1>4, <1>5, <1>9 DEF Matched
<1>11. T!Refers(n, vv, FF, uu, GG, 0, 0) BY <1>3, <1>4, <1>6, RefersNone DEF Sound
<1>12. T!Follows(n, vv, FF, uu, GG)
 <2>1. vv.seg.kind = uu.seg.kind /\ vv.seg.text = uu.seg.text /\ vv.seg.row = 0 /\ uu.seg.row = 0
   BY <1>3, <1>4 DEF T!NoSeg, T!None
 <2> QED BY <1>3, <1>4, <1>5, <1>9, <1>10, <1>11, <2>1, FollowsIs
<1> QED BY <1>2, <1>3, <1>4, <1>12 DEF Paired, vv, uu, FF, GG

\* The correspondence of the rows, extended by a new pair, is one of what they name.
LEMMA Linking ==
  ASSUME NEW from, NEW x, NEW v, NEW u, NEW a, NEW b, NEW vv, NEW uu,
         Linked(v, u, a, b, vv, from, x, uu),
         Sound(vv, from), Sound(uu, 1), x \in Nat, x < vv.next,
         vv.seg.kind = uu.seg.kind, vv.seg.text = uu.seg.text, vv.owns = uu.owns,
         OneOf(v, u, a, b, vv.seg.row, uu.seg.row), OneOf(v, u, a, b, vv.activity, uu.activity),
         OneOf(v, u, a, b, vv.turnTop, uu.turnTop),
         \A t \in ToolIds : OneOf(v, u, a, b, vv.tools[t], uu.tools[t])
  PROVE  Paired(vv, from, x, uu)
<1> DEFINE F == T!Mine(vv, from, x)
           G == T!Mine(uu, 1, 0)
<1>1. PICK n \in [F -> G] :
         /\ T!Alike(n, vv, F, uu, G)
         /\ \A c, d : OneOf(v, u, a, b, c, d) => T!Refers(n, vv, F, uu, G, c, d)
  BY DEF Linked
<1> HIDE DEF F, G
<1>2. T!Follows(n, vv, F, uu, G) BY <1>1, FollowsIs DEF Matched
<1> QED BY <1>2 DEF Paired, F, G

\* What is named on one side names the same row on the other.
LEMMA Twins ==
  ASSUME NEW from, NEW x, NEW v, NEW u, Paired(v, from, x, u), NEW a, NEW b,
         OneOf(v, u, 0, 0, a, b)
  PROVE  /\ a \in T!Ids(v) <=> b \in T!Ids(u)
         /\ a = 0 <=> b = 0
         /\ a \in T!Ids(v) => /\ a \in T!Mine(v, from, x) /\ b \in T!Mine(u, 1, 0)
                              /\ T!Says(T!Line(v, a)) = T!Says(T!Line(u, b))
                              /\ T!Line(v, a).kind = T!Line(u, b).kind
<1> DEFINE F == T!Mine(v, from, x)
           G == T!Mine(u, 1, 0)
<1>1. PICK m \in [F -> G] : T!Follows(m, v, F, u, G) BY DEF Paired
<1>2. F \subseteq T!Ids(v) /\ G \subseteq T!Ids(u) BY MineIs
<1>3. T!Formed(v) /\ T!Formed(u) BY DEF Paired, Sound
<1> HIDE DEF F, G
<1>4. T!Refers(m, v, F, u, G, 0, 0) BY <1>2, <1>3, RefersNone
<1>5. T!Refers(m, v, F, u, G, a, b) BY <1>1, <1>4, FollowsIs DEF OneOf, Matched
<1>6. \A i \in F : T!Says(T!Line(v, i)) = T!Says(T!Line(u, m[i])) BY <1>1, FollowsIs DEF T!Alike
<1>7. ASSUME a \in T!Ids(v)
      PROVE  a \in F /\ b \in G /\ T!Says(T!Line(v, a)) = T!Says(T!Line(u, b))
  BY <1>5, <1>6, <1>7 DEF T!Refers
<1>8. ASSUME a \in T!Ids(v) PROVE T!Line(v, a).kind = T!Line(u, b).kind BY <1>7, <1>8 DEF T!Says
<1> QED BY <1>2, <1>5, <1>7, <1>8 DEF F, G, T!Refers, T!None

\* Both views draw a row that says the same, at the end or above the first answer.
LEMMA Grown ==
  ASSUME NEW from, NEW x, NEW v, NEW u, Paired(v, from, x, u),
         NEW vv, Rowed(vv), NEW uu, Rowed(uu), NEW r, NEW s, NEW t, NEW z, Placed(v, vv, r, t),
         Placed(u, uu, s, z),
         r.id = v.next, s.id = u.next, T!Says(r) = T!Says(s), OneOf(v, u, 0, 0, t, z),
         r.kind \notin {"pending", "todo", "aside"}, s.kind \notin {"pending", "todo", "aside"}
  PROVE  Linked(v, u, v.next, u.next, vv, from, x, uu)
<1> DEFINE F == T!Mine(v, from, x)
           G == T!Mine(u, 1, 0)
           FF == T!Mine(vv, from, x)
           GG == T!Mine(uu, 1, 0)
<1>1. PICK m \in [F -> G] : T!Follows(m, v, F, u, G) BY DEF Paired
<1>2. F \in SUBSET T!Ids(v) /\ G \in SUBSET T!Ids(u) BY MineIs
<1>3. /\ T!Formed(v) /\ T!Formed(u) /\ x # v.next /\ 0 # u.next /\ v.next # 0
      /\ Sound(v, from) /\ Sound(u, 1) /\ Rowed(v) /\ Rowed(u)
  BY FormedIs DEF Paired, Sound
<1>4. FF = F \cup {r.id} /\ GG = G \cup {s.id}
 <2>1. T!Mine(vv, from, x) = T!Mine(v, from, x) \cup {v.next} BY <1>3, MinePlaced
 <2>2. T!Mine(uu, 1, 0) = T!Mine(u, 1, 0) \cup {u.next} BY <1>3, MinePlaced
 <2> QED BY <2>1, <2>2
<1> HIDE DEF F, G
<1>5. T!Refers(m, v, F, u, G, 0, 0) BY <1>2, <1>3, RefersNone
<1>6. \A c, d : OneOf(v, u, 0, 0, c, d) => T!Refers(m, v, F, u, G, c, d)
  BY <1>1, <1>5, FollowsIs DEF OneOf, Matched
<1>7. T!Alike(m, v, F, u, G) BY <1>1, FollowsIs
<1>8. T!Refers(m, v, F, u, G, t, z) BY <1>6
<1>9. PICK n \in [F \cup {r.id} -> G \cup {s.id}] :
             /\ T!Alike(n, vv, F \cup {r.id}, uu, G \cup {s.id})
             /\ \A a, b : a # r.id /\ b # s.id /\ T!Refers(m, v, F, u, G, a, b)
                             => T!Refers(n, vv, F \cup {r.id}, uu, G \cup {s.id}, a, b)
             /\ T!Refers(n, vv, F \cup {r.id}, uu, G \cup {s.id}, r.id, s.id)
  BY <1>2, <1>3, <1>7, <1>8, BothPlaced
<1> HIDE DEF FF, GG
<1>10. /\ n \in [FF -> GG] /\ T!Alike(n, vv, FF, uu, GG) /\ T!Refers(n, vv, FF, uu, GG, v.next, u.next)
       /\ \A a, b : a # v.next /\ b # u.next /\ T!Refers(m, v, F, u, G, a, b)
                       => T!Refers(n, vv, FF, uu, GG, a, b)
  BY <1>4, <1>9
<1>11. ASSUME NEW c, NEW d, OneOf(v, u, v.next, u.next, c, d)
       PROVE  T!Refers(n, vv, FF, uu, GG, c, d)
 <2>1. CASE c = v.next /\ d = u.next BY <1>10, <2>1
 <2>2. CASE ~(c = v.next /\ d = u.next)
  <3>1. OneOf(v, u, 0, 0, c, d) BY <1>11, <2>2 DEF OneOf
  <3>2. /\ v.seg.row # v.next /\ v.activity # v.next /\ v.turnTop # v.next /\ \A i \in ToolIds : v.tools[i] # v.next
        /\ u.seg.row # u.next /\ u.activity # u.next /\ u.turnTop # u.next /\ \A i \in ToolIds : u.tools[i] # u.next
    BY <1>3, FormedIs DEF T!Formed
  <3>3. c # v.next /\ d # u.next BY <1>3, <3>1, <3>2 DEF OneOf
  <3> QED BY <1>6, <1>10, <3>1, <3>3
 <2> QED BY <2>1, <2>2
<1>12. \E k \in [FF -> GG] : /\ T!Alike(k, vv, FF, uu, GG)
                             /\ \A c, d : OneOf(v, u, v.next, u.next, c, d) => T!Refers(k, vv, FF, uu, GG, c, d)
  BY <1>10, <1>11
<1> QED BY <1>12 DEF Linked, FF, GG

\* Both views keep the rows of the turn.
LEMMA Held ==
  ASSUME NEW from, NEW x, NEW v, NEW u, Paired(v, from, x, u), NEW vv, NEW uu,
         Gone(v, vv, 0), Gone(u, uu, 0)
  PROVE  Linked(v, u, 0, 0, vv, from, x, uu)
<1> DEFINE F == T!Mine(v, from, x)
           G == T!Mine(u, 1, 0)
           FF == T!Mine(vv, from, x)
           GG == T!Mine(uu, 1, 0)
<1>1. PICK m \in [F -> G] : T!Follows(m, v, F, u, G) BY DEF Paired
<1>2. F \subseteq T!Ids(v) /\ G \subseteq T!Ids(u) /\ T!Formed(v) /\ T!Formed(u)
  BY MineIs DEF Paired, Sound
<1>3. 0 \notin T!Mine(v, from, x) /\ 0 \notin T!Mine(u, 1, 0) BY <1>2, FormedIs
<1>4. FF = F /\ GG = G /\ Keeps(v, vv, F) /\ Keeps(u, uu, G)
 <2>1. T!Mine(vv, from, x) = T!Mine(v, from, x) /\ Keeps(v, vv, T!Mine(v, from, x))
   BY <1>3, MineGone
 <2>2. T!Mine(uu, 1, 0) = T!Mine(u, 1, 0) /\ Keeps(u, uu, T!Mine(u, 1, 0)) BY <1>3, MineGone
 <2> QED BY <2>1, <2>2
<1>5. T!Ids(vv) \subseteq T!Ids(v) /\ T!Ids(uu) \subseteq T!Ids(u) BY DEF Gone
<1> HIDE DEF F, G, FF, GG
<1>6. T!Refers(m, v, F, u, G, 0, 0) BY <1>2, RefersNone
<1>7. \A c, d : OneOf(v, u, 0, 0, c, d) => T!Refers(m, v, F, u, G, c, d)
  BY <1>1, <1>6, FollowsIs DEF OneOf, Matched
<1>8. T!Alike(m, v, F, u, G) BY <1>1, FollowsIs
<1>9. /\ T!Alike(m, vv, F, uu, G)
      /\ \A a, b : T!Refers(m, v, F, u, G, a, b) => T!Refers(m, vv, F, uu, G, a, b)
  BY <1>4, <1>5, <1>8, BothKept
<1>10. \E k \in [FF -> GG] : /\ T!Alike(k, vv, FF, uu, GG)
                             /\ \A c, d : OneOf(v, u, 0, 0, c, d) => T!Refers(k, vv, FF, uu, GG, c, d)
  BY <1>4, <1>7, <1>9
<1> QED BY <1>10 DEF Linked, FF, GG

\* Both views write the same to the row they name alike.
LEMMA Marked ==
  ASSUME NEW from, NEW x, NEW v, NEW u, Paired(v, from, x, u), NEW vv, NEW uu, NEW r, NEW s,
         Turned(v, vv, r), Turned(u, uu, s), OneOf(v, u, 0, 0, r.id, s.id), r.id \in T!Ids(v),
         r.kind = T!Line(v, r.id).kind, s.kind = T!Line(u, s.id).kind, T!Says(r) = T!Says(s)
  PROVE  Linked(v, u, 0, 0, vv, from, x, uu)
<1> DEFINE F == T!Mine(v, from, x)
           G == T!Mine(u, 1, 0)
           FF == T!Mine(vv, from, x)
           GG == T!Mine(uu, 1, 0)
<1>1. PICK m \in [F -> G] : T!Follows(m, v, F, u, G) BY DEF Paired
<1>2. F \in SUBSET T!Ids(v) /\ G \in SUBSET T!Ids(u) /\ T!Formed(v) /\ T!Formed(u)
  BY MineIs DEF Paired, Sound
<1>3. FF = F /\ GG = G BY MineTurned
<1> HIDE DEF F, G, FF, GG
<1>4. T!Refers(m, v, F, u, G, 0, 0) BY <1>2, RefersNone
<1>5. \A c, d : OneOf(v, u, 0, 0, c, d) => T!Refers(m, v, F, u, G, c, d)
  BY <1>1, <1>4, FollowsIs DEF OneOf, Matched
<1>6. T!Alike(m, v, F, u, G) BY <1>1, FollowsIs
<1>7. r.id \in F /\ s.id = m[r.id] BY <1>5 DEF T!Refers
<1>8. /\ T!Alike(m, vv, F, uu, G)
      /\ \A a, b : T!Refers(m, v, F, u, G, a, b) => T!Refers(m, vv, F, uu, G, a, b)
  BY <1>2, <1>6, <1>7, BothTurned
<1>9. \E k \in [FF -> GG] : /\ T!Alike(k, vv, FF, uu, GG)
                            /\ \A c, d : OneOf(v, u, 0, 0, c, d) => T!Refers(k, vv, FF, uu, GG, c, d)
  BY <1>3, <1>5, <1>8
<1> QED BY <1>9 DEF Linked, FF, GG

\* Two new rows of a kind say the same.
LEMMA NewRows ==
  ASSUME NEW k \in T!Kinds, NEW i \in Nat \ {0}, NEW j \in Nat \ {0}
  PROVE  /\ T!Row(i, k, 0).id = i /\ T!Row(i, k, 0).kind = k
         /\ T!Says(T!Row(i, k, 0)) = T!Says(T!Row(j, k, 0))
BY RowIs DEF T!Row, T!Says

\* The kinds of rows.
LEMMA KindsAre ==
  /\ "user" \in T!Kinds /\ "bot" \in T!Kinds /\ "activity" \in T!Kinds
  /\ "todo" \in T!Kinds /\ "note" \in T!Kinds /\ "pending" \in T!Kinds
BY DEF T!Kinds

LEMMA PairGroup ==
  ASSUME NEW from, NEW x, NEW v, NEW u, Paired(v, from, x, u),
         NEW vv, vv = T!activityGroup(v), NEW uu, uu = T!activityGroup(u)
  PROVE  Paired(vv, from, x, uu)
<1>0. /\ Sound(v, from) /\ Sound(u, 1) /\ x \in Nat /\ x < v.next
      /\ v.seg.kind = u.seg.kind /\ v.seg.text = u.seg.text /\ v.owns = u.owns
  BY DEF Paired, T!Follows
<1>1. /\ Sound(vv, from) /\ vv.seg = v.seg /\ vv.tools = v.tools /\ vv.turnTop = v.turnTop /\ vv.owns = v.owns
      /\ v.activity \in T!Ids(v) => vv = v
      /\ v.activity \notin T!Ids(v) =>
            /\ Placed(v, vv, T!Row(v.next, "activity", 0), v.turnTop)
            /\ vv.next = v.next + 1 /\ vv.activity = v.next
  BY <1>0, GroupIs
<1>2. /\ Sound(uu, 1) /\ uu.seg = u.seg /\ uu.tools = u.tools /\ uu.turnTop = u.turnTop /\ uu.owns = u.owns
      /\ u.activity \in T!Ids(u) => uu = u
      /\ u.activity \notin T!Ids(u) =>
            /\ Placed(u, uu, T!Row(u.next, "activity", 0), u.turnTop)
            /\ uu.next = u.next + 1 /\ uu.activity = u.next
  BY <1>0, GroupIs
<1>3. v.activity \in T!Ids(v) <=> u.activity \in T!Ids(u)
 <2>1. OneOf(v, u, 0, 0, v.activity, u.activity) BY DEF OneOf
 <2> QED BY <2>1, Twins
<1>4. CASE v.activity \in T!Ids(v)
 <2>1. vv = v /\ uu = u BY <1>1, <1>2, <1>3, <1>4
 <2> QED BY <2>1
<1>5. CASE v.activity \notin T!Ids(v)
 <2> DEFINE r == T!Row(v.next, "activity", 0)
            s == T!Row(u.next, "activity", 0)
 <2>1. v.next \in Nat \ {0} /\ u.next \in Nat \ {0} /\ Rowed(vv) /\ Rowed(uu)
   BY <1>0, <1>1, <1>2, FormedIs DEF Sound
 <2>2. /\ r.id = v.next /\ r.kind = "activity" /\ s.id = u.next /\ s.kind = "activity" /\ T!Says(r) = T!Says(s)
   BY <2>1, NewRows, KindsAre
 <2>3. OneOf(v, u, 0, 0, v.turnTop, u.turnTop) BY DEF OneOf
 <2>4. Placed(v, vv, r, v.turnTop) /\ Placed(u, uu, s, u.turnTop) BY <1>1, <1>2, <1>3, <1>5
 <2> HIDE DEF r, s
 <2>5. Linked(v, u, v.next, u.next, vv, from, x, uu) BY <2>1, <2>2, <2>3, <2>4, Grown
 <2>6. /\ OneOf(v, u, v.next, u.next, vv.seg.row, uu.seg.row)
       /\ OneOf(v, u, v.next, u.next, vv.activity, uu.activity)
       /\ OneOf(v, u, v.next, u.next, vv.turnTop, uu.turnTop)
       /\ \A t \in ToolIds : OneOf(v, u, v.next, u.next, vv.tools[t], uu.tools[t])
   BY <1>1, <1>2, <1>3, <1>5 DEF OneOf
 <2>7. x < vv.next BY <1>0, <1>1, <1>5, <2>1
 <2>8. vv.seg.kind = uu.seg.kind /\ vv.seg.text = uu.seg.text /\ vv.owns = uu.owns
   BY <1>0, <1>1, <1>2
 <2> QED BY <1>0, <1>1, <1>2, <2>5, <2>6, <2>7, <2>8, Linking
<1> QED BY <1>4, <1>5

LEMMA PairThink ==
  ASSUME NEW from, NEW x, NEW v, NEW u, Paired(v, from, x, u), v.seg = T!NoSeg, u.seg = T!NoSeg,
         v.activity \in T!Ids(v), u.activity \in T!Ids(u),
         NEW vv, Sound(vv, from), Gone(v, vv, 0), vv.next = v.next, vv.tools = v.tools,
         vv.turnTop = v.turnTop, vv.activity = v.activity, vv.owns = v.owns,
         vv.seg = [kind |-> "think", row |-> v.activity, text |-> 0],
         NEW uu, Sound(uu, 1), Gone(u, uu, 0), uu.next = u.next, uu.tools = u.tools,
         uu.turnTop = u.turnTop, uu.activity = u.activity, uu.owns = u.owns,
         uu.seg = [kind |-> "think", row |-> u.activity, text |-> 0]
  PROVE  Paired(vv, from, x, uu)
<1>0. Sound(v, from) /\ Sound(u, 1) /\ x \in Nat /\ x < v.next /\ v.owns = u.owns
  BY DEF Paired, T!Follows
<1>3. Linked(v, u, 0, 0, vv, from, x, uu) BY Held
<1>4. /\ vv.seg.kind = uu.seg.kind /\ vv.seg.text = uu.seg.text /\ vv.owns = uu.owns
      /\ vv.seg.row = v.activity /\ uu.seg.row = u.activity
  BY <1>0
<1>5. /\ OneOf(v, u, 0, 0, vv.seg.row, uu.seg.row)
      /\ OneOf(v, u, 0, 0, vv.activity, uu.activity)
      /\ OneOf(v, u, 0, 0, vv.turnTop, uu.turnTop)
      /\ \A t \in ToolIds : OneOf(v, u, 0, 0, vv.tools[t], uu.tools[t])
  BY <1>4 DEF OneOf
<1>6. x < vv.next BY <1>0
<1> QED BY <1>0, <1>3, <1>4, <1>5, <1>6, Linking

LEMMA PairOut ==
  ASSUME NEW from, NEW x, NEW v, NEW u, Paired(v, from, x, u), v.seg = T!NoSeg, u.seg = T!NoSeg,
         NEW top, v.turnTop = 0 => top = v.next, v.turnTop # 0 => top = v.turnTop,
         NEW tip, u.turnTop = 0 => tip = u.next, u.turnTop # 0 => tip = u.turnTop,
         NEW vv, Sound(vv, from), Placed(v, vv, T!Row(v.next, "bot", 0), 0),
         vv.next = v.next + 1,
         vv.tools = v.tools, vv.turnTop = top, vv.activity = v.activity, vv.owns = v.owns,
         vv.seg = [kind |-> "out", row |-> v.next, text |-> 0],
         NEW uu, Sound(uu, 1), Placed(u, uu, T!Row(u.next, "bot", 0), 0), uu.next = u.next + 1,
         uu.tools = u.tools, uu.turnTop = tip, uu.activity = u.activity, uu.owns = u.owns,
         uu.seg = [kind |-> "out", row |-> u.next, text |-> 0]
  PROVE  Paired(vv, from, x, uu)
<1> DEFINE r == T!Row(v.next, "bot", 0)
           s == T!Row(u.next, "bot", 0)
<1>0. Sound(v, from) /\ Sound(u, 1) /\ x \in Nat /\ x < v.next /\ v.owns = u.owns
  BY DEF Paired, T!Follows
<1>1. Placed(v, vv, r, 0) /\ Placed(u, uu, s, 0) OBVIOUS
<1>3. v.next \in Nat \ {0} /\ u.next \in Nat \ {0} /\ Rowed(vv) /\ Rowed(uu)
  BY <1>0, FormedIs DEF Sound
<1>4. /\ r.id = v.next /\ r.kind = "bot" /\ s.id = u.next /\ s.kind = "bot" /\ T!Says(r) = T!Says(s)
  BY <1>3, NewRows, KindsAre
<1>5. OneOf(v, u, 0, 0, 0, 0) /\ OneOf(v, u, 0, 0, v.turnTop, u.turnTop) BY DEF OneOf
<1> HIDE DEF r, s
<1>6. Linked(v, u, v.next, u.next, vv, from, x, uu) BY <1>1, <1>3, <1>4, <1>5, Grown
<1>7. /\ vv.seg.kind = uu.seg.kind /\ vv.seg.text = uu.seg.text /\ vv.owns = uu.owns
      /\ vv.seg.row = v.next /\ uu.seg.row = u.next
  BY <1>0
<1>8. v.turnTop = 0 <=> u.turnTop = 0 BY <1>5, Twins
<1>9. OneOf(v, u, v.next, u.next, vv.turnTop, uu.turnTop) BY <1>8 DEF OneOf
<1>10. /\ OneOf(v, u, v.next, u.next, vv.seg.row, uu.seg.row)
       /\ OneOf(v, u, v.next, u.next, vv.activity, uu.activity)
       /\ \A t \in ToolIds : OneOf(v, u, v.next, u.next, vv.tools[t], uu.tools[t])
  BY <1>7 DEF OneOf
<1>11. x < vv.next BY <1>0, <1>3
<1> QED BY <1>0, <1>6, <1>7, <1>9, <1>10, <1>11, Linking

\* Both write the same text to the open segment.
LEMMA PairText ==
  ASSUME NEW from, NEW x, NEW v, NEW u, Paired(v, from, x, u),
         NEW k, NEW n, NEW r, NEW s,
         NEW vv, Sound(vv, from), Turned(v, vv, r), vv.next = v.next, vv.tools = v.tools,
         vv.activity = v.activity,
         vv.turnTop = v.turnTop, vv.owns = v.owns, vv.seg.kind = k, vv.seg.row = v.seg.row, vv.seg.text = n,
         NEW uu, Sound(uu, 1), Turned(u, uu, s), uu.next = u.next, uu.tools = u.tools,
         uu.activity = u.activity,
         uu.turnTop = u.turnTop, uu.owns = u.owns, uu.seg.kind = k, uu.seg.row = u.seg.row, uu.seg.text = n,
         r.id = v.seg.row, s.id = u.seg.row, r.id \in T!Ids(v),
         r.kind = T!Line(v, v.seg.row).kind, s.kind = T!Line(u, u.seg.row).kind, T!Says(r) = T!Says(s)
  PROVE  Paired(vv, from, x, uu)
<1>0. Sound(v, from) /\ Sound(u, 1) /\ x \in Nat /\ x < v.next /\ v.owns = u.owns
  BY DEF Paired, T!Follows
<1>1. OneOf(v, u, 0, 0, r.id, s.id) BY DEF OneOf
<1>2. Linked(v, u, 0, 0, vv, from, x, uu) BY <1>1, Marked
<1>3. /\ OneOf(v, u, 0, 0, vv.seg.row, uu.seg.row)
      /\ OneOf(v, u, 0, 0, vv.activity, uu.activity)
      /\ OneOf(v, u, 0, 0, vv.turnTop, uu.turnTop)
      /\ \A t \in ToolIds : OneOf(v, u, 0, 0, vv.tools[t], uu.tools[t])
  BY DEF OneOf
<1> QED BY <1>0, <1>2, <1>3, Linking

LEMMA PairToolSet ==
  ASSUME NEW from, NEW x, NEW v, NEW u, Paired(v, from, x, u), v.activity \in T!Ids(v),
         u.activity \in T!Ids(u),
         NEW k \in ToolIds,
         NEW vv, Sound(vv, from), Gone(v, vv, 0), vv.next = v.next, vv.seg = v.seg,
         vv.turnTop = v.turnTop, vv.activity = v.activity, vv.owns = v.owns,
         vv.tools[k] = v.activity, \A t \in ToolIds \ {k} : vv.tools[t] = v.tools[t],
         NEW uu, Sound(uu, 1), Gone(u, uu, 0), uu.next = u.next, uu.seg = u.seg,
         uu.turnTop = u.turnTop, uu.activity = u.activity, uu.owns = u.owns,
         uu.tools[k] = u.activity, \A t \in ToolIds \ {k} : uu.tools[t] = u.tools[t]
  PROVE  Paired(vv, from, x, uu)
<1>0. /\ Sound(v, from) /\ Sound(u, 1) /\ x \in Nat /\ x < v.next
      /\ v.seg.kind = u.seg.kind /\ v.seg.text = u.seg.text /\ v.owns = u.owns
  BY DEF Paired, T!Follows
<1>3. Linked(v, u, 0, 0, vv, from, x, uu) BY Held
<1>4. /\ OneOf(v, u, 0, 0, vv.seg.row, uu.seg.row)
      /\ OneOf(v, u, 0, 0, vv.activity, uu.activity)
      /\ OneOf(v, u, 0, 0, vv.turnTop, uu.turnTop)
      /\ \A t \in ToolIds : OneOf(v, u, 0, 0, vv.tools[t], uu.tools[t])
  BY DEF OneOf
<1>5. vv.seg.kind = uu.seg.kind /\ vv.seg.text = uu.seg.text /\ vv.owns = uu.owns /\ x < vv.next
  BY <1>0
<1> QED BY <1>0, <1>3, <1>4, <1>5, Linking

LEMMA PairToolMark ==
  ASSUME NEW from, NEW x, NEW v, NEW u, Paired(v, from, x, u), NEW k \in ToolIds,
         NEW st \in {"running", "completed"},
         NEW vv, Sound(vv, from), Rest(vv) = Rest(v), vv.next = v.next,
         v.tools[k] \in T!Ids(v) => Turned(v, vv, Told(T!Line(v, v.tools[k]), k, st)),
         v.tools[k] \notin T!Ids(v) => vv = v,
         NEW uu, Sound(uu, 1), Rest(uu) = Rest(u), uu.next = u.next,
         u.tools[k] \in T!Ids(u) => Turned(u, uu, Told(T!Line(u, u.tools[k]), k, st)),
         u.tools[k] \notin T!Ids(u) => uu = u
  PROVE  Paired(vv, from, x, uu)
<1> DEFINE l == T!Line(v, v.tools[k])
           j == T!Line(u, u.tools[k])
           r == Told(l, k, st)
           s == Told(j, k, st)
<1>0. /\ Sound(v, from) /\ Sound(u, 1) /\ x \in Nat /\ x < v.next
      /\ v.seg.kind = u.seg.kind /\ v.seg.text = u.seg.text /\ v.owns = u.owns
  BY DEF Paired, T!Follows
<1>1. /\ v.tools[k] \in T!Ids(v) => Turned(v, vv, r)
      /\ u.tools[k] \in T!Ids(u) => Turned(u, uu, s)
  OBVIOUS
<1>3. OneOf(v, u, 0, 0, v.tools[k], u.tools[k]) BY DEF OneOf
<1>4. v.tools[k] \in T!Ids(v) <=> u.tools[k] \in T!Ids(u) BY <1>3, Twins
<1>5. CASE v.tools[k] \notin T!Ids(v)
 <2>1. vv = v /\ uu = u BY <1>4, <1>5
 <2> QED BY <2>1
<1>6. CASE v.tools[k] \in T!Ids(v)
 <2>1. T!Says(l) = T!Says(j) BY <1>3, <1>6, Twins
 <2>2. l \in T!Lines /\ j \in T!Lines /\ l.id = v.tools[k] /\ j.id = u.tools[k]
   BY <1>0, <1>4, <1>6, FormedIs DEF Sound
 <2>3. r.id = v.tools[k] /\ s.id = u.tools[k] /\ r.kind = l.kind /\ s.kind = j.kind
   BY <2>2 DEF T!Lines, Told
 <2>4. T!Says(r) = T!Says(s)
  <3>1. l.kind = j.kind /\ l.prompt = j.prompt /\ l.text = j.text /\ l.tools = j.tools
    BY <2>1 DEF T!Says
  <3>2. /\ r.kind = l.kind /\ r.prompt = l.prompt /\ r.text = l.text /\ r.tools = [l.tools EXCEPT ![k] = st]
        /\ s.kind = j.kind /\ s.prompt = j.prompt /\ s.text = j.text /\ s.tools = [j.tools EXCEPT ![k] = st]
    BY <2>2 DEF T!Lines, Told
  <3> HIDE DEF l, j, r, s
  <3> QED BY <3>1, <3>2 DEF T!Says
 <2>5. Turned(v, vv, r) /\ Turned(u, uu, s) BY <1>1, <1>4, <1>6
 <2>6. /\ r.kind = T!Line(v, r.id).kind /\ s.kind = T!Line(u, s.id).kind /\ r.id \in T!Ids(v)
       /\ OneOf(v, u, 0, 0, r.id, s.id)
   BY <1>3, <1>6, <2>3
 <2> HIDE DEF l, j, r, s
 <2>7. Linked(v, u, 0, 0, vv, from, x, uu) BY <2>4, <2>5, <2>6, Marked
 <2>8. /\ vv.seg = v.seg /\ vv.activity = v.activity /\ vv.turnTop = v.turnTop /\ vv.tools = v.tools
       /\ uu.seg = u.seg /\ uu.activity = u.activity /\ uu.turnTop = u.turnTop /\ uu.tools = u.tools
       /\ vv.owns = v.owns /\ uu.owns = u.owns
   BY DEF Rest
 <2>9. /\ OneOf(v, u, 0, 0, vv.seg.row, uu.seg.row)
       /\ OneOf(v, u, 0, 0, vv.activity, uu.activity)
       /\ OneOf(v, u, 0, 0, vv.turnTop, uu.turnTop)
       /\ \A t \in ToolIds : OneOf(v, u, 0, 0, vv.tools[t], uu.tools[t])
   BY <2>8 DEF OneOf
 <2>10. vv.seg.kind = uu.seg.kind /\ vv.seg.text = uu.seg.text /\ vv.owns = uu.owns /\ x < vv.next
   BY <1>0, <2>8
 <2> QED BY <1>0, <2>7, <2>9, <2>10, Linking
<1> QED BY <1>5, <1>6

------------------------
\* One event: what it does to a view, and to two views that draw alike

\* Moved is transitive.
LEMMA MovedTwice ==
  ASSUME NEW from, NEW v, NEW u, NEW q, Moved(v, from, u), Moved(u, from, q)
  PROVE  Moved(v, from, q)
<1>1. v.next \in Nat /\ u.next \in Nat /\ q.next \in Nat BY FormedIs DEF Moved, Sound
<1> QED BY <1>1, SteadyTwice DEF Moved

\* Not to move is to move.
LEMMA MovedNot ==
  ASSUME NEW from, NEW v, Sound(v, from)
  PROVE  Moved(v, from, v)
<1>1. v.next \in Nat BY FormedIs DEF Sound
<1> QED BY <1>1 DEF Moved, Steady

\* newThinkSeg in its two steps: the activity row, and the segment on it.
LEMMA ThinkSegIs ==
  ASSUME NEW from, NEW v, Sound(v, from), v.seg = T!NoSeg, NEW u, u = T!newThinkSeg(v),
         NEW a, a = T!activityGroup(v)
  PROVE  /\ Moved(v, from, u) /\ u.seg.kind = "think"
         /\ Sound(a, from) /\ a.seg = T!NoSeg /\ a.activity \in T!Ids(a)
         /\ Gone(a, u, 0) /\ u.next = a.next /\ u.tools = a.tools /\ u.turnTop = a.turnTop
         /\ u.activity = a.activity /\ u.owns = a.owns
         /\ u.seg = [kind |-> "think", row |-> a.activity, text |-> 0]
<1>1. Sound(a, from) /\ Steady(v, a) /\ a.seg = T!NoSeg /\ a.activity \in T!Ids(a) BY GroupIs
<1>2. u = AtThought(a) BY DEF T!newThinkSeg, AtThought
<1>3. /\ Sound(u, from) /\ Steady(a, u) /\ Gone(a, u, 0) /\ u.next = a.next /\ u.tools = a.tools
      /\ u.turnTop = a.turnTop /\ u.activity = a.activity /\ u.owns = a.owns
      /\ u.seg = [kind |-> "think", row |-> a.activity, text |-> 0]
  BY <1>1, <1>2, ThinkIs
<1>4. Moved(v, from, a) /\ Moved(a, from, u) BY <1>1, <1>3 DEF Moved
<1>5. Moved(v, from, u) BY <1>4, MovedTwice
<1> QED BY <1>1, <1>3, <1>5

LEMMA PairThinkSeg ==
  ASSUME NEW from, NEW x, NEW v, NEW u, Paired(v, from, x, u), v.seg = T!NoSeg, u.seg = T!NoSeg
  PROVE  Paired(T!newThinkSeg(v), from, x, T!newThinkSeg(u))
<1> DEFINE a == T!activityGroup(v)
           b == T!activityGroup(u)
           vv == T!newThinkSeg(v)
           uu == T!newThinkSeg(u)
<1>0. Sound(v, from) /\ Sound(u, 1) BY DEF Paired
<1>1. /\ Sound(vv, from) /\ a.seg = T!NoSeg /\ a.activity \in T!Ids(a)
      /\ Gone(a, vv, 0) /\ vv.next = a.next /\ vv.tools = a.tools /\ vv.turnTop = a.turnTop
      /\ vv.activity = a.activity /\ vv.owns = a.owns
      /\ vv.seg = [kind |-> "think", row |-> a.activity, text |-> 0]
  BY <1>0, ThinkSegIs DEF Moved
<1>2. /\ Sound(uu, 1) /\ b.seg = T!NoSeg /\ b.activity \in T!Ids(b)
      /\ Gone(b, uu, 0) /\ uu.next = b.next /\ uu.tools = b.tools /\ uu.turnTop = b.turnTop
      /\ uu.activity = b.activity /\ uu.owns = b.owns
      /\ uu.seg = [kind |-> "think", row |-> b.activity, text |-> 0]
  BY <1>0, ThinkSegIs DEF Moved
<1>3. Paired(a, from, x, b) BY PairGroup
<1> HIDE DEF a, b, vv, uu
<1>4. Paired(vv, from, x, uu) BY <1>1, <1>2, <1>3, PairThink
<1> QED BY <1>4 DEF vv, uu

\* newOutputSeg in its two steps.
LEMMA OutSegIs ==
  ASSUME NEW from, NEW v, Sound(v, from), v.seg = T!NoSeg, Owning(v), NEW u,
         u = T!newOutputSeg(v),
         NEW c, c = T!clearPending(v)
  PROVE  /\ Moved(v, from, u) /\ u.seg.kind = "out"
         /\ Sound(c, from) /\ c.seg = T!NoSeg
         /\ Placed(c, u, T!Row(c.next, "bot", 0), 0) /\ u.next = c.next + 1 /\ u.tools = c.tools
         /\ c.turnTop = 0 => u.turnTop = c.next
         /\ c.turnTop # 0 => u.turnTop = c.turnTop
         /\ u.activity = c.activity /\ u.owns = c.owns
         /\ u.seg = [kind |-> "out", row |-> c.next, text |-> 0]
<1>1. Sound(c, from) /\ Steady(v, c) /\ c.seg = T!NoSeg /\ Owning(c) BY ClearIs DEF Rest, Owning
<1> DEFINE q == T!addMsg(c, "bot", 0)
           top == IF c.turnTop = 0 THEN c.next ELSE c.turnTop
<1>2. u = AtAnswer(c, top)
 <2>1. q.turnTop = c.turnTop /\ q = T!addMsg(c, "bot", T!None) BY DEF T!addMsg, T!None
 <2> HIDE DEF q
 <2> QED BY <2>1 DEF T!newOutputSeg, T!None, AtAnswer, q
<1>3. (c.turnTop = 0 => top = c.next) /\ (c.turnTop # 0 => top = c.turnTop) OBVIOUS
<1> HIDE DEF q, top
<1>5. /\ Sound(u, from) /\ Steady(c, u) /\ Placed(c, u, T!Row(c.next, "bot", 0), 0)
      /\ u.next = c.next + 1 /\ u.tools = c.tools /\ u.activity = c.activity
      /\ u.owns = c.owns /\ u.turnTop = top
      /\ u.seg = [kind |-> "out", row |-> c.next, text |-> 0]
  BY <1>1, <1>2, <1>3, OutIs
<1>6. Moved(v, from, c) /\ Moved(c, from, u) BY <1>1, <1>5 DEF Moved
<1>7. Moved(v, from, u) BY <1>6, MovedTwice
<1>8. (c.turnTop = 0 => u.turnTop = c.next) /\ (c.turnTop # 0 => u.turnTop = c.turnTop)
  BY <1>3, <1>5
<1>9. u.seg.kind = "out" BY <1>5
<1> QED BY <1>1, <1>5, <1>7, <1>8, <1>9

LEMMA PairOutSeg ==
  ASSUME NEW from, NEW x, NEW v, NEW u, Paired(v, from, x, u), v.seg = T!NoSeg, u.seg = T!NoSeg,
         Owning(v)
  PROVE  Paired(T!newOutputSeg(v), from, x, T!newOutputSeg(u))
<1> DEFINE a == T!clearPending(v)
           b == T!clearPending(u)
           vv == T!newOutputSeg(v)
           uu == T!newOutputSeg(u)
<1>0. Sound(v, from) /\ Sound(u, 1) /\ Owning(u) BY DEF Paired, T!Follows, Owning
<1>1. /\ Sound(vv, from) /\ a.seg = T!NoSeg
      /\ Placed(a, vv, T!Row(a.next, "bot", 0), 0) /\ vv.next = a.next + 1 /\ vv.tools = a.tools
      /\ a.turnTop = 0 => vv.turnTop = a.next
      /\ a.turnTop # 0 => vv.turnTop = a.turnTop
      /\ vv.activity = a.activity /\ vv.owns = a.owns
      /\ vv.seg = [kind |-> "out", row |-> a.next, text |-> 0]
  BY <1>0, OutSegIs DEF Moved
<1>2. /\ Sound(uu, 1) /\ b.seg = T!NoSeg
      /\ Placed(b, uu, T!Row(b.next, "bot", 0), 0) /\ uu.next = b.next + 1 /\ uu.tools = b.tools
      /\ b.turnTop = 0 => uu.turnTop = b.next
      /\ b.turnTop # 0 => uu.turnTop = b.turnTop
      /\ uu.activity = b.activity /\ uu.owns = b.owns
      /\ uu.seg = [kind |-> "out", row |-> b.next, text |-> 0]
  BY <1>0, OutSegIs DEF Moved
<1>3. Paired(a, from, x, b) BY PairClear
<1> HIDE DEF a, b, vv, uu
<1>4. Paired(vv, from, x, uu) BY <1>1, <1>2, <1>3, PairOut
<1> QED BY <1>4 DEF vv, uu

\* A thought lengthens the open segment and its row.
LEMMA ThoughtToIs ==
  ASSUME NEW from, NEW v, Sound(v, from), v.seg.kind = "think", NEW u, u = ThoughtTo(v)
  PROVE  Grew(v, from, u, "think", v.seg.text + 1,
              [T!Line(v, v.seg.row) EXCEPT !.text = v.seg.text + 1, !.painted = v.seg.text + 1])
<1> DEFINE x == v.seg.row
           n == v.seg.text + 1
           l == T!Line(v, x)
           r == [l EXCEPT !.text = n, !.painted = n]
           q == [v EXCEPT !.seg.text = @ + 1]
<1>1. /\ T!Formed(v) /\ v \in T!Pages /\ n \in Nat /\ x \in T!Ids(v) /\ Rowed(v)
  BY FormedIs DEF Sound, T!Drawn
<1>2. /\ l \in T!Lines /\ l.id = x BY <1>1, FormedIs
<1>3. r \in T!Lines /\ r.id = x /\ r.kind = l.kind BY <1>1, <1>2 DEF T!Lines
<1>4. /\ q \in T!Pages /\ q.rows = v.rows /\ q.next = v.next /\ q.tools = v.tools
      /\ q.activity = v.activity /\ q.turnTop = v.turnTop /\ q.todo = v.todo /\ q.owns = v.owns /\ q.skip = v.skip
      /\ q.seg.kind = "think" /\ q.seg.row = x /\ q.seg.text = n
 <2>1. /\ v.seg \in [kind : {"none", "think", "out"}, row : Nat, text : Nat] BY <1>1 DEF T!Pages
 <2> QED BY <1>1, <2>1 DEF T!Pages
<1>5. T!Has(q, x) /\ T!At(q, x) = T!At(v, x) /\ q.rows[T!At(q, x)] = l
 <2>1. T!Has(v, x) BY <1>1, HasIs
 <2>2. T!Has(q, x) /\ T!At(q, x) = T!At(v, x) /\ T!Line(q, x) = T!Line(v, x)
   BY <1>1, <1>4, <2>1, SameRows
 <2> QED BY <2>2 DEF T!Line
<1>6. u = T!WithRow(q, q.seg.row, LAMBDA i : [i EXCEPT !.text = q.seg.text, !.painted = q.seg.text])
  BY DEF ThoughtTo
<1>7. x = v.seg.row OBVIOUS
<1> HIDE DEF x, n, q
<1>8. u = [q EXCEPT !.rows[T!At(q, x)] = [l EXCEPT !.text = n, !.painted = n]]
 <2> HIDE DEF l
 <2> QED BY <1>4, <1>5, <1>6 DEF T!WithRow
<1>9. u = [q EXCEPT !.rows[T!At(q, r.id)] = r] BY <1>3, <1>8
<1> HIDE DEF r
<1>10. /\ Sound(u, from) /\ Steady(v, u) /\ Turned(v, u, r) /\ u.next = v.next /\ u.tools = v.tools
       /\ u.activity = v.activity /\ u.turnTop = v.turnTop /\ u.owns = v.owns /\ u.seg = q.seg
  BY <1>1, <1>3, <1>4, <1>7, <1>9, TextIs DEF l
<1>11. Grew(v, from, u, "think", n, r) BY <1>1, <1>3, <1>4, <1>7, <1>10 DEF Grew, Moved, l
<1> QED BY <1>11 DEF x, n, r, l

\* A token lengthens the open answer.
LEMMA TokenToIs ==
  ASSUME NEW from, NEW v, Sound(v, from), v.seg.kind = "out", NEW p \in Nat, NEW u,
         u = TokenTo(v, p)
  PROVE  Grew(v, from, u, "out", v.seg.text + p, [T!Line(v, v.seg.row) EXCEPT !.text = v.seg.text + p])
<1> DEFINE x == v.seg.row
           n == v.seg.text + p
           l == T!Line(v, x)
           r == [l EXCEPT !.text = n]
           q == [v EXCEPT !.seg.text = @ + p, !.raf = TRUE]
<1>1. /\ T!Formed(v) /\ v \in T!Pages /\ n \in Nat /\ x \in T!Ids(v) /\ Rowed(v)
  BY FormedIs DEF Sound, T!Drawn
<1>2. /\ l \in T!Lines /\ l.id = x BY <1>1, FormedIs
<1>3. r \in T!Lines /\ r.id = x /\ r.kind = l.kind BY <1>1, <1>2 DEF T!Lines
<1>4. /\ q \in T!Pages /\ q.rows = v.rows /\ q.next = v.next /\ q.tools = v.tools
      /\ q.activity = v.activity /\ q.turnTop = v.turnTop /\ q.todo = v.todo /\ q.owns = v.owns /\ q.skip = v.skip
      /\ q.seg.kind = "out" /\ q.seg.row = x /\ q.seg.text = n
 <2>1. /\ v.seg \in [kind : {"none", "think", "out"}, row : Nat, text : Nat] BY <1>1 DEF T!Pages
 <2> QED BY <1>1, <2>1 DEF T!Pages
<1>5. T!Has(q, x) /\ T!At(q, x) = T!At(v, x) /\ q.rows[T!At(q, x)] = l
 <2>1. T!Has(v, x) BY <1>1, HasIs
 <2>2. T!Has(q, x) /\ T!At(q, x) = T!At(v, x) /\ T!Line(q, x) = T!Line(v, x)
   BY <1>1, <1>4, <2>1, SameRows
 <2> QED BY <2>2 DEF T!Line
<1>6. u = T!WithRow(q, q.seg.row, LAMBDA i : [i EXCEPT !.text = q.seg.text]) BY DEF TokenTo
<1>7. x = v.seg.row OBVIOUS
<1> HIDE DEF x, n, q
<1>8. u = [q EXCEPT !.rows[T!At(q, x)] = [l EXCEPT !.text = n]]
 <2> HIDE DEF l
 <2> QED BY <1>4, <1>5, <1>6 DEF T!WithRow
<1>9. u = [q EXCEPT !.rows[T!At(q, r.id)] = r] BY <1>3, <1>8
<1> HIDE DEF r
<1>10. /\ Sound(u, from) /\ Steady(v, u) /\ Turned(v, u, r) /\ u.next = v.next /\ u.tools = v.tools
       /\ u.activity = v.activity /\ u.turnTop = v.turnTop /\ u.owns = v.owns /\ u.seg = q.seg
  BY <1>1, <1>3, <1>4, <1>7, <1>9, TextIs DEF l
<1>11. Grew(v, from, u, "out", n, r) BY <1>1, <1>3, <1>4, <1>7, <1>10 DEF Grew, Moved, l
<1> QED BY <1>11 DEF x, n, r, l

\* Both grow by the same.
LEMMA PairGrew ==
  ASSUME NEW from, NEW x, NEW v, NEW u, Paired(v, from, x, u), NEW k, NEW n,
         NEW vv, NEW r, Grew(v, from, vv, k, n, r), NEW uu, NEW s, Grew(u, 1, uu, k, n, s),
         T!Says(r) = T!Says(s)
  PROVE  Paired(vv, from, x, uu)
BY PairText DEF Grew, Moved

LEMMA PairThoughtTo ==
  ASSUME NEW from, NEW x, NEW v, NEW u, Paired(v, from, x, u), v.seg.kind = "think"
  PROVE  Paired(ThoughtTo(v), from, x, ThoughtTo(u))
<1> DEFINE l == T!Line(v, v.seg.row)
           j == T!Line(u, u.seg.row)
           n == v.seg.text + 1
           r == [l EXCEPT !.text = n, !.painted = n]
           s == [j EXCEPT !.text = n, !.painted = n]
<1>1. Sound(v, from) /\ Sound(u, 1) /\ u.seg.kind = "think" /\ u.seg.text = v.seg.text
  BY DEF Paired, T!Follows
<1>2. Grew(v, from, ThoughtTo(v), "think", n, r) BY <1>1, ThoughtToIs
<1>3. Grew(u, 1, ThoughtTo(u), "think", u.seg.text + 1, [j EXCEPT !.text = u.seg.text + 1, !.painted = u.seg.text + 1])
  BY <1>1, ThoughtToIs
<1>4. v.seg.row \in T!Ids(v) /\ u.seg.row \in T!Ids(u) BY <1>1 DEF Sound, T!Drawn
<1>5. l \in T!Lines /\ j \in T!Lines BY <1>1, <1>4, FormedIs DEF Sound
<1>6. T!Says(l) = T!Says(j)
 <2>1. OneOf(v, u, 0, 0, v.seg.row, u.seg.row) BY DEF OneOf
 <2> QED BY <1>4, <2>1, Twins
<1> HIDE DEF l, j
<1>7. T!Says(r) = T!Says(s) BY <1>5, <1>6 DEF T!Says, T!Lines
<1>8. Grew(u, 1, ThoughtTo(u), "think", n, s) BY <1>1, <1>3
<1> QED BY <1>2, <1>7, <1>8, PairGrew

LEMMA PairTokenTo ==
  ASSUME NEW from, NEW x, NEW v, NEW u, Paired(v, from, x, u), v.seg.kind = "out", NEW p \in Nat
  PROVE  Paired(TokenTo(v, p), from, x, TokenTo(u, p))
<1> DEFINE l == T!Line(v, v.seg.row)
           j == T!Line(u, u.seg.row)
           n == v.seg.text + p
           r == [l EXCEPT !.text = n]
           s == [j EXCEPT !.text = n]
<1>1. Sound(v, from) /\ Sound(u, 1) /\ u.seg.kind = "out" /\ u.seg.text = v.seg.text
  BY DEF Paired, T!Follows
<1>2. Grew(v, from, TokenTo(v, p), "out", n, r) BY <1>1, TokenToIs
<1>3. Grew(u, 1, TokenTo(u, p), "out", u.seg.text + p, [j EXCEPT !.text = u.seg.text + p])
  BY <1>1, TokenToIs
<1>4. v.seg.row \in T!Ids(v) /\ u.seg.row \in T!Ids(u) BY <1>1 DEF Sound, T!Drawn
<1>5. l \in T!Lines /\ j \in T!Lines BY <1>1, <1>4, FormedIs DEF Sound
<1>6. T!Says(l) = T!Says(j)
 <2>1. OneOf(v, u, 0, 0, v.seg.row, u.seg.row) BY DEF OneOf
 <2> QED BY <1>4, <2>1, Twins
<1> HIDE DEF l, j
<1>7. T!Says(r) = T!Says(s) BY <1>5, <1>6 DEF T!Says, T!Lines
<1>8. Grew(u, 1, TokenTo(u, p), "out", n, s) BY <1>1, <1>3
<1> QED BY <1>2, <1>7, <1>8, PairGrew

\* Without a pending row the page is as sound as before.
LEMMA Cleared ==
  ASSUME NEW from, NEW v, Sound(v, from)
  PROVE  /\ Moved(v, from, T!clearPending(v))
         /\ \A a \in T!Ids(T!clearPending(v)) : T!Line(T!clearPending(v), a).kind # "pending"
<1> DEFINE u == T!clearPending(v)
<1>1. /\ Sound(u, from) /\ Steady(v, u)
      /\ \A a \in T!Ids(u) : T!Line(u, a).kind # "pending"
 <2> HIDE DEF u
 <2>1. u = T!clearPending(v) BY DEF u
 <2> QED BY <2>1, ClearIs
<1> QED BY <1>1 DEF Moved

\* So it is with its segment closed,
LEMMA Finalized ==
  ASSUME NEW from, NEW v, Sound(v, from)
  PROVE  /\ Moved(v, from, T!finalizeSeg(v)) /\ T!finalizeSeg(v).seg = T!NoSeg
         /\ T!finalizeSeg(v).owns = v.owns
BY FinalizeIs DEF Moved

\* with a thinking segment opened,
LEMMA ThinkSegMoved ==
  ASSUME NEW from, NEW v, Sound(v, from), v.seg = T!NoSeg
  PROVE  Moved(v, from, T!newThinkSeg(v)) /\ T!newThinkSeg(v).seg.kind = "think"
BY ThinkSegIs

\* and with an answer opened.
LEMMA OutSegMoved ==
  ASSUME NEW from, NEW v, Sound(v, from), v.seg = T!NoSeg, Owning(v)
  PROVE  Moved(v, from, T!newOutputSeg(v)) /\ T!newOutputSeg(v).seg.kind = "out"
BY OutSegIs

\* The segment a thought goes to.
LEMMA ForThoughtIs ==
  ASSUME NEW from, NEW v, Sound(v, from), NEW u, u = ForThought(v)
  PROVE  Moved(v, from, u) /\ u.seg.kind = "think"
<1>1. CASE v.seg.kind = "think" BY <1>1, MovedNot DEF ForThought
<1>2. CASE v.seg.kind # "think"
 <2> DEFINE f == T!finalizeSeg(v)
 <2>1. Sound(f, from) /\ Steady(v, f) /\ f.seg = T!NoSeg BY FinalizeIs
 <2>2. u = T!newThinkSeg(f) BY <1>2 DEF ForThought
 <2> HIDE DEF f
 <2>3. Moved(f, from, u) /\ u.seg.kind = "think" BY <2>1, <2>2, ThinkSegMoved
 <2>4. Moved(v, from, f) BY <2>1 DEF Moved
 <2> QED BY <2>3, <2>4, MovedTwice
<1> QED BY <1>1, <1>2

\* The segment a token goes to.
LEMMA ForTokenIs ==
  ASSUME NEW from, NEW v, Sound(v, from), Owning(v), NEW u, u = ForToken(v)
  PROVE  Moved(v, from, u) /\ u.seg.kind = "out"
<1>1. CASE v.seg.kind = "out" BY <1>1, MovedNot DEF ForToken
<1>2. CASE v.seg.kind # "out"
 <2> DEFINE f == T!finalizeSeg(v)
 <2>1. Sound(f, from) /\ Steady(v, f) /\ f.seg = T!NoSeg /\ f.owns = v.owns BY FinalizeIs
 <2>2. u = T!newOutputSeg(f) BY <1>2 DEF ForToken
 <2> HIDE DEF f
 <2>3. Owning(f) BY <2>1 DEF Owning
 <2>4. Moved(f, from, u) /\ u.seg.kind = "out" BY <2>1, <2>2, <2>3, OutSegMoved
 <2>5. Moved(v, from, f) BY <2>1 DEF Moved
 <2> QED BY <2>4, <2>5, MovedTwice
<1> QED BY <1>1, <1>2

LEMMA PairForThought ==
  ASSUME NEW from, NEW x, NEW v, NEW u, Paired(v, from, x, u)
  PROVE  Paired(ForThought(v), from, x, ForThought(u))
<1>0. Sound(v, from) /\ Sound(u, 1) /\ v.seg.kind = u.seg.kind BY DEF Paired, T!Follows
<1>1. CASE v.seg.kind = "think"
 <2>1. ForThought(v) = v /\ ForThought(u) = u BY <1>0, <1>1 DEF ForThought
 <2> QED BY <2>1
<1>2. CASE v.seg.kind # "think"
 <2> DEFINE f == T!finalizeSeg(v)
            g == T!finalizeSeg(u)
 <2>1. f.seg = T!NoSeg /\ g.seg = T!NoSeg BY <1>0, Finalized
 <2>2. Paired(f, from, x, g) BY PairFinalize
 <2>3. ForThought(v) = T!newThinkSeg(f) /\ ForThought(u) = T!newThinkSeg(g)
   BY <1>0, <1>2 DEF ForThought
 <2> HIDE DEF f, g
 <2>4. Paired(T!newThinkSeg(f), from, x, T!newThinkSeg(g)) BY <2>1, <2>2, PairThinkSeg
 <2> QED BY <2>3, <2>4
<1> QED BY <1>1, <1>2

LEMMA PairForToken ==
  ASSUME NEW from, NEW x, NEW v, NEW u, Paired(v, from, x, u), Owning(v)
  PROVE  Paired(ForToken(v), from, x, ForToken(u))
<1>0. Sound(v, from) /\ Sound(u, 1) /\ v.seg.kind = u.seg.kind BY DEF Paired, T!Follows
<1>1. CASE v.seg.kind = "out"
 <2>1. ForToken(v) = v /\ ForToken(u) = u BY <1>0, <1>1 DEF ForToken
 <2> QED BY <2>1
<1>2. CASE v.seg.kind # "out"
 <2> DEFINE f == T!finalizeSeg(v)
            g == T!finalizeSeg(u)
 <2>1. f.seg = T!NoSeg /\ g.seg = T!NoSeg /\ f.owns = v.owns BY <1>0, Finalized
 <2>2. Paired(f, from, x, g) BY PairFinalize
 <2>3. ForToken(v) = T!newOutputSeg(f) /\ ForToken(u) = T!newOutputSeg(g)
   BY <1>0, <1>2 DEF ForToken
 <2> HIDE DEF f, g
 <2>4. Owning(f) BY <2>1 DEF Owning
 <2>5. Paired(T!newOutputSeg(f), from, x, T!newOutputSeg(g)) BY <2>1, <2>2, <2>4, PairOutSeg
 <2> QED BY <2>3, <2>5
<1> QED BY <1>1, <1>2

\* appendThought in its three steps.
LEMMA ThoughtShape ==
  ASSUME NEW v
  PROVE  T!appendThought(v) = ThoughtTo(ForThought(T!clearPending(v)))
BY DEF T!appendThought, ThoughtTo, ForThought

\* appendToken in its two steps.
LEMMA TokenShape ==
  ASSUME NEW v, NEW n
  PROVE  T!appendToken(v, n) = TokenTo(ForToken(v), n)
BY DEF T!appendToken, TokenTo, ForToken

\* appendThought keeps a view sound.
LEMMA ThoughtIs ==
  ASSUME NEW from, NEW v, Sound(v, from)
  PROVE  Moved(v, from, T!appendThought(v))
<1> DEFINE c == T!clearPending(v)
           s == ForThought(c)
           t == ThoughtTo(s)
<1>1. Moved(v, from, c) BY ClearIs DEF Moved
<1>2. Moved(c, from, s) /\ s.seg.kind = "think" BY <1>1, ForThoughtIs DEF Moved
<1> HIDE DEF c, s
<1>3. Moved(s, from, t)
 <2>1. Sound(s, from) BY <1>2 DEF Moved
 <2> QED BY <1>2, <2>1, ThoughtToIs DEF Grew
<1> HIDE DEF t
<1>4. Moved(v, from, t) BY <1>1, <1>2, <1>3, MovedTwice
<1> QED BY <1>4, ThoughtShape DEF c, s, t

LEMMA TokenIs ==
  ASSUME NEW from, NEW v, Sound(v, from), Owning(v), NEW n \in Nat
  PROVE  Moved(v, from, T!appendToken(v, n))
<1> DEFINE s == ForToken(v)
           t == TokenTo(s, n)
<1>1. Moved(v, from, s) /\ s.seg.kind = "out" BY ForTokenIs
<1> HIDE DEF s
<1>2. Moved(s, from, t)
 <2>1. Sound(s, from) BY <1>1 DEF Moved
 <2> QED BY <1>1, <2>1, TokenToIs DEF Grew
<1> HIDE DEF t
<1>3. Moved(v, from, t) BY <1>1, <1>2, MovedTwice
<1> QED BY <1>3, TokenShape DEF s, t

LEMMA PairThought ==
  ASSUME NEW from, NEW x, NEW v, NEW u, Paired(v, from, x, u)
  PROVE  Paired(T!appendThought(v), from, x, T!appendThought(u))
<1> DEFINE c == T!clearPending(v)
           d == T!clearPending(u)
           s == ForThought(c)
           t == ForThought(d)
<1>1. Paired(c, from, x, d) BY PairClear
<1> HIDE DEF c, d
<1>2. Paired(s, from, x, t) BY <1>1, PairForThought
<1>3. s.seg.kind = "think" BY <1>1, ForThoughtIs DEF Paired
<1> HIDE DEF s, t
<1>4. Paired(ThoughtTo(s), from, x, ThoughtTo(t)) BY <1>2, <1>3, PairThoughtTo
<1>5. T!appendThought(v) = ThoughtTo(s) /\ T!appendThought(u) = ThoughtTo(t)
  BY ThoughtShape DEF c, d, s, t
<1> QED BY <1>4, <1>5

LEMMA PairToken ==
  ASSUME NEW from, NEW x, NEW v, NEW u, Paired(v, from, x, u), Owning(v), NEW n \in Nat
  PROVE  Paired(T!appendToken(v, n), from, x, T!appendToken(u, n))
<1> DEFINE s == ForToken(v)
           t == ForToken(u)
<1>1. Paired(s, from, x, t) BY PairForToken
<1>2. s.seg.kind = "out" BY ForTokenIs DEF Paired
<1> HIDE DEF s, t
<1>3. Paired(TokenTo(s, n), from, x, TokenTo(t, n)) BY <1>1, <1>2, PairTokenTo
<1>4. T!appendToken(v, n) = TokenTo(s, n) /\ T!appendToken(u, n) = TokenTo(t, n)
  BY TokenShape DEF s, t
<1> QED BY <1>3, <1>4

\* toolRow in its steps.
LEMMA ToolShape ==
  ASSUME NEW v, NEW k, NEW st, NEW c, c = Marking(Bound(T!activityGroup(v), k), k, st)
  PROVE  T!toolRow(v, k, st) = IF st = "running" \/ v.owns THEN T!showPending(c) ELSE c
BY DEF T!toolRow, Marking, Bound, Bind, T!None

\* A tool call keeps the row it has.
LEMMA BoundIs ==
  ASSUME NEW from, NEW a, Sound(a, from), a.activity \in T!Ids(a), NEW k \in ToolIds, NEW b,
         b = Bound(a, k)
  PROVE  /\ Moved(a, from, b)
         /\ a.tools[k] # 0 => b = a
         /\ a.tools[k] = 0 =>
               /\ Gone(a, b, 0) /\ b.next = a.next /\ b.seg = a.seg
               /\ b.turnTop = a.turnTop /\ b.activity = a.activity /\ b.owns = a.owns
               /\ b.tools[k] = a.activity /\ \A t \in ToolIds \ {k} : b.tools[t] = a.tools[t]
<1>1. CASE a.tools[k] # 0 BY <1>1, MovedNot DEF Bound
<1>2. CASE a.tools[k] = 0
 <2>1. b = Bind(a, k) BY <1>2 DEF Bound
 <2>2. /\ Sound(b, from) /\ Steady(a, b) /\ Gone(a, b, 0) /\ b.next = a.next /\ b.seg = a.seg
       /\ b.turnTop = a.turnTop /\ b.activity = a.activity /\ b.owns = a.owns
       /\ b.tools[k] = a.activity /\ \A t \in ToolIds \ {k} : b.tools[t] = a.tools[t]
   BY <2>1, ToolSetIs
 <2> QED BY <1>2, <2>2 DEF Moved
<1> QED BY <1>1, <1>2

LEMMA PairBound ==
  ASSUME NEW from, NEW x, NEW v, NEW u, Paired(v, from, x, u), v.activity \in T!Ids(v),
         u.activity \in T!Ids(u),
         NEW k \in ToolIds
  PROVE  Paired(Bound(v, k), from, x, Bound(u, k))
<1> DEFINE vv == Bound(v, k)
           uu == Bound(u, k)
<1>0. Sound(v, from) /\ Sound(u, 1) BY DEF Paired
<1>1. /\ Sound(vv, from) /\ v.tools[k] # 0 => vv = v
      /\ v.tools[k] = 0 =>
               /\ Gone(v, vv, 0) /\ vv.next = v.next /\ vv.seg = v.seg
               /\ vv.turnTop = v.turnTop /\ vv.activity = v.activity /\ vv.owns = v.owns
               /\ vv.tools[k] = v.activity /\ \A t \in ToolIds \ {k} : vv.tools[t] = v.tools[t]
  BY <1>0, BoundIs DEF Moved
<1>2. /\ Sound(uu, 1) /\ u.tools[k] # 0 => uu = u
      /\ u.tools[k] = 0 =>
               /\ Gone(u, uu, 0) /\ uu.next = u.next /\ uu.seg = u.seg
               /\ uu.turnTop = u.turnTop /\ uu.activity = u.activity /\ uu.owns = u.owns
               /\ uu.tools[k] = u.activity /\ \A t \in ToolIds \ {k} : uu.tools[t] = u.tools[t]
  BY <1>0, BoundIs DEF Moved
<1>3. v.tools[k] = 0 <=> u.tools[k] = 0
 <2>1. OneOf(v, u, 0, 0, v.tools[k], u.tools[k]) BY DEF OneOf
 <2> QED BY <2>1, Twins
<1>5. Sound(vv, from) /\ Sound(uu, 1) BY <1>0, BoundIs DEF Moved
<1> HIDE DEF vv, uu
<1>4. Paired(vv, from, x, uu) BY <1>1, <1>2, <1>3, <1>5, PairToolSet
<1> QED BY <1>4 DEF vv, uu

\* The state of a tool call is written where the call is shown.
LEMMA MarkingIs ==
  ASSUME NEW from, NEW v, Sound(v, from), NEW k \in ToolIds, NEW st \in {"running", "completed"}
  PROVE  Moved(v, from, Marking(v, k, st))
BY ToolMarkIs DEF Moved

LEMMA PairMarking ==
  ASSUME NEW from, NEW x, NEW v, NEW u, Paired(v, from, x, u), NEW k \in ToolIds,
         NEW st \in {"running", "completed"}
  PROVE  Paired(Marking(v, k, st), from, x, Marking(u, k, st))
<1> DEFINE vv == Marking(v, k, st)
           uu == Marking(u, k, st)
<1>0. Sound(v, from) /\ Sound(u, 1) BY DEF Paired
<1>1. /\ Sound(vv, from) /\ Rest(vv) = Rest(v) /\ vv.next = v.next
      /\ v.tools[k] \in T!Ids(v) => Turned(v, vv, Told(T!Line(v, v.tools[k]), k, st))
      /\ v.tools[k] \notin T!Ids(v) => vv = v
  BY <1>0, ToolMarkIs
<1>2. /\ Sound(uu, 1) /\ Rest(uu) = Rest(u) /\ uu.next = u.next
      /\ u.tools[k] \in T!Ids(u) => Turned(u, uu, Told(T!Line(u, u.tools[k]), k, st))
      /\ u.tools[k] \notin T!Ids(u) => uu = u
  BY <1>0, ToolMarkIs
<1> HIDE DEF vv, uu
<1>3. Paired(vv, from, x, uu) BY <1>1, <1>2, PairToolMark
<1> QED BY <1>3 DEF vv, uu

\* toolRow keeps a view sound.
LEMMA ToolIs ==
  ASSUME NEW from, NEW v, Sound(v, from), NEW k \in ToolIds, NEW st \in {"running", "completed"}
  PROVE  Moved(v, from, T!toolRow(v, k, st))
<1> DEFINE a == T!activityGroup(v)
           b == Bound(a, k)
           c == Marking(b, k, st)
           d == T!showPending(c)
<1>1. Moved(v, from, a) /\ a.activity \in T!Ids(a) BY GroupIs DEF Moved
<1>2. T!toolRow(v, k, st) = IF st = "running" \/ v.owns THEN d ELSE c BY ToolShape
<1> HIDE DEF a
<1>3. Moved(a, from, b) BY <1>1, BoundIs DEF Moved
<1> HIDE DEF b
<1>4. Moved(b, from, c) BY <1>3, MarkingIs DEF Moved
<1> HIDE DEF c
<1>5. Moved(c, from, d) BY <1>4, ShowIs DEF Moved
<1> HIDE DEF d
<1>6. Moved(v, from, c) /\ Moved(v, from, d) BY <1>1, <1>3, <1>4, <1>5, MovedTwice
<1> QED BY <1>2, <1>6

LEMMA PairTool ==
  ASSUME NEW from, NEW x, NEW v, NEW u, Paired(v, from, x, u), NEW k \in ToolIds,
         NEW st \in {"running", "completed"}
  PROVE  Paired(T!toolRow(v, k, st), from, x, T!toolRow(u, k, st))
<1> DEFINE va == T!activityGroup(v)
           ua == T!activityGroup(u)
           vb == Bound(va, k)
           ub == Bound(ua, k)
           vc == Marking(vb, k, st)
           uc == Marking(ub, k, st)
           vd == T!showPending(vc)
           ud == T!showPending(uc)
<1>0. Sound(v, from) /\ Sound(u, 1) /\ v.owns = u.owns BY DEF Paired, T!Follows
<1>1. /\ T!toolRow(v, k, st) = IF st = "running" \/ v.owns THEN vd ELSE vc
      /\ T!toolRow(u, k, st) = IF st = "running" \/ u.owns THEN ud ELSE uc
  BY ToolShape
<1>2. Paired(va, from, x, ua) /\ va.activity \in T!Ids(va) /\ ua.activity \in T!Ids(ua)
  BY <1>0, PairGroup, GroupIs
<1> HIDE DEF va, ua
<1>3. Paired(vb, from, x, ub) BY <1>2, PairBound
<1> HIDE DEF vb, ub
<1>4. Paired(vc, from, x, uc) BY <1>3, PairMarking
<1> HIDE DEF vc, uc
<1>5. Paired(vd, from, x, ud) BY <1>4, PairShow
<1> HIDE DEF vd, ud
<1>6. \/ T!toolRow(v, k, st) = vd /\ T!toolRow(u, k, st) = ud
      \/ T!toolRow(v, k, st) = vc /\ T!toolRow(u, k, st) = uc
  BY <1>0, <1>1
<1> QED BY <1>4, <1>5, <1>6

LEMMA PairAdd ==
  ASSUME NEW from, NEW x, NEW v, NEW u, Paired(v, from, x, u), NEW k \in {"note", "user"},
         NEW p \in Nat
  PROVE  Paired(T!addMsg(v, k, p), from, x, T!addMsg(u, k, p))
<1> DEFINE vv == T!addMsg(v, k, p)
           uu == T!addMsg(u, k, p)
           r == T!Row(v.next, k, p)
           s == T!Row(u.next, k, p)
<1>0. /\ Sound(v, from) /\ Sound(u, 1) /\ x \in Nat /\ x < v.next /\ T!Formed(v) /\ T!Formed(u)
      /\ v.seg.kind = u.seg.kind /\ v.seg.text = u.seg.text /\ v.owns = u.owns
  BY DEF Paired, T!Follows, Sound
<1>1. k \in T!Kinds /\ k \notin {"bot", "pending", "todo"} /\ v.next \in Nat \ {0} /\ u.next \in Nat \ {0}
  BY <1>0, KindsAre, FormedIs
<1>2. T!Formed(vv) /\ Placed(v, vv, r, 0) /\ Rest(vv) = Rest(v) /\ vv.next = v.next + 1
  BY <1>0, <1>1, AddMsgIs
<1>3. T!Formed(uu) /\ Placed(u, uu, s, 0) /\ Rest(uu) = Rest(u) /\ uu.next = u.next + 1
  BY <1>0, <1>1, AddMsgIs
<1>4. r.id = v.next /\ r.kind = k /\ s.id = u.next /\ s.kind = k BY <1>1, RowIs
<1>5. T!Says(r) = T!Says(s) BY RowSays
<1>6. r.kind \notin {"bot", "pending", "todo"} /\ s.kind \notin {"bot", "pending", "todo"}
  BY <1>1, <1>4
<1> HIDE DEF vv, uu, r, s
<1>7. Sound(vv, from) /\ Sound(uu, 1) /\ Rowed(vv) /\ Rowed(uu)
 <2>1. Sound(vv, from) BY <1>0, <1>2, <1>4, <1>6, Added
 <2>2. Sound(uu, 1) BY <1>0, <1>3, <1>4, <1>6, Added
 <2> QED BY <1>2, <1>3, <2>1, <2>2, FormedIs
<1>8. OneOf(v, u, 0, 0, 0, 0) BY DEF OneOf
<1>9. Linked(v, u, v.next, u.next, vv, from, x, uu)
  BY <1>2, <1>3, <1>4, <1>5, <1>6, <1>7, <1>8, Grown
<1>10. /\ vv.seg = v.seg /\ vv.activity = v.activity /\ vv.turnTop = v.turnTop /\ vv.tools = v.tools
       /\ uu.seg = u.seg /\ uu.activity = u.activity /\ uu.turnTop = u.turnTop /\ uu.tools = u.tools
       /\ vv.owns = v.owns /\ uu.owns = u.owns
  BY <1>2, <1>3 DEF Rest
<1>11. /\ OneOf(v, u, v.next, u.next, vv.seg.row, uu.seg.row)
       /\ OneOf(v, u, v.next, u.next, vv.activity, uu.activity)
       /\ OneOf(v, u, v.next, u.next, vv.turnTop, uu.turnTop)
       /\ \A t \in ToolIds : OneOf(v, u, v.next, u.next, vv.tools[t], uu.tools[t])
  BY <1>10 DEF OneOf
<1>12. vv.seg.kind = uu.seg.kind /\ vv.seg.text = uu.seg.text /\ vv.owns = uu.owns /\ x < vv.next
  BY <1>0, <1>1, <1>2, <1>10
<1>13. Paired(vv, from, x, uu) BY <1>0, <1>7, <1>9, <1>11, <1>12, Linking
<1> QED BY <1>13 DEF vv, uu

\* A note keeps a view sound.
LEMMA NoteIs ==
  ASSUME NEW from, NEW v, Sound(v, from), NEW k \in {"note", "aside"}, NEW u, u = T!addMsg(v, k, 0)
  PROVE  /\ Moved(v, from, u) /\ Rest(u) = Rest(v) /\ u.next = v.next + 1
         /\ \E r : Placed(v, u, r, 0) /\ r.id = v.next /\ r.kind = k
<1> DEFINE r == T!Row(v.next, k, 0)
<1>1. T!Formed(v) /\ v.next \in Nat \ {0} /\ k \in T!Kinds BY FormedIs DEF Sound, T!Kinds
<1>2. T!Formed(u) /\ Placed(v, u, r, 0) /\ Rest(u) = Rest(v) /\ u.next = v.next + 1
  BY <1>1, AddMsgIs
<1>3. r.id = v.next /\ r.kind = k BY <1>1, RowIs
<1>4. r.kind \notin {"bot", "pending"} /\ r.kind # "user" BY <1>3
<1> HIDE DEF r
<1>5. Sound(u, from) /\ Steady(v, u) BY <1>2, <1>3, <1>4, Added
<1> QED BY <1>2, <1>3, <1>5 DEF Moved

\* What an event can be.
LEMMA EventIs ==
  ASSUME NEW d \in T!Events
  PROVE  /\ d.k \in {"thought", "token", "blank", "todo", "note", "tool"}
         /\ d.k = "tool" => d.id \in ToolIds /\ d.st \in {"running", "completed"}
<1> DEFINE S == {[k |-> e, id |-> T!None, st |-> ""] : e \in {"thought", "token", "blank", "todo", "note"}}
           Q == T!ToolEvents
<1>1. d \in S \cup Q BY Zenon DEF T!Events
<1>2. ASSUME d \in S PROVE d.k \in {"thought", "token", "blank", "todo", "note"}
 <2>1. PICK e \in {"thought", "token", "blank", "todo", "note"} : d = [k |-> e, id |-> T!None, st |-> ""]
   BY <1>2, Zenon
 <2>2. d.k = e BY <2>1, Zenon
 <2> QED BY <2>2
<1>3. ASSUME d \in Q PROVE d.k = "tool" /\ d.id \in ToolIds /\ d.st \in {"running", "completed"}
 <2>1. PICK i \in ToolIds, s \in {"running", "completed"} : d = [k |-> "tool", id |-> i, st |-> s]
   BY <1>3, SMT DEF T!ToolEvents
 <2> QED BY <2>1
<1> HIDE DEF S, Q
<1> QED BY <1>1, <1>2, <1>3

\* draw keeps a view sound, whatever the event.
LEMMA DrawIs ==
  ASSUME NEW from, NEW v, Sound(v, from), Owning(v), NEW e \in T!Events
  PROVE  Moved(v, from, T!draw(v, e))
<1>1. CASE e.k = "thought"
 <2>1. T!draw(v, e) = T!appendThought(v) BY <1>1 DEF T!draw
 <2> QED BY <2>1, ThoughtIs
<1>2. CASE e.k = "token"
 <2>1. T!draw(v, e) = T!appendToken(v, 1) BY <1>2 DEF T!draw
 <2> QED BY <2>1, TokenIs
<1>3. CASE e.k = "blank"
 <2>1. T!draw(v, e) = T!appendToken(v, 0) BY <1>3 DEF T!draw
 <2> QED BY <2>1, TokenIs
<1>4. CASE e.k = "todo"
 <2>1. T!draw(v, e) = T!showTodos(v) BY <1>4 DEF T!draw
 <2> QED BY <2>1, TodoIs DEF Moved
<1>5. CASE e.k = "note"
 <2>1. T!draw(v, e) = T!addMsg(T!finalizeSeg(v), "note", 0) BY <1>5 DEF T!draw, T!None
 <2> DEFINE f == T!finalizeSeg(v)
            n == T!addMsg(f, "note", 0)
 <2>2. Moved(v, from, f) BY Finalized
 <2> HIDE DEF f
 <2>3. Moved(f, from, n) BY <2>2, NoteIs DEF Moved
 <2> HIDE DEF n
 <2>4. Moved(v, from, n) BY <2>2, <2>3, MovedTwice
 <2> QED BY <2>1, <2>4 DEF f, n
<1>6. CASE e.k = "tool"
 <2>1. e.id \in ToolIds /\ e.st \in {"running", "completed"} BY <1>6, EventIs
 <2>2. T!draw(v, e) = T!toolRow(v, e.id, e.st) BY <1>6 DEF T!draw
 <2> QED BY <2>1, <2>2, ToolIs
<1> QED BY <1>1, <1>2, <1>3, <1>4, <1>5, <1>6, EventIs

LEMMA PairDraw ==
  ASSUME NEW from, NEW x, NEW v, NEW u, Paired(v, from, x, u), Owning(v), NEW e \in T!Events
  PROVE  Paired(T!draw(v, e), from, x, T!draw(u, e))
<1>1. CASE e.k = "thought"
 <2>1. T!draw(v, e) = T!appendThought(v) /\ T!draw(u, e) = T!appendThought(u) BY <1>1 DEF T!draw
 <2> QED BY <2>1, PairThought
<1>2. CASE e.k = "token"
 <2>1. T!draw(v, e) = T!appendToken(v, 1) /\ T!draw(u, e) = T!appendToken(u, 1)
   BY <1>2 DEF T!draw
 <2> QED BY <2>1, PairToken
<1>3. CASE e.k = "blank"
 <2>1. T!draw(v, e) = T!appendToken(v, 0) /\ T!draw(u, e) = T!appendToken(u, 0)
   BY <1>3 DEF T!draw
 <2> QED BY <2>1, PairToken
<1>4. CASE e.k = "todo"
 <2>1. T!draw(v, e) = T!showTodos(v) /\ T!draw(u, e) = T!showTodos(u) BY <1>4 DEF T!draw
 <2> QED BY <2>1, PairTodo
<1>5. CASE e.k = "note"
 <2>1. /\ T!draw(v, e) = T!addMsg(T!finalizeSeg(v), "note", 0)
       /\ T!draw(u, e) = T!addMsg(T!finalizeSeg(u), "note", 0)
   BY <1>5 DEF T!draw, T!None
 <2>2. Paired(T!finalizeSeg(v), from, x, T!finalizeSeg(u)) BY PairFinalize
 <2> QED BY <2>1, <2>2, PairAdd
<1>6. CASE e.k = "tool"
 <2>1. e.id \in ToolIds /\ e.st \in {"running", "completed"} BY <1>6, EventIs
 <2>2. T!draw(v, e) = T!toolRow(v, e.id, e.st) /\ T!draw(u, e) = T!toolRow(u, e.id, e.st)
   BY <1>6 DEF T!draw
 <2> QED BY <2>1, <2>2, PairTool
<1> QED BY <1>1, <1>2, <1>3, <1>4, <1>5, <1>6, EventIs

\* The end of a turn: nothing of it is under way, and nothing is pending.
LEMMA EndIs ==
  ASSUME NEW from, NEW v, Sound(v, from), NEW f, f = T!finalizeSeg(T!clearPending(v)), NEW u,
         u = T!endTurn(v)
  PROVE  /\ Moved(v, from, f) /\ f.rows = u.rows /\ f.next = u.next /\ f.skip = u.skip /\ f.seg = T!NoSeg
         /\ Sound(u, from) /\ T!Idle(u) /\ ~u.owns
         /\ \A a \in T!Ids(u) : T!Line(u, a).kind # "pending"
<1> DEFINE c == T!clearPending(v)
<1>1. Moved(v, from, c) /\ \A a \in T!Ids(c) : T!Line(c, a).kind # "pending" BY Cleared
<1>2. f = T!finalizeSeg(c) /\ u = Quieted(f) BY DEF T!endTurn, Quieted
<1> HIDE DEF c
<1>3. Sound(c, from) BY <1>1 DEF Moved
<1>4. /\ Sound(f, from) /\ Steady(c, f) /\ f.seg = T!NoSeg
      /\ IF c.seg.kind # "out" THEN Gone(c, f, 0)
         ELSE IF c.seg.text = 0 THEN Gone(c, f, c.seg.row)
         ELSE Turned(c, f, [T!Line(c, c.seg.row) EXCEPT !.painted = T!Line(c, c.seg.row).text])
  BY <1>2, <1>3, FinalizeIs
<1>5. \A a \in T!Ids(f) : T!Line(f, a).kind # "pending"
 <2>1. CASE \E y : Gone(c, f, y) BY <1>1, <2>1 DEF Gone
 <2>2. CASE c.seg.kind = "out" /\ Turned(c, f, [T!Line(c, c.seg.row) EXCEPT !.painted = T!Line(c, c.seg.row).text])
  <3> DEFINE l == T!Line(c, c.seg.row)
             r == [l EXCEPT !.painted = l.text]
  <3>1. c.seg.row \in T!Ids(c) BY <1>3, <2>2 DEF Sound, T!Drawn
  <3>2. l \in T!Lines /\ l.id = c.seg.row /\ l.kind # "pending"
    BY <1>1, <1>3, <3>1, FormedIs DEF Sound
  <3>3. r.id = c.seg.row /\ r.kind # "pending" BY <3>2 DEF T!Lines
  <3>4. Turned(c, f, r) BY <2>2
  <3> HIDE DEF l, r
  <3> QED BY <1>1, <3>3, <3>4 DEF Turned
 <2> QED BY <1>4, <2>1, <2>2
<1>6. /\ Sound(u, from) /\ T!Idle(u) /\ ~u.owns /\ u.rows = f.rows /\ u.next = f.next /\ u.skip = f.skip
  BY <1>2, <1>4, QuietIs
<1>7. \A a \in T!Ids(u) : T!Line(u, a).kind # "pending"
 <2>1. T!Ids(u) = T!Ids(f) /\ \A a : T!Line(u, a) = T!Line(f, a)
   BY <1>4, <1>6, SameRows, FormedIs DEF Sound
 <2> QED BY <1>5, <2>1
<1>8. Moved(c, from, f) BY <1>3, <1>4 DEF Moved
<1>9. Moved(v, from, f) BY <1>1, <1>8, MovedTwice
<1> QED BY <1>4, <1>6, <1>7, <1>9

LEMMA PairEnd ==
  ASSUME NEW from, NEW x, NEW v, NEW u, Paired(v, from, x, u)
  PROVE  Paired(T!endTurn(v), from, x, T!endTurn(u))
<1> DEFINE vf == T!finalizeSeg(T!clearPending(v))
           uf == T!finalizeSeg(T!clearPending(u))
           vv == T!endTurn(v)
           uu == T!endTurn(u)
<1>0. Sound(v, from) /\ Sound(u, 1) BY DEF Paired
<1>1. /\ vf.rows = vv.rows /\ vf.next = vv.next /\ vf.seg = T!NoSeg /\ Sound(vf, from)
      /\ Sound(vv, from) /\ T!Idle(vv) /\ ~vv.owns
  BY <1>0, EndIs DEF Moved
<1>2. /\ uf.rows = uu.rows /\ uf.next = uu.next /\ uf.seg = T!NoSeg /\ Sound(uf, 1)
      /\ Sound(uu, 1) /\ T!Idle(uu) /\ ~uu.owns
  BY <1>0, EndIs DEF Moved
<1>3. Paired(vf, from, x, uf) BY PairClear, PairFinalize
<1> HIDE DEF vf, uf, vv, uu
<1>4. Gone(vf, vv, 0) /\ Gone(uf, uu, 0) BY <1>1, <1>2, SameRows, FormedIs DEF Sound
<1>5. Linked(vf, uf, 0, 0, vv, from, x, uu) BY <1>3, <1>4, Held
<1>6. /\ vv.seg.row = 0 /\ uu.seg.row = 0 /\ vv.activity = 0 /\ uu.activity = 0 /\ vv.turnTop = 0 /\ uu.turnTop = 0
      /\ vv.seg.kind = "none" /\ uu.seg.kind = "none" /\ vv.seg.text = 0 /\ uu.seg.text = 0
      /\ \A t \in ToolIds : vv.tools[t] = 0 /\ uu.tools[t] = 0
  BY <1>1, <1>2 DEF T!Idle, T!NoSeg, T!NoTools, T!None
<1>7. OneOf(vf, uf, 0, 0, 0, 0) BY DEF OneOf
<1>8. /\ OneOf(vf, uf, 0, 0, vv.seg.row, uu.seg.row)
      /\ OneOf(vf, uf, 0, 0, vv.activity, uu.activity)
      /\ OneOf(vf, uf, 0, 0, vv.turnTop, uu.turnTop)
      /\ \A t \in ToolIds : OneOf(vf, uf, 0, 0, vv.tools[t], uu.tools[t])
  BY <1>6, <1>7
<1>9. vv.owns = uu.owns
 <2>1. vv.owns \in BOOLEAN /\ uu.owns \in BOOLEAN BY <1>1, <1>2, FormedIs DEF Sound
 <2> QED BY <1>1, <1>2, <2>1
<1>10. x \in Nat /\ x < vv.next BY <1>1, <1>3 DEF Paired
<1>11. Paired(vv, from, x, uu) BY <1>1, <1>2, <1>5, <1>6, <1>8, <1>9, <1>10, Linking
<1> QED BY <1>11 DEF vv, uu

------------------------
\* The views the reader's steps make

\* A view with nothing drawn.
LEMMA EmptyIs ==
  ASSUME NEW v \in T!Pages, v.rows = <<>>, T!Idle(v), v.todo < v.next, NEW from \in Nat,
         from <= v.next
  PROVE  /\ Sound(v, from) /\ T!Ids(v) = {}
         /\ \A g, x : T!Mine(v, g, x) = {}
<1>1. T!Ids(v) = {} /\ DOMAIN v.rows = {} BY DEF T!Ids
<1>2. v.next \in Nat \ {0} /\ 0 < v.next BY DEF T!Pages
<1>3. /\ v.seg = T!NoSeg /\ v.seg.row = 0 /\ v.seg.kind = "none" /\ v.activity = 0 /\ v.turnTop = 0
      /\ \A t \in ToolIds : v.tools[t] = 0
  BY DEF T!Idle, T!NoSeg, T!NoTools, T!None
<1>4. T!Formed(v) BY <1>1, <1>2, <1>3 DEF T!Formed
<1>5. T!Drawn(v) BY <1>1, <1>3 DEF T!Drawn
<1>6. T!Topped(v, from) BY <1>1 DEF T!Topped
<1>7. \A g, x : T!Mine(v, g, x) = {} BY <1>1 DEF T!Mine
<1> QED BY <1>1, <1>4, <1>5, <1>6, <1>7 DEF Sound

\* The empty views are views.
LEMMA BlankIs ==
  T!Blank \in T!Pages /\ T!Fresh \in T!Pages
<1>1. T!NoSeg \in [kind : {"none", "think", "out"}, row : Nat, text : Nat]
  BY DEF T!NoSeg, T!None
<1>2. T!NoTools \in [ToolIds -> Nat] BY DEF T!NoTools, T!None
<1>3. << >> \in Seq(T!Lines) BY EmptySeq
<1>4. 0 \in Nat /\ 1 \in Nat \ {0} OBVIOUS
<1>5. T!Blank \in T!Pages BY <1>1, <1>2, <1>3, <1>4 DEF T!Blank, T!Pages, T!None
<1>6. T!Fresh \in T!Pages BY <1>5 DEF T!Fresh, T!Pages
<1> QED BY <1>5, <1>6

\* The view a replay starts from.
LEMMA FreshIs ==
  /\ Sound(T!Fresh, 1) /\ T!Idle(T!Fresh) /\ T!Fresh.owns = TRUE /\ T!Fresh.rows = <<>> /\ ~T!Fresh.skip
  /\ T!Fresh.next = 1 /\ T!Mine(T!Fresh, 1, 0) = {}
<1> DEFINE v == T!Fresh
<1>1. /\ T!Idle(v) /\ v.owns = TRUE /\ v.rows = <<>> /\ ~v.skip /\ v.next = 1 /\ v.todo < v.next
  BY DEF T!Fresh, T!Blank, T!Idle, T!NoSeg, T!NoTools, T!None
<1>2. v \in T!Pages BY BlankIs
<1> HIDE DEF v
<1>3. Sound(v, 1) /\ T!Mine(v, 1, 0) = {} BY <1>1, <1>2, EmptyIs
<1> QED BY <1>1, <1>3 DEF v

\* What a view under no turn refers to: nothing.
LEMMA IdleIs ==
  ASSUME NEW v, T!Idle(v)
  PROVE  /\ v.seg.row = 0 /\ v.seg.kind = "none" /\ v.seg.text = 0 /\ v.activity = 0 /\ v.turnTop = 0
         /\ v.seg = T!NoSeg /\ \A t \in ToolIds : v.tools[t] = 0
BY DEF T!Idle, T!NoSeg, T!NoTools, T!None

\* A flag of the view changes, and no row.
LEMMA Flagged ==
  ASSUME NEW from, NEW v, Sound(v, from), NEW u \in T!Pages, u.rows = v.rows, u.next = v.next,
         u.seg = v.seg, u.activity = v.activity, u.turnTop = v.turnTop, u.tools = v.tools, u.todo = v.todo,
         u.owns = v.owns
  PROVE  /\ Sound(u, from) /\ Gone(v, u, 0) /\ T!Ids(u) = T!Ids(v)
         /\ \A a : T!Line(u, a) = T!Line(v, a)
         /\ \A a, b : T!Before(u, a, b) <=> T!Before(v, a, b)
<1>1. T!Formed(v) /\ Rowed(v) BY FormedIs DEF Sound
<1>2. T!Formed(u) BY <1>1, Refielded DEF T!Formed
<1>3. /\ T!Ids(u) = T!Ids(v) /\ Gone(v, u, 0) /\ \A a : T!Line(u, a) = T!Line(v, a)
      /\ \A a, b : T!Before(u, a, b) <=> T!Before(v, a, b)
  BY <1>1, SameRows
<1>4. T!Drawn(u) /\ T!Topped(u, from) BY <1>3 DEF Sound, T!Drawn, T!Topped
<1> QED BY <1>2, <1>3, <1>4 DEF Sound

\* A view is handed to a turn that draws from row `from' on.
LEMMA Handed ==
  ASSUME NEW g, NEW v, Sound(v, g), NEW u \in T!Pages, u.rows = v.rows,
         u.next = v.next,
         u.seg = v.seg, u.activity = v.activity, u.turnTop = v.turnTop, u.tools = v.tools, u.todo = v.todo,
         NEW from \in Nat, from <= v.next,
         \A a \in T!Ids(v) : T!Line(v, a).kind = "bot" => a < from
  PROVE  /\ Sound(u, from) /\ (T!Idle(v) => T!Idle(u)) /\ T!Ids(u) = T!Ids(v)
         /\ \A a : T!Line(u, a) = T!Line(v, a)
         /\ \A a, b : T!Before(u, a, b) <=> T!Before(v, a, b)
<1>1. T!Formed(v) /\ Rowed(v) BY FormedIs DEF Sound
<1>2. T!Formed(u) BY <1>1, Refielded DEF T!Formed
<1>3. /\ T!Ids(u) = T!Ids(v) /\ \A a : T!Line(u, a) = T!Line(v, a)
      /\ \A a, b : T!Before(u, a, b) <=> T!Before(v, a, b)
  BY <1>1, SameRows
<1>4. T!Drawn(u) BY <1>3 DEF Sound, T!Drawn
<1>5. \A a \in T!Ids(v) : T!Line(v, a).kind = "bot" => ~(a >= from) BY <1>1, FormedIs
<1>6. T!Topped(u, from) BY <1>3, <1>5 DEF Sound, T!Topped
<1>7. T!Idle(v) => T!Idle(u) BY DEF T!Idle
<1> QED BY <1>2, <1>3, <1>4, <1>6, <1>7 DEF Sound

\* A prompt forgets what the turn before left behind.
LEMMA Renewed ==
  ASSUME NEW from, NEW v, Sound(v, from), v.seg = T!NoSeg,
         \A a \in T!Ids(v) : T!Line(v, a).kind = "bot" => a < from, NEW q, q = T!NewTurn(v)
  PROVE  /\ Sound(q, from) /\ T!Idle(q) /\ q.rows = v.rows /\ q.next = v.next /\ q.skip = v.skip
         /\ q.owns = v.owns /\ T!Ids(q) = T!Ids(v) /\ \A a : T!Line(q, a) = T!Line(v, a)
         /\ \A p : T!userEvent(v, p) = T!userEvent(q, p)
<1>1. Rowed(v) /\ v \in T!Pages /\ from \in Nat /\ from <= v.next BY FormedIs DEF Sound
<1>2. /\ q \in T!Pages /\ q.rows = v.rows /\ q.next = v.next /\ q.seg = v.seg /\ q.skip = v.skip
      /\ q.turnTop = 0 /\ q.activity = 0 /\ q.todo = v.todo /\ q.owns = v.owns
      /\ q.tools = [i \in ToolIds |-> 0] /\ q.tools = T!NoTools
  BY <1>1 DEF T!Pages, T!NewTurn, T!None, T!NoTools
<1> DEFINE u == Quieted(v)
<1>3. /\ u.rows = v.rows /\ u.next = v.next /\ u.seg = v.seg /\ u.todo = v.todo
      /\ u.turnTop = 0 /\ u.activity = 0 /\ u.tools = T!NoTools
  BY <1>1 DEF T!Pages, T!NewTurn, T!None, Quieted
<1>4. Sound(u, from) /\ T!Idle(u) BY QuietIs
<1> HIDE DEF u
<1>5. T!Ids(u) = T!Ids(v) /\ \A a : T!Line(u, a) = T!Line(v, a) BY <1>1, <1>3, SameRows
<1>6. /\ Sound(q, from) /\ T!Idle(q) /\ T!Ids(q) = T!Ids(v) /\ \A a : T!Line(q, a) = T!Line(v, a)
  BY <1>1, <1>2, <1>3, <1>4, <1>5, Handed
<1>7. T!finalizeSeg(v) = v /\ T!finalizeSeg(q) = q
 <2>1. v.seg.kind # "out" /\ q.seg.kind # "out" BY <1>2 DEF T!NoSeg
 <2>2. [v EXCEPT !.seg = T!NoSeg] = v /\ [q EXCEPT !.seg = T!NoSeg] = q
   BY <1>1, <1>2 DEF T!Pages
 <2> QED BY <2>1, <2>2 DEF T!finalizeSeg
<1>8. T!NewTurn(q) = q BY <1>2 DEF T!Pages, T!NewTurn, T!None
<1> QED BY <1>2, <1>6, <1>7, <1>8 DEF T!userEvent

\* A turn that has drawn nothing reads as an empty view.
LEMMA PairEmpty ==
  ASSUME NEW from, NEW v, Sound(v, from), T!Idle(v), Owning(v), NEW x \in Nat, x < v.next,
         T!Mine(v, from, x) = {}
  PROVE  Paired(v, from, x, T!Fresh)
<1> DEFINE u == T!Fresh
           F == T!Mine(v, from, x)
           G == T!Mine(u, 1, 0)
           m == [a \in F |-> a]
<1>1. Sound(u, 1) /\ T!Idle(u) /\ u.owns = TRUE /\ G = {} BY FreshIs
<1> HIDE DEF u
<1>2. F = {} OBVIOUS
<1>3. T!Formed(v) /\ T!Formed(u) /\ F \subseteq T!Ids(v) /\ G \subseteq T!Ids(u)
  BY <1>1, <1>2 DEF Sound
<1>4. v.owns = u.owns
 <2>1. v.owns \in BOOLEAN BY <1>3, FormedIs
 <2> QED BY <1>1, <2>1 DEF Owning
<1>5. /\ v.seg.row = 0 /\ v.seg.kind = "none" /\ v.seg.text = 0 /\ v.activity = 0 /\ v.turnTop = 0
      /\ \A t \in ToolIds : v.tools[t] = 0
      /\ u.seg.row = 0 /\ u.seg.kind = "none" /\ u.seg.text = 0 /\ u.activity = 0 /\ u.turnTop = 0
      /\ \A t \in ToolIds : u.tools[t] = 0
  BY <1>1, IdleIs
<1> HIDE DEF F, G
<1>6. m \in [F -> G] BY <1>1, <1>2
<1>7. T!Alike(m, v, F, u, G) BY <1>1, <1>2, <1>6 DEF T!Alike
<1> HIDE DEF m
<1>8. T!Refers(m, v, F, u, G, 0, 0) BY <1>3, RefersNone
<1>9. Matched(m, v, F, u, G) BY <1>5, <1>8 DEF Matched
<1>10. T!Follows(m, v, F, u, G) BY <1>4, <1>5, <1>7, <1>8, <1>9, FollowsIs
<1> QED BY <1>1, <1>6, <1>10 DEF Paired, F, G, u

\* A turn that has drawn one row, which says what the only row of w says.
LEMMA PairFirst ==
  ASSUME NEW from, NEW v, Sound(v, from), T!Idle(v), NEW u, Sound(u, 1), T!Idle(u),
         v.owns = u.owns,
         NEW a, T!Mine(v, from, 0) = {a}, NEW b, T!Mine(u, 1, 0) = {b},
         T!Says(T!Line(v, a)) = T!Says(T!Line(u, b))
  PROVE  Paired(v, from, 0, u)
<1> DEFINE F == T!Mine(v, from, 0)
           G == T!Mine(u, 1, 0)
           m == [i \in F |-> b]
<1>1. T!Formed(v) /\ T!Formed(u) /\ F \subseteq T!Ids(v) /\ G \subseteq T!Ids(u) /\ 0 < v.next
      /\ Rowed(v) /\ Rowed(u)
  BY MineIs, FormedIs DEF Sound
<1>2. F = {a} /\ G = {b} OBVIOUS
<1>3. /\ v.seg.row = 0 /\ v.seg.kind = "none" /\ v.seg.text = 0 /\ v.activity = 0 /\ v.turnTop = 0
      /\ \A t \in ToolIds : v.tools[t] = 0
      /\ u.seg.row = 0 /\ u.seg.kind = "none" /\ u.seg.text = 0 /\ u.activity = 0 /\ u.turnTop = 0
      /\ \A t \in ToolIds : u.tools[t] = 0
  BY IdleIs
<1> HIDE DEF F, G
<1>4. m \in [F -> G] /\ m[a] = b BY <1>2
<1> HIDE DEF m
<1>5. ~T!Before(v, a, a) /\ ~T!Before(u, b, b) BY <1>1, <1>2, InOrder
<1>6. T!Alike(m, v, F, u, G) BY <1>2, <1>4, <1>5 DEF T!Alike
<1>7. T!Refers(m, v, F, u, G, 0, 0) BY <1>1, RefersNone
<1>8. Matched(m, v, F, u, G) BY <1>3, <1>7 DEF Matched
<1>9. T!Follows(m, v, F, u, G) BY <1>3, <1>6, <1>7, <1>8, FollowsIs
<1> QED BY <1>1, <1>4, <1>9 DEF Paired, F, G

\* The echo of a send is drawn, and taken away, beside what the turn has drawn.
LEMMA EchoDrawn ==
  ASSUME NEW from, NEW v, Sound(v, from), NEW vv, NEW r, NEW t, Placed(v, vv, r, t),
         r.id = v.next
  PROVE  T!Mine(vv, from, v.next) = T!Mine(v, from, 0) /\ Keeps(v, vv, T!Mine(v, from, 0))
<1>1. v.next \notin T!Ids(v) /\ 0 \notin T!Ids(v) /\ v.next # 0 BY FormedIs DEF Sound
<1>2. /\ T!Ids(vv) = T!Ids(v) \cup {v.next} /\ \A a \in T!Ids(v) : T!Line(vv, a) = T!Line(v, a)
      /\ \A a, b \in T!Ids(v) : T!Before(vv, a, b) <=> T!Before(v, a, b)
  BY DEF Placed
<1>3. T!Mine(vv, from, v.next) = T!Mine(v, from, 0) BY <1>1, <1>2 DEF T!Mine
<1>4. T!Mine(v, from, 0) \subseteq T!Ids(v) /\ T!Mine(v, from, 0) \subseteq T!Ids(vv)
  BY <1>2, MineIs
<1> QED BY <1>2, <1>3, <1>4 DEF Keeps

\* What is taken away is the echo.
LEMMA EchoDropped ==
  ASSUME NEW from, NEW v, Sound(v, from), NEW vv, NEW x, Gone(v, vv, x)
  PROVE  T!Mine(vv, from, 0) = T!Mine(v, from, x) /\ Keeps(v, vv, T!Mine(v, from, x))
<1>1. 0 \notin T!Ids(v) BY FormedIs DEF Sound
<1>2. /\ T!Ids(vv) = T!Ids(v) \ {x} /\ \A a \in T!Ids(vv) : T!Line(vv, a) = T!Line(v, a)
      /\ \A a, b \in T!Ids(vv) : T!Before(vv, a, b) <=> T!Before(v, a, b)
  BY DEF Gone
<1>3. T!Mine(vv, from, 0) = T!Mine(v, from, x) BY <1>1, <1>2 DEF T!Mine
<1>4. T!Mine(v, from, x) \subseteq T!Ids(v) /\ T!Mine(v, from, x) \subseteq T!Ids(vv)
  BY <1>2, <1>3, MineIs
<1> QED BY <1>2, <1>3, <1>4 DEF Keeps

------------------------
\* What is logged

\* Every event of the log is a record of the same form.
LEMMA RecordIs ==
  ASSUME NEW F, NEW G, NEW S, NEW a \in F, NEW b \in G, NEW c \in S
  PROVE  [k |-> a, id |-> b, st |-> c] \in [k : F, id : G, st : S]
OBVIOUS

\* Events, prompts and ends are what is logged.
LEMMA LoggedIs ==
  /\ \A e \in T!Events : e \in T!Logged
  /\ T!EndEvent \in T!Logged
  /\ \A n \in Nat : T!UserEvent(n) \in T!Logged
<1>1. 0 \in Nat \cup ToolIds OBVIOUS
<1>2. "" \in {"", "running", "completed"} BY Zenon
<1> DEFINE K == {"user", "thought", "token", "blank", "tool", "todo", "note", "end"}
<1>8. "user" \in K /\ "end" \in K OBVIOUS
<1>3. ASSUME NEW e \in {"thought", "token", "blank", "todo", "note"}
      PROVE  [k |-> e, id |-> 0, st |-> ""] \in T!Logged
 <2>1. e \in K OBVIOUS
 <2> QED BY <1>1, <1>2, <2>1, RecordIs, Zenon DEF T!Logged
<1>4. ASSUME NEW e \in T!ToolEvents
      PROVE  e \in T!Logged
 <2>1. PICK i \in ToolIds, s \in {"running", "completed"} : e = [k |-> "tool", id |-> i, st |-> s]
   BY <1>4 DEF T!ToolEvents
 <2>2. "tool" \in K /\ i \in Nat \cup ToolIds OBVIOUS
 <2>3. s \in {"", "running", "completed"} BY Zenon
 <2> QED BY <2>1, <2>2, <2>3, RecordIs, Zenon DEF T!Logged
<1>5. \A e \in T!Events : e \in T!Logged BY <1>3, <1>4, Zenon DEF T!Events, T!None
<1>6. T!EndEvent \in T!Logged
  BY <1>1, <1>2, <1>8, RecordIs, Zenon DEF T!EndEvent, T!Logged, T!None
<1>7. ASSUME NEW n \in Nat
      PROVE  T!UserEvent(n) \in T!Logged
 <2>1. n \in Nat \cup ToolIds OBVIOUS
 <2> QED BY <1>2, <1>8, <2>1, RecordIs, Zenon DEF T!UserEvent, T!Logged
<1> QED BY <1>5, <1>6, <1>7

\* They are told apart by their kinds.
LEMMA EventKinds ==
  /\ T!EndEvent.k = "end" /\ \A n : T!UserEvent(n).k = "user" /\ T!UserEvent(n).id = n
  /\ \A n : T!UserEvent(n) # T!EndEvent
  /\ \A e \in T!Events : e.k # "user" /\ e.k # "end" /\ e # T!EndEvent /\ \A n : e # T!UserEvent(n)
<1>1. T!EndEvent.k = "end" BY Zenon DEF T!EndEvent
<1>2. ASSUME NEW n PROVE T!UserEvent(n).k = "user" /\ T!UserEvent(n).id = n
  BY Zenon DEF T!UserEvent
<1>3. ASSUME NEW e \in T!Events PROVE e.k # "user" /\ e.k # "end" BY EventIs
<1> QED BY <1>1, <1>2, <1>3

\* A note is an event.
LEMMA NoteLogged ==
  NoteEvent \in T!Events /\ NoteEvent.k = "note"
BY Zenon DEF NoteEvent, T!Events, T!None

------------------------
\* What is left in a torn view

\* Rows, segments and marks may change as they like, and the next number grow.
LEMMA NumKept ==
  ASSUME NEW v, Numbered(v), NEW X, NEW Z, NEW Y, NEW n
  PROVE  /\ Numbered([v EXCEPT !.rows = X]) /\ Numbered([v EXCEPT !.seg = X])
         /\ Numbered([v EXCEPT !.tools = X]) /\ Numbered([v EXCEPT !.activity = Z])
         /\ Numbered([v EXCEPT !.turnTop = Z, !.seg = X])
         /\ Numbered([v EXCEPT !.activity = Z, !.turnTop = Y, !.tools = X])
         /\ Numbered([v EXCEPT !.owns = TRUE]) /\ Numbered([v EXCEPT !.owns = FALSE])
         /\ Numbered([v EXCEPT !.skip = FALSE]) /\ Numbered([v EXCEPT !.raf = FALSE])
         /\ Numbered([v EXCEPT !.skip = FALSE, !.owns = TRUE])
         /\ Numbered([v EXCEPT !.seg = X, !.activity = Z, !.turnTop = Y, !.skip = TRUE])
         /\ Numbered([v EXCEPT !.seg.text = @ + n, !.raf = TRUE])
         /\ Numbered([v EXCEPT !.seg.text = @ + n])
BY DEF Numbered

LEMMA NumNext ==
  ASSUME NEW v, Numbered(v), NEW X, NEW c \in Nat \ {0}, v.todo < c
  PROVE  Numbered([v EXCEPT !.rows = X, !.next = c])
BY DEF Numbered

LEMMA NumTodo ==
  ASSUME NEW v, Numbered(v), NEW c \in Nat, c < v.next
  PROVE  Numbered([v EXCEPT !.todo = c])
BY DEF Numbered

\* Z row is added, in either place.
LEMMA NumAdd ==
  ASSUME NEW v, Numbered(v), NEW kind, NEW p
  PROVE  /\ Numbered(T!addMsg(v, kind, p)) /\ T!addMsg(v, kind, p).next = v.next + 1
         /\ Numbered(T!addAbove(v, kind)) /\ T!addAbove(v, kind).next = v.next + 1
         /\ v.next \in Nat
<1>1. v.next \in Nat /\ v.next + 1 \in Nat \ {0} /\ v.todo < v.next + 1 BY DEF Numbered
<1>2. ASSUME NEW X
      PROVE  Numbered([v EXCEPT !.rows = X, !.next = @ + 1])
  BY <1>1, NumNext
<1>3. \A X : [v EXCEPT !.rows = X, !.next = @ + 1].next = v.next + 1 BY DEF Numbered
<1>4. Numbered(T!addMsg(v, kind, p)) /\ T!addMsg(v, kind, p).next = v.next + 1
  BY <1>2, <1>3 DEF T!addMsg
<1>5. Numbered(T!addMsg(v, kind, 0)) /\ T!addMsg(v, kind, 0).next = v.next + 1
  BY <1>2, <1>3 DEF T!addMsg
<1>6. Numbered(T!addAbove(v, kind)) /\ T!addAbove(v, kind).next = v.next + 1
  BY <1>2, <1>3, <1>5 DEF T!addAbove, T!None
<1> QED BY <1>1, <1>4, <1>6

\* Z row is written, or goes, the segment is closed.
LEMMA NumTaken ==
  ASSUME NEW v, Numbered(v), NEW i
  PROVE  /\ Numbered(T!Removed(v, i)) /\ Numbered(T!Without(v, i)) /\ Numbered(T!painted(v, i))
         /\ Numbered(T!clearPending(v)) /\ Numbered(T!dropLastUser(v)) /\ Numbered(T!finalizeSeg(v))
<1>1. ASSUME NEW u, Numbered(u), NEW a
      PROVE  Numbered(T!Removed(u, a)) /\ Numbered(T!Without(u, a)) /\ Numbered(T!painted(u, a))
  BY <1>1, NumKept DEF T!Removed, T!Without, T!painted, T!WithRow
<1>2. Numbered(T!clearPending(v)) /\ Numbered(T!dropLastUser(v))
  BY <1>1 DEF T!clearPending, T!dropLastUser
<1>3. Numbered(T!finalizeSeg(v))
 <2> DEFINE c == [v EXCEPT !.seg = T!NoSeg]
 <2>1. Numbered(c) BY NumKept
 <2> HIDE DEF c
 <2> QED BY <1>1, <2>1 DEF T!finalizeSeg, c
<1> QED BY <1>1, <1>2, <1>3

\* The activity row, the pending row and the segments are opened.
LEMMA NumOpened ==
  ASSUME NEW v, Numbered(v)
  PROVE  /\ Numbered(T!activityGroup(v)) /\ Numbered(T!showPending(v)) /\ Numbered(T!showTodos(v))
         /\ Numbered(T!newThinkSeg(v)) /\ Numbered(T!newOutputSeg(v))
<1>1. Numbered(T!activityGroup(v))
 <2> DEFINE q == T!addAbove(v, "activity")
 <2>1. Numbered(q) BY NumAdd
 <2> HIDE DEF q
 <2> QED BY <2>1, NumKept DEF T!activityGroup, q
<1>2. Numbered(T!showTodos(v))
 <2> DEFINE q == T!addAbove(v, "todo")
 <2>1. Numbered(q) /\ q.next = v.next + 1 /\ v.next \in Nat BY NumAdd
 <2> HIDE DEF q
 <2>2. Numbered([q EXCEPT !.todo = v.next]) BY <2>1, NumTodo
 <2> QED BY <2>2 DEF T!showTodos, q
<1>3. Numbered(T!showPending(v)) BY NumAdd DEF T!showPending
<1>4. Numbered(T!newThinkSeg(v)) BY <1>1, NumKept DEF T!newThinkSeg
<1>5. Numbered(T!newOutputSeg(v))
 <2> DEFINE c == T!clearPending(v)
            q == T!addMsg(c, "bot", 0)
 <2>1. Numbered(q) BY NumTaken, NumAdd
 <2> HIDE DEF q, c
 <2>2. \A S : Numbered([q EXCEPT !.turnTop = IF @ = 0 THEN c.next ELSE @, !.seg = S])
   BY <2>1, NumKept
 <2> QED BY <2>2 DEF T!newOutputSeg, c, q, T!None
<1> QED BY <1>1, <1>2, <1>3, <1>4, <1>5

\* Whatever an event draws, the view stays numbered.
LEMMA NumDraw ==
  ASSUME NEW v, Numbered(v), NEW e
  PROVE  /\ Numbered(T!loseTurn(v))
         /\ e.k \in {"user", "thought", "token", "blank", "tool", "todo", "note", "end"} => Numbered(T!draw(v, e))
<1>1. ASSUME NEW u, Numbered(u)
      PROVE  Numbered(T!finalizeSeg(u)) /\ Numbered(T!clearPending(u)) /\ Numbered(T!NewTurn(u))
  BY <1>1, NumTaken, NumKept DEF T!NewTurn
<1>2. \A p : Numbered(T!userEvent(v, p))
 <2> DEFINE g == T!NewTurn(T!finalizeSeg(v))
 <2>1. Numbered(g) BY <1>1
 <2> HIDE DEF g
 <2>2. \A p : Numbered(T!addUserMsg(g, p)) /\ Numbered([g EXCEPT !.skip = FALSE])
   BY <2>1, NumAdd, NumKept DEF T!addUserMsg
 <2> QED BY <2>2 DEF T!userEvent, g
<1>3. Numbered(T!endTurn(v)) /\ Numbered(T!loseTurn(v))
 <2> DEFINE g == T!NewTurn(T!finalizeSeg(T!clearPending(v)))
            f == T!finalizeSeg(v)
 <2>1. Numbered(g) /\ Numbered(f) BY <1>1
 <2> HIDE DEF g, f
 <2>2. Numbered([g EXCEPT !.owns = FALSE]) /\ Numbered([f EXCEPT !.owns = FALSE])
   BY <2>1, NumKept
 <2>3. Numbered(T!addMsg([f EXCEPT !.owns = FALSE], "aside", 0)) BY <2>2, NumAdd
 <2> QED BY <2>2, <2>3 DEF T!endTurn, T!loseTurn, g, f, T!None
<1>4. Numbered(T!appendThought(v))
 <2> DEFINE c == T!clearPending(v)
            s == ForThought(c)
 <2>1. Numbered(s) BY <1>1, NumOpened DEF ForThought
 <2> HIDE DEF s
 <2> DEFINE t == [s EXCEPT !.seg.text = @ + 1]
 <2>2. Numbered(t) BY <2>1, NumKept
 <2> HIDE DEF t
 <2>3. \A a, b : Numbered([t EXCEPT !.rows[a] = b]) BY <2>2, NumKept
 <2>4. T!appendThought(v) = T!WithRow(t, t.seg.row, LAMBDA r : [r EXCEPT !.text = t.seg.text, !.painted = t.seg.text])
   BY DEF T!appendThought, ForThought, s, c, t
 <2> QED BY <2>2, <2>3, <2>4 DEF T!WithRow
<1>5. \A n : Numbered(T!appendToken(v, n))
 <2> DEFINE s == ForToken(v)
 <2>1. Numbered(s) BY <1>1, NumOpened DEF ForToken
 <2> HIDE DEF s
 <2> SUFFICES ASSUME NEW n PROVE Numbered(T!appendToken(v, n)) OBVIOUS
 <2> DEFINE t == [s EXCEPT !.seg.text = @ + n, !.raf = TRUE]
 <2>2. Numbered(t) BY <2>1, NumKept
 <2> HIDE DEF t
 <2>3. \A a, b : Numbered([t EXCEPT !.rows[a] = b]) BY <2>2, NumKept
 <2>4. T!appendToken(v, n) = T!WithRow(t, t.seg.row, LAMBDA r : [r EXCEPT !.text = t.seg.text])
   BY DEF T!appendToken, ForToken, s, t
 <2> QED BY <2>2, <2>3, <2>4 DEF T!WithRow
<1>6. \A k, st : Numbered(T!toolRow(v, k, st))
 <2> SUFFICES ASSUME NEW k, NEW st PROVE Numbered(T!toolRow(v, k, st)) OBVIOUS
 <2> DEFINE a == T!activityGroup(v)
            b == IF a.tools[k] = 0 THEN [a EXCEPT !.tools[k] = a.activity] ELSE a
            c == T!WithRow(b, b.tools[k], LAMBDA r : [r EXCEPT !.tools[k] = st])
 <2>1. Numbered(a) BY NumOpened
 <2> HIDE DEF a
 <2>2. Numbered(b) BY <2>1, NumKept
 <2> HIDE DEF b
 <2>3. Numbered(c) BY <2>2, NumKept DEF T!WithRow
 <2> HIDE DEF c
 <2>4. Numbered(T!showPending(c)) BY <2>3, NumOpened
 <2> QED BY <2>3, <2>4 DEF T!toolRow, a, b, c, T!None
<1>7. Numbered(T!addMsg(T!finalizeSeg(v), "note", 0)) /\ Numbered(T!showTodos(v))
  BY <1>1, NumAdd, NumOpened
<1> QED BY <1>2, <1>3, <1>4, <1>5, <1>6, <1>7 DEF T!draw, T!None

------------------------
\* The steps

\* The types of the turn and of the send.
LEMMA TurnFacts ==
  ASSUME TurnInv
  PROVE  /\ turn.log \in Seq(T!Logged) /\ Len(turn.log) \in Nat /\ DOMAIN turn.log = 1 .. Len(turn.log)
         /\ turn.pos \in Nat /\ turn.pos <= Len(turn.log) /\ turn.from \in Nat
         /\ turn.n \in Nat /\ turn.emitted \in Nat
         /\ turn.live \in BOOLEAN /\ turn.attached \in BOOLEAN /\ turn.spoilt \in BOOLEAN
         /\ turn.gone \in BOOLEAN /\ turn.late \in BOOLEAN /\ turn.lost \in BOOLEAN /\ turn.torn \in BOOLEAN
         /\ ask.out \in BOOLEAN /\ ask.moved \in BOOLEAN /\ ask.crossed \in BOOLEAN /\ ask.prompt \in Nat
<1>1. /\ turn.log \in Seq(T!Logged) /\ turn.pos \in Nat /\ turn.from \in Nat
      /\ turn.n \in Nat /\ turn.emitted \in Nat
  BY DEF TurnInv, T!TurnStates
<1>2. /\ turn.live \in BOOLEAN /\ turn.attached \in BOOLEAN /\ turn.spoilt \in BOOLEAN
      /\ turn.gone \in BOOLEAN /\ turn.late \in BOOLEAN /\ turn.lost \in BOOLEAN /\ turn.torn \in BOOLEAN
  BY DEF TurnInv, T!TurnStates
<1>3. ask.out \in BOOLEAN /\ ask.moved \in BOOLEAN /\ ask.crossed \in BOOLEAN /\ ask.prompt \in Nat
  BY DEF TurnInv, T!AskStates
<1>4. Len(turn.log) \in Nat /\ DOMAIN turn.log = 1 .. Len(turn.log) /\ turn.pos <= Len(turn.log)
  BY <1>1, LenProperties DEF TurnInv, T!LogInv
<1> QED BY <1>1, <1>2, <1>3, <1>4

\* The types of what the steps speak of.
LEMMA Facts ==
  ASSUME TInv
  PROVE  /\ TornInv /\ Sound(page, turn.from) /\ page.next \in Nat /\ turn.from <= page.next
         /\ T!Echo \in Nat /\ T!Echo < page.next
         /\ turn.attached = page.owns
<1>1. T!Good(page, turn.from) /\ turn.from <= page.next /\ TurnInv
  BY DEF TInv, T!PageInv, T!AskInv, TurnInv
<1>2. /\ Sound(page, turn.from) /\ page.next \in Nat \ {0} /\ page.owns \in BOOLEAN
      /\ page \in T!Pages /\ page.todo < page.next
  BY <1>1, TurnFacts, FormedIs DEF Sound, T!Formed, T!Good
<1>3. Numbered(page) BY <1>2 DEF T!Pages, Numbered
<1>4. turn.attached = page.owns BY <1>1, <1>2, TurnFacts DEF TInv, T!PageInv
<1>5. T!Echo \in Nat /\ T!Echo < page.next
 <2>1. CASE ask.out /\ ~ask.moved
  <3>1. T!Echo = ask.prompt /\ ask.prompt \in T!Ids(page) BY <2>1 DEF T!Echo, TInv, T!AskInv
  <3> QED BY <3>1, <1>2, FormedIs DEF Sound
 <2>2. CASE ~(ask.out /\ ~ask.moved) BY <2>2, <1>2 DEF T!Echo, T!None
 <2> QED BY <2>1, <2>2
<1> QED BY <1>1, <1>2, <1>3, <1>4, <1>5 DEF TornInv

\* The pairing of the page and a replay, which is what FollowInv says of them.
LEMMA SameIs ==
  ASSUME NEW v, NEW from, Sound(v, from), NEW x \in Nat, x < v.next, NEW d
  PROVE  T!Same(v, from, x, d) <=> Paired(v, from, x, d)
<1>1. ASSUME NEW q, T!Good(q, 1)
      PROVE  Sound(q, 1)
 <2>1. q.next \in Nat \ {0} BY <1>1, FormedIs DEF T!Good
 <2> QED BY <1>1, <2>1 DEF Sound, T!Good
<1> QED BY <1>1 DEF T!Same, Paired, Sound, T!Good

\* The turn's states, with the set of its logs as a parameter.
LEMMA TurnsAre ==
  T!TurnStates = TurnsOf(Seq(T!Logged))
BY DEF T!TurnStates, TurnsOf

\* What the steps make of a turn is a turn.
LEMMA TurnTyped ==
  ASSUME NEW S, NEW t \in TurnsOf(S), NEW l \in S, NEW a \in BOOLEAN, NEW b \in BOOLEAN, NEW s \in BOOLEAN,
         NEW c \in Nat, NEW n \in Nat, NEW f \in Nat
  PROVE  /\ [t EXCEPT !.log = l, !.live = b, !.emitted = c] \in TurnsOf(S)
         /\ [t EXCEPT !.pos = c, !.attached = b] \in TurnsOf(S)
         /\ [t EXCEPT !.spoilt = b] \in TurnsOf(S)
         /\ [t EXCEPT !.live = FALSE, !.gone = TRUE] \in TurnsOf(S)
         /\ [t EXCEPT !.attached = FALSE, !.spoilt = TRUE, !.lost = TRUE, !.late = b] \in TurnsOf(S)
         /\ [t EXCEPT !.late = FALSE, !.torn = b] \in TurnsOf(S)
         /\ [t EXCEPT !.pos = c, !.attached = b, !.from = f, !.late = a, !.lost = FALSE, !.torn = FALSE]
               \in TurnsOf(S)
         /\ [n |-> n, emitted |-> c, live |-> TRUE, log |-> l, pos |-> 0, attached |-> b, from |-> f,
             spoilt |-> s, gone |-> FALSE, late |-> t.late, lost |-> a, torn |-> t.torn] \in TurnsOf(S)
BY DEF TurnsOf

\* The turn goes on: the server emits an event.
LEMMA Emitting ==
  ASSUME TurnInv, NEW e, T!Emit(e)
  PROVE  /\ turn.live = TRUE /\ turn.gone = FALSE /\ page' = page /\ ask' = ask /\ Len(turn.log) > 0
         /\ turn.attached => turn.pos = Len(turn.log)
         /\ turn'.log = Append(turn.log, e) /\ turn'.log[1] = turn.log[1] /\ turn'.pos = turn.pos
         /\ turn'.attached = turn.attached /\ turn'.from = turn.from /\ turn'.spoilt = turn.spoilt
         /\ turn'.lost = turn.lost /\ turn'.torn = turn.torn /\ TurnInv'
<1> DEFINE n == Len(turn.log)
           l == Append(turn.log, e)
           b == e # T!EndEvent
           c == turn.emitted + 1
<1>1. /\ turn.live = TRUE /\ page' = page /\ ask' = ask /\ e \in T!Events \cup {T!EndEvent}
      /\ turn' = [turn EXCEPT !.log = l, !.live = b, !.emitted = c]
      /\ turn.attached => turn.pos = n
  BY TurnFacts DEF T!Emit
<1>2. turn \in T!TurnStates /\ turn.log \in Seq(T!Logged) /\ n \in Nat /\ turn.pos \in Nat /\ turn.pos <= n
  BY TurnFacts DEF TurnInv
<1>3. /\ turn'.log = l /\ turn'.live = b /\ turn'.pos = turn.pos /\ turn'.attached = turn.attached
      /\ turn'.from = turn.from /\ turn'.spoilt = turn.spoilt
  BY <1>1, <1>2 DEF T!TurnStates
<1>4. turn'.gone = turn.gone /\ turn'.lost = turn.lost /\ turn'.torn = turn.torn
  BY <1>1, <1>2 DEF T!TurnStates
<1>5. e \in T!Logged /\ l \in Seq(T!Logged) /\ c \in Nat /\ b \in BOOLEAN
  BY <1>1, <1>2, LoggedIs, TurnFacts
<1>6. n > 0 /\ turn.gone = FALSE BY <1>1, TurnFacts DEF TurnInv, T!LogInv
<1>7. /\ Len(l) = n + 1 /\ DOMAIN l = 1 .. n + 1 /\ l[n + 1] = e /\ \A i \in 1 .. n : l[i] = turn.log[i]
      /\ l[1] = turn.log[1] /\ DOMAIN turn.log = 1 .. n
  BY <1>2, <1>5, <1>6
<1>8. turn' \in T!TurnStates
 <2> HIDE DEF l, b, c
 <2> QED BY <1>1, <1>2, <1>5, TurnsAre, TurnTyped
<1> HIDE DEF n, l, c
<1>9. T!LogInv'
 <2>1. \A i \in 1 .. n : turn.log[i] # T!EndEvent BY <1>1, <1>7 DEF TurnInv, T!LogInv
 <2>2. ASSUME NEW i \in DOMAIN turn'.log
       PROVE  /\ \/ turn'.log[i] \in T!Events \cup {T!EndEvent}
                 \/ i = 1 /\ turn'.log[i].id \in Nat /\ turn'.log[i] = T!UserEvent(turn'.log[i].id)
              /\ turn'.log[i] = T!EndEvent => i = n + 1 /\ ~turn'.live
  <3>1. CASE i = n + 1 BY <1>1, <1>3, <1>7, <3>1
  <3>2. CASE i \in 1 .. n BY <1>3, <1>7, <2>1, <3>2 DEF TurnInv, T!LogInv
  <3> QED BY <1>2, <1>3, <1>7, <3>1, <3>2
 <2>3. ~turn'.live => turn'.log[n + 1] = T!EndEvent BY <1>3, <1>7
 <2>4. n + 1 > 0 /\ turn'.pos <= n + 1 /\ turn'.pos < n + 1 BY <1>2, <1>3
 <2>5. turn'.lost => ~turn'.attached BY <1>3, <1>4 DEF TurnInv, T!LogInv
 <2> QED BY <1>3, <1>4, <1>6, <1>7, <2>2, <2>3, <2>4, <2>5 DEF T!LogInv
<1>10. ask' \in T!AskStates BY <1>1 DEF TurnInv
<1> QED BY <1>1, <1>3, <1>4, <1>6, <1>7, <1>8, <1>9, <1>10 DEF TurnInv, n, l

\* The next event of the log is read.
LEMMA Delivering ==
  ASSUME TurnInv, T!Deliver, NEW e, e = turn.log[turn.pos + 1]
  PROVE  /\ turn.attached = TRUE /\ page' = T!draw(page, e) /\ ask' = ask /\ T!Echo' = T!Echo
         /\ turn.pos + 1 \in DOMAIN turn.log
         /\ turn'.log = turn.log /\ turn'.pos = turn.pos + 1 /\ turn'.attached = (e # T!EndEvent)
         /\ turn'.from = turn.from /\ turn'.spoilt = turn.spoilt /\ turn'.torn = turn.torn /\ TurnInv'
<1> DEFINE n == Len(turn.log)
           b == e # T!EndEvent
<1>1. /\ turn.attached = TRUE /\ turn.pos < n /\ page' = T!draw(page, e) /\ ask' = ask /\ turn.gone = FALSE
      /\ turn' = [turn EXCEPT !.pos = @ + 1, !.attached = b]
  BY TurnFacts DEF T!Deliver
<1>2. turn \in T!TurnStates /\ turn.log \in Seq(T!Logged) /\ n \in Nat /\ turn.pos \in Nat
  BY TurnFacts DEF TurnInv
<1>3. /\ turn'.log = turn.log /\ turn'.live = turn.live /\ turn'.pos = turn.pos + 1
      /\ turn'.attached = b /\ turn'.from = turn.from /\ turn'.spoilt = turn.spoilt
  BY <1>1, <1>2 DEF T!TurnStates
<1>4. turn'.gone = FALSE /\ turn'.lost = turn.lost /\ turn'.torn = turn.torn
  BY <1>1, <1>2 DEF T!TurnStates
<1>5. turn' \in T!TurnStates
 <2>1. turn.pos + 1 \in Nat /\ b \in BOOLEAN BY <1>2
 <2> HIDE DEF b
 <2> QED BY <1>1, <1>2, <2>1, TurnsAre, TurnTyped
<1>6. turn.pos + 1 \in DOMAIN turn.log /\ turn.pos + 1 \in 1 .. n /\ DOMAIN turn.log = 1 .. n
  BY <1>1, <1>2
<1>7. T!Echo' = T!Echo /\ ask' \in T!AskStates BY <1>1 DEF T!Echo, TurnInv
<1> HIDE DEF n, b
<1>8. T!LogInv'
 <2>1. e = T!EndEvent => turn.pos + 1 = n /\ ~turn.live BY <1>6 DEF TurnInv, T!LogInv, n
 <2>2. turn.pos + 1 = n => (b <=> turn.live)
  <3>1. n > 0 BY <1>1, <1>2
  <3> QED BY <1>1, <2>1, <3>1 DEF TurnInv, T!LogInv, n, b
 <2>3. turn'.pos <= n /\ n > 0 BY <1>1, <1>2, <1>3
 <2>4. ~turn'.lost BY <1>1, <1>4 DEF TurnInv, T!LogInv
 <2>5. turn'.pos = n /\ ~turn'.gone => (turn'.attached <=> turn'.live) BY <1>3, <2>2
 <2>6. ~turn'.live => turn.log[n] = T!EndEvent BY <1>1, <1>3, <2>3 DEF TurnInv, T!LogInv, n
 <2> QED BY <1>3, <1>4, <2>3, <2>4, <2>5, <2>6 DEF TurnInv, T!LogInv, n
<1> QED BY <1>1, <1>3, <1>4, <1>5, <1>6, <1>7, <1>8 DEF TurnInv, b

\* A turn begins.
LEMMA Starting ==
  ASSUME TurnInv, NEW e \in T!Logged, e # T!EndEvent,
         e \in T!Events \/ (e.id \in Nat /\ e = T!UserEvent(e.id)),
         NEW b \in BOOLEAN, NEW f \in Nat, NEW s \in BOOLEAN, T!NextTurn(<<e>>, b, f, s)
  PROVE  /\ turn.attached = FALSE /\ turn' \in T!TurnStates /\ turn'.log = <<e>> /\ turn'.pos = 0
         /\ turn'.attached = b /\ turn'.from = f /\ turn'.spoilt = s /\ turn'.log[1] = e
         /\ turn'.lost = (turn.lost /\ ~b) /\ turn'.torn = turn.torn /\ T!LogInv'
<1> DEFINE o == turn.lost /\ ~b
<1>1. /\ ~turn.live /\ ~turn.attached
      /\ turn' = [n |-> turn.n + 1, emitted |-> turn.emitted + 1, live |-> TRUE, log |-> <<e>>, pos |-> 0,
                  attached |-> b, from |-> f, spoilt |-> s, gone |-> FALSE,
                  late |-> turn.late, lost |-> o, torn |-> turn.torn]
  BY DEF T!NextTurn
<1>2. turn' \in T!TurnStates
 <2>1. turn.n + 1 \in Nat /\ turn.emitted + 1 \in Nat /\ <<e>> \in Seq(T!Logged) /\ o \in BOOLEAN
       /\ turn \in T!TurnStates
   BY TurnFacts DEF TurnInv
 <2> HIDE DEF o
 <2> QED BY <1>1, <2>1, TurnsAre, TurnTyped
<1>3. /\ turn'.log = <<e>> /\ turn'.pos = 0 /\ turn'.attached = b /\ turn'.live = TRUE
      /\ turn'.from = f /\ turn'.spoilt = s /\ turn'.gone = FALSE /\ turn'.lost = o /\ turn'.torn = turn.torn
  BY <1>1
<1>4. Len(<<e>>) = 1 /\ DOMAIN <<e>> = {1} /\ <<e>>[1] = e OBVIOUS
<1>5. turn'.lost => ~turn'.attached BY <1>3, Zenon
<1>6. T!LogInv'
 <2>1. turn'.pos < Len(turn'.log) /\ DOMAIN turn'.log = {1} BY <1>3, <1>4
 <2> QED BY <1>3, <1>4, <1>5, <2>1 DEF T!LogInv
<1> QED BY <1>1, <1>2, <1>3, <1>4, <1>6, TurnFacts

\* The other steps change flags of the turn.
LEMMA TurnMarked ==
  ASSUME TurnInv, ask' \in T!AskStates, turn' \in T!TurnStates, turn'.log = turn.log, NEW b \in BOOLEAN,
         \/ turn' = turn
         \/ turn' = [turn EXCEPT !.spoilt = b] /\ (turn.spoilt => b)
         \/ turn' = [turn EXCEPT !.live = FALSE, !.gone = TRUE]
         \/ turn' = [turn EXCEPT !.attached = FALSE, !.spoilt = TRUE, !.lost = TRUE, !.late = b] /\ turn.gone
         \/ turn' = [turn EXCEPT !.late = FALSE, !.torn = b]
  PROVE  TurnInv'
<1>1. turn \in T!TurnStates BY DEF TurnInv
<1>2. CASE turn' = turn BY <1>2 DEF TurnInv, T!LogInv
<1>3. CASE turn' = [turn EXCEPT !.spoilt = b] /\ (turn.spoilt => b)
 <2>1. /\ turn'.pos = turn.pos /\ turn'.live = turn.live /\ turn'.gone = turn.gone /\ turn'.attached = turn.attached
       /\ turn'.lost = turn.lost /\ (turn.spoilt => turn'.spoilt)
   BY <1>1, <1>3 DEF T!TurnStates
 <2> QED BY <2>1 DEF TurnInv, T!LogInv
<1>4. CASE turn' = [turn EXCEPT !.live = FALSE, !.gone = TRUE]
 <2>1. /\ turn'.pos = turn.pos /\ ~turn'.live /\ turn'.gone /\ turn'.attached = turn.attached
       /\ turn'.lost = turn.lost /\ turn'.spoilt = turn.spoilt
   BY <1>1, <1>4 DEF T!TurnStates
 <2> QED BY <2>1 DEF TurnInv, T!LogInv
<1>5. CASE turn' = [turn EXCEPT !.attached = FALSE, !.spoilt = TRUE, !.lost = TRUE, !.late = b] /\ turn.gone
 <2>1. /\ turn'.pos = turn.pos /\ turn'.live = turn.live /\ turn'.gone = TRUE /\ turn'.attached = FALSE
       /\ turn'.spoilt = TRUE
   BY <1>1, <1>5, TurnFacts DEF T!TurnStates
 <2>2. ~turn.live BY <1>5 DEF TurnInv, T!LogInv
 <2> QED BY <2>1, <2>2 DEF TurnInv, T!LogInv
<1>6. CASE turn' = [turn EXCEPT !.late = FALSE, !.torn = b]
 <2>1. /\ turn'.pos = turn.pos /\ turn'.live = turn.live /\ turn'.gone = turn.gone /\ turn'.attached = turn.attached
       /\ turn'.lost = turn.lost /\ turn'.spoilt = turn.spoilt
   BY <1>1, <1>6 DEF T!TurnStates
 <2> QED BY <2>1 DEF TurnInv, T!LogInv
<1> QED BY <1>2, <1>3, <1>4, <1>5, <1>6

\* Whatever a view shows, a step but its reopening leaves it numbered, and torn if it was.
LEMMA TornStep ==
  ASSUME TornInv, T!Next, ~T!Reopen
  PROVE  TornInv' /\ (turn.torn => turn'.torn)
<1>1. TurnInv /\ Numbered(page) /\ turn \in T!TurnStates /\ ask \in T!AskStates
  BY DEF TornInv, TurnInv
<1>2. ASSUME NEW e, T!Emit(e)
      PROVE  TornInv' /\ turn'.torn = turn.torn
  BY <1>1, <1>2, Emitting DEF TornInv
<1>3. ASSUME T!Deliver
      PROVE  TornInv' /\ turn'.torn = turn.torn
 <2> DEFINE e == turn.log[turn.pos + 1]
 <2>1. /\ TurnInv' /\ page' = T!draw(page, e) /\ turn'.torn = turn.torn /\ turn.pos + 1 \in DOMAIN turn.log
   BY <1>1, <1>3, Delivering
 <2>3. e \in T!Logged BY <1>1, <2>1, TurnFacts
 <2> HIDE DEF e
 <2>2. Numbered(page') BY <1>1, <2>1, <2>3, NumDraw DEF T!Logged
 <2> QED BY <2>1, <2>2 DEF TornInv
<1>4. ASSUME T!Announced \/ T!SendStarted
      PROVE  TornInv' /\ turn'.torn = turn.torn
 <2>1. \E b \in BOOLEAN, f \in Nat, s \in BOOLEAN, e \in T!Logged :
          /\ T!NextTurn(<<e>>, b, f, s) /\ e # T!EndEvent
          /\ e \in T!Events \/ (e.id \in Nat /\ e = T!UserEvent(e.id))
  <3>0. page.next \in Nat BY <1>1 DEF Numbered
  <3>1. CASE T!Announced
   <4>1. T!NextTurn(<<NoteEvent>>, TRUE, page.next, turn.lost)
     BY <3>1, Zenon DEF T!Announced, NoteEvent, T!None
   <4>2. turn.lost \in BOOLEAN /\ NoteEvent \in T!Logged /\ NoteEvent # T!EndEvent
     BY <1>1, TurnFacts, NoteLogged, LoggedIs, EventKinds
   <4> QED BY <3>0, <4>1, <4>2, NoteLogged
  <3>2. CASE T!SendStarted
   <4> DEFINE e == T!UserEvent(ask.prompt)
              f == IF ask.moved \/ ask.crossed THEN page.next ELSE ask.prompt
              b == ~ask.moved
   <4>1. T!NextTurn(<<e>>, b, f, ask.crossed) BY <3>2 DEF T!SendStarted
   <4>2. /\ e \in T!Logged /\ e # T!EndEvent /\ e.id \in Nat /\ e = T!UserEvent(e.id) /\ f \in Nat /\ b \in BOOLEAN
         /\ ask.crossed \in BOOLEAN
     BY <1>1, <3>0, LoggedIs, EventKinds, TurnFacts
   <4> HIDE DEF e, f, b
   <4> QED BY <4>1, <4>2
  <3> QED BY <1>4, <3>1, <3>2
 <2>2. turn' \in T!TurnStates /\ T!LogInv' /\ turn'.torn = turn.torn BY <1>1, <2>1, Starting
 <2>3. ask' \in T!AskStates BY <1>1, <1>4, TurnFacts DEF T!Announced, T!SendStarted, T!AskStates
 <2>4. Numbered(page')
  <3>1. \A q : Numbered(q) => Numbered(T!showPending(q)) BY NumOpened
  <3> QED BY <1>1, <1>4, <3>1, NumKept DEF T!Announced, T!SendStarted
 <2> QED BY <2>2, <2>3, <2>4 DEF TornInv, TurnInv
<1>5. ASSUME T!Frame \/ T!Send \/ T!SendRefused \/ T!Aside
      PROVE  TornInv' /\ turn'.torn = turn.torn
 <2>1. turn' = turn BY <1>5 DEF T!Frame, T!Send, T!SendRefused, T!Aside
 <2>2. ask' \in T!AskStates
  <3>1. CASE T!Frame \/ T!Aside BY <1>1, <3>1 DEF T!Frame, T!Aside
  <3>2. CASE T!Send
   <4>1. page.next \in Nat BY <1>1 DEF Numbered
   <4> QED BY <3>2, <4>1 DEF T!Send, T!AskStates
  <3>3. CASE T!SendRefused BY <1>1, <3>3 DEF T!SendRefused, T!AskStates
  <3> QED BY <1>5, <3>1, <3>2, <3>3
 <2>3. Numbered(page')
  <3>1. CASE T!Frame
   <4> DEFINE v == [page EXCEPT !.raf = FALSE]
   <4>1. Numbered(v) BY <1>1, NumKept
   <4> HIDE DEF v
   <4>2. \A i : Numbered(T!painted(v, i)) BY <4>1, NumTaken
   <4> QED BY <3>1, <4>1, <4>2 DEF T!Frame, v
  <3>2. CASE T!Send \/ T!Aside
   <4>1. \A k, p : Numbered(T!addMsg(page, k, p)) BY <1>1, NumAdd
   <4> DEFINE q == T!addMsg(page, "user", page.next)
   <4>3. \/ page' = [q EXCEPT !.seg = T!NoSeg, !.activity = 0, !.turnTop = 0, !.skip = TRUE]
         \/ page' = T!addMsg(page, "aside", 0)
     BY <3>2 DEF T!Send, T!Aside, T!None
   <4>4. Numbered(q) BY <4>1
   <4> HIDE DEF q
   <4>5. Numbered([q EXCEPT !.seg = T!NoSeg, !.activity = 0, !.turnTop = 0, !.skip = TRUE])
     BY <4>4, NumKept
   <4> QED BY <4>1, <4>3, <4>5
  <3>3. CASE T!SendRefused BY <1>1, <3>3, NumTaken, NumKept DEF T!SendRefused
  <3> QED BY <1>5, <3>1, <3>2, <3>3
 <2>4. TurnInv' BY <1>1, <2>1, <2>2, TurnMarked
 <2> QED BY <2>1, <2>3, <2>4 DEF TornInv
<1>6. ASSUME T!SendFailed \/ T!Vanish \/ T!StreamGone \/ T!LateNews
      PROVE  TornInv' /\ (turn.torn => turn'.torn)
 <2>1. PICK b \in BOOLEAN :
          \/ turn' = [turn EXCEPT !.spoilt = b] /\ (turn.spoilt => b)
          \/ turn' = [turn EXCEPT !.live = FALSE, !.gone = TRUE]
          \/ turn' = [turn EXCEPT !.attached = FALSE, !.spoilt = TRUE, !.lost = TRUE, !.late = b] /\ turn.gone
          \/ turn' = [turn EXCEPT !.late = FALSE, !.torn = b] /\ (turn.torn => b)
  <3>1. \A again \in BOOLEAN : (turn.late \/ again) \in BOOLEAN OBVIOUS
  <3>2. (turn.spoilt \/ ask.moved) \in BOOLEAN /\ (turn.torn \/ turn.attached) \in BOOLEAN
    OBVIOUS
  <3> QED BY <1>6, <3>1, <3>2 DEF T!SendFailed, T!Vanish, T!StreamGone, T!LateNews
 <2>2. turn' \in T!TurnStates
  <3> DEFINE S == Seq(T!Logged)
  <3>1. turn.log \in S /\ turn.pos \in Nat /\ turn \in TurnsOf(S) BY <1>1, TurnFacts, TurnsAre
  <3> HIDE DEF S
  <3>2. /\ [turn EXCEPT !.spoilt = b] \in TurnsOf(S) /\ [turn EXCEPT !.live = FALSE, !.gone = TRUE] \in TurnsOf(S)
        /\ [turn EXCEPT !.attached = FALSE, !.spoilt = TRUE, !.lost = TRUE, !.late = b] \in TurnsOf(S)
        /\ [turn EXCEPT !.late = FALSE, !.torn = b] \in TurnsOf(S)
    BY <3>1, TurnTyped
  <3> QED BY <2>1, <3>2, TurnsAre DEF S
 <2>3. turn'.log = turn.log /\ turn'.pos = turn.pos /\ (turn.torn => turn'.torn)
   BY <1>1, <2>1 DEF T!TurnStates
 <2>4. ask' \in T!AskStates
   BY <1>1, <1>6 DEF T!SendFailed, T!Vanish, T!StreamGone, T!LateNews, T!AskStates
 <2>5. Numbered(page')
   BY <1>1, <1>6, NumTaken, NumDraw DEF T!SendFailed, T!Vanish, T!StreamGone, T!LateNews
 <2>6. TurnInv' BY <1>1, <2>1, <2>2, <2>3, <2>4, TurnMarked
 <2> QED BY <2>3, <2>5, <2>6 DEF TornInv
<1> QED BY <1>2, <1>3, <1>4, <1>5, <1>6 DEF T!Next

\* The turn goes on: the server emits an event.
LEMMA StepEmit ==
  ASSUME TInv, TornInv', NEW d, T!FollowInv(d), NEW e, T!Emit(e)
  PROVE  TInv' /\ T!FollowInv(d)' /\ turn'.pos = turn.pos /\ turn'.log = Append(turn.log, e)
<1>1. /\ turn.live = TRUE /\ turn.gone = FALSE /\ page' = page /\ ask' = ask /\ Len(turn.log) > 0
      /\ turn.attached => turn.pos = Len(turn.log)
      /\ turn'.log = Append(turn.log, e) /\ turn'.log[1] = turn.log[1] /\ turn'.pos = turn.pos
      /\ turn'.attached = turn.attached /\ turn'.from = turn.from /\ turn'.spoilt = turn.spoilt
      /\ turn'.lost = turn.lost
  BY Facts, Emitting DEF TornInv
<1>2. T!PageInv' BY <1>1 DEF TInv, T!PageInv, TornInv, TurnInv
<1>3. T!AskInv' BY <1>1 DEF TInv, T!AskInv
<1>4. T!FollowInv(d)'
 <2>1. T!Echo' = T!Echo BY <1>1 DEF T!Echo
 <2>2. turn.attached => turn.pos # 0 /\ ~T!Echoed BY <1>1 DEF T!Echoed
 <2>3. ~turn.attached => turn.pos # Len(turn.log) BY <1>1 DEF TInv, T!LogInv
 <2> QED BY <1>1, <2>1, <2>2, <2>3 DEF T!FollowInv
<1> QED BY <1>1, <1>2, <1>3, <1>4 DEF TInv, TornInv, TurnInv

\* The echo is where it was when only rows that are no prompts come and go.
LEMMA AskKept ==
  ASSUME TInv, turn.attached, NEW q, Moved(page, turn.from, q), page'.rows = q.rows,
         ask' = ask, turn'.from = turn.from, turn'.log = turn.log
  PROVE  T!AskInv'
<1>1. CASE ask.out /\ ~ask.moved
 <2>1. Steady(page, q) /\ Rowed(q) BY FormedIs DEF Moved, Sound
 <2>2. /\ T!Ids(page') = T!Ids(q) /\ \A a : T!Line(page', a) = T!Line(q, a)
       /\ \A a, c : T!Before(page', a, c) <=> T!Before(q, a, c)
   BY <2>1, SameRows
 <2>3. /\ ask \in T!AskStates /\ ask.prompt \in T!Ids(page) /\ T!Line(page, ask.prompt).kind = "user"
       /\ \A a \in T!Ids(page) : T!Line(page, a).kind = "user" => ~T!Before(page, ask.prompt, a)
       /\ turn.log[1].k # "user" /\ ask.crossed /\ ask.prompt < turn.from
   BY <1>1 DEF TInv, T!AskInv
 <2>4. ask.prompt \in T!Ids(q) /\ T!Line(q, ask.prompt).kind = "user" BY <2>1, <2>3 DEF Steady
 <2>5. \A a \in T!Ids(q) : T!Line(q, a).kind = "user" => ~T!Before(q, ask.prompt, a)
   BY <2>1, <2>3 DEF Steady
 <2> QED BY <2>2, <2>3, <2>4, <2>5 DEF T!AskInv
<1>2. CASE ~(ask.out /\ ~ask.moved) BY <1>2 DEF TInv, T!AskInv
<1> QED BY <1>1, <1>2

\* An event of the turn is drawn.
LEMMA DeliverEvent ==
  ASSUME TInv, TornInv', NEW d, T!FollowInv(d), T!Deliver, NEW e, e = turn.log[turn.pos + 1],
         e \in T!Events, NEW dd, dd = T!draw(d, e)
  PROVE  TInv' /\ T!FollowInv(dd)'
<1>1. /\ turn.attached = TRUE /\ page' = T!draw(page, e) /\ ask' = ask /\ T!Echo' = T!Echo
      /\ turn'.log = turn.log /\ turn'.pos = turn.pos + 1 /\ turn'.attached = TRUE
      /\ turn'.from = turn.from /\ turn'.spoilt = turn.spoilt
  BY Facts, Delivering, EventKinds DEF TornInv
<1>2. /\ Sound(page, turn.from) /\ turn.pos \in Nat /\ T!Echo \in Nat /\ T!Echo < page.next /\ Owning(page)
      /\ page.owns = TRUE
  BY <1>1, Facts, TurnFacts DEF Owning, TornInv
<1>3. Moved(page, turn.from, page') BY <1>1, <1>2, DrawIs
<1>4. Sound(page', turn.from) /\ page'.owns = TRUE /\ page.next <= page'.next
  BY <1>2, <1>3 DEF Moved, Steady
<1>5. turn'.pos # 0 BY <1>1, <1>2
<1>6. T!PageInv' BY <1>1, <1>4, <1>5 DEF Sound, T!PageInv, TornInv, TurnInv, T!Good
<1>7. T!AskInv' BY <1>1, <1>3, AskKept
<1>8. ASSUME ~turn.spoilt
      PROVE  Paired(page', turn.from, T!Echo, dd)
 <2>1. ~T!Echoed
  <3>1. turn.pos = 0 => turn.log[1] = e OBVIOUS
  <3> QED BY <3>1, EventKinds DEF T!Echoed
 <2>2. T!Same(page, turn.from, T!Echo, d) BY <1>1, <1>8, <2>1 DEF T!FollowInv
 <2>3. Paired(page, turn.from, T!Echo, d) BY <1>2, <2>2, SameIs
 <2> QED BY <1>1, <1>2, <2>3, PairDraw
<1>9. T!FollowInv(dd)'
 <2>1. ~turn.spoilt => T!Same(page', turn.from, T!Echo, dd)
   BY <1>2, <1>4, <1>8, SameIs DEF Paired
 <2> QED BY <1>1, <1>5, <2>1 DEF T!FollowInv
<1> QED BY <1>1, <1>6, <1>7, <1>9 DEF TInv, TornInv, TurnInv

LEMMA UserDrawn ==
  ASSUME NEW v, NEW n
  PROVE  T!draw(v, T!UserEvent(n)) = T!userEvent(v, n)
<1> DEFINE e == T!UserEvent(n)
<1>1. e.k = "user" /\ e.id = n BY EventKinds
<1> HIDE DEF e
<1>2. T!draw(v, e) = T!userEvent(v, n) BY <1>1 DEF T!draw
<1> QED BY <1>2 DEF e

LEMMA EndDrawn ==
  ASSUME NEW v
  PROVE  T!draw(v, T!EndEvent) = T!endTurn(v)
<1> DEFINE e == T!EndEvent
<1>1. e.k = "end" BY EventKinds
<1> HIDE DEF e
<1>2. T!draw(v, e) = T!endTurn(v) BY <1>1 DEF T!draw
<1> QED BY <1>2 DEF e

\* Rows of a kind with one prompt say the same.
LEMMA SaysAlike ==
  ASSUME NEW a, NEW b, NEW kind, NEW p
  PROVE  T!Says(T!Row(a, kind, p)) = T!Says(T!Row(b, kind, p))
BY RowSays, Zenon

\* The replay's first row is the prompt.
LEMMA FirstDrawn ==
  ASSUME NEW p \in Nat, NEW u, u = T!addMsg(T!Fresh, "user", p)
  PROVE  /\ Sound(u, 1) /\ T!Idle(u) /\ u.owns = TRUE
         /\ T!Mine(u, 1, 0) = {1} /\ T!Says(T!Line(u, 1)) = T!Says(T!Row(0, "user", p))
<1> DEFINE v == T!Fresh
<1>1. Sound(v, 1) /\ T!Idle(v) /\ v.owns = TRUE /\ v.rows = <<>> /\ ~v.skip /\ v.next = 1
  BY FreshIs
<1>2. T!Ids(v) = {} BY <1>1 DEF T!Ids
<1> HIDE DEF v
<1>3. T!Formed(v) /\ "user" \in T!Kinds BY <1>1 DEF Sound, T!Kinds
<1>4. /\ T!Formed(u) /\ Placed(v, u, T!Row(1, "user", p), 0) /\ Rest(u) = Rest(v) /\ u.next = 2
  BY <1>1, <1>3, AddMsgIs DEF v
<1>5. u = T!userEvent(v, p) /\ Sound(u, 1) BY <1>1, <1>2, UserIs DEF v
<1>7. u.owns = TRUE /\ T!Idle(u) BY <1>1, <1>4 DEF Rest, T!Idle
<1>8. T!Row(1, "user", p).id = 1 /\ T!Row(1, "user", p).kind = "user" BY <1>3, RowIs
<1>9. T!Ids(u) = {1} /\ T!Line(u, 1) = T!Row(1, "user", p) BY <1>2, <1>4, <1>8 DEF Placed
<1>10. T!Mine(u, 1, 0) = {1} BY <1>8, <1>9 DEF T!Mine
<1>11. T!Says(T!Line(u, 1)) = T!Says(T!Row(0, "user", p)) BY <1>9, SaysAlike
<1> QED BY <1>5, <1>7, <1>10, <1>11

\* The turn's prompt is drawn, or was.
LEMMA DeliverUser ==
  ASSUME TInv, TornInv', NEW d, T!FollowInv(d), d = T!Fresh, T!Deliver, turn.pos = 0, NEW p \in Nat,
         turn.log[1] = T!UserEvent(p), NEW dd, dd = T!draw(d, T!UserEvent(p))
  PROVE  TInv' /\ T!FollowInv(dd)'
<1>1. /\ turn.attached = TRUE /\ page' = T!draw(page, T!UserEvent(p))
      /\ ask' = ask /\ T!Echo' = T!Echo
      /\ turn'.log = turn.log /\ turn'.pos = 1 /\ turn'.attached = TRUE
      /\ turn'.from = turn.from /\ turn'.spoilt = turn.spoilt
 <2>1. turn.log[1] # T!EndEvent /\ turn.log[1] = turn.log[turn.pos + 1] /\ turn.pos + 1 = 1
   BY EventKinds
 <2> QED BY <2>1, Facts, Delivering DEF TornInv
<1> DEFINE q == T!NewTurn(page)
<1>2. /\ Sound(q, turn.from) /\ T!Idle(q) /\ q.rows = page.rows /\ q.next = page.next /\ q.skip = page.skip
      /\ q.owns = TRUE /\ T!Ids(q) = T!Ids(page) /\ \A a : T!Line(q, a) = T!Line(page, a)
      /\ T!userEvent(page, p) = T!userEvent(q, p)
 <2>1. /\ Sound(page, turn.from) /\ page.owns = TRUE /\ page.seg = T!NoSeg
       /\ \A a \in T!Ids(page) : T!Line(page, a).kind = "bot" => a < turn.from
   BY <1>1, Facts DEF TInv, T!PageInv
 <2>2. q = T!NewTurn(page) OBVIOUS
 <2> HIDE DEF q
 <2> QED BY <2>1, <2>2, Renewed
<1> HIDE DEF q
<1>3. ~(ask.out /\ ~ask.moved)
 <2>1. turn.log[1].k = "user" BY EventKinds
 <2> QED BY <1>1, <2>1 DEF TInv, T!AskInv
<1>4. T!AskInv' BY <1>1, <1>3 DEF TInv, T!AskInv
<1>5. page' = T!userEvent(q, p) /\ dd = T!userEvent(d, p) BY <1>1, <1>2, UserDrawn
<1>6. /\ Sound(page', turn.from) /\ page'.owns = TRUE
      /\ q.skip => page' = [q EXCEPT !.skip = FALSE]
      /\ ~q.skip /\ (\A a \in T!Ids(q) : T!Line(q, a).kind = "aside") => page' = T!addMsg(q, "user", p)
  BY <1>2, <1>5, UserIs
<1>7. T!PageInv' BY <1>1, <1>6 DEF Sound, T!PageInv, TornInv, TurnInv, T!Good
<1>8. Sound(d, 1) /\ T!Idle(d) /\ dd = T!addMsg(d, "user", p) /\ d.owns = TRUE
 <2>1. T!Ids(T!Fresh) = {} BY FreshIs DEF T!Ids
 <2> QED BY <1>5, <2>1, FreshIs, UserIs
<1>9. T!Echo = 0 BY <1>3 DEF T!Echo, T!None
<1>10. ASSUME ~turn.spoilt, T!Echoed
       PROVE  Paired(page', turn.from, 0, dd)
 <2>1. /\ q.skip /\ turn.from > 0 /\ T!Mine(page, turn.from, 0) = {turn.from}
       /\ T!Says(T!Line(page, turn.from)) = T!Says(T!Row(0, "user", turn.from))
   BY <1>2, <1>10 DEF T!Echoed, T!None
 <2>2. p = turn.from
  <3>1. T!UserEvent(p) = T!UserEvent(turn.from) BY <1>10 DEF T!Echoed
  <3>2. T!UserEvent(p).id = p /\ T!UserEvent(turn.from).id = turn.from BY EventKinds
  <3> QED BY <3>1, <3>2
 <2>3. page' = [q EXCEPT !.skip = FALSE] /\ q \in T!Pages
   BY <1>2, <1>6, <2>1, FormedIs DEF Sound
 <2>4. /\ page'.rows = q.rows /\ page'.seg = q.seg /\ page'.activity = q.activity
       /\ page'.turnTop = q.turnTop /\ page'.tools = q.tools
   BY <2>3 DEF T!Pages
 <2>5. T!Idle(page') BY <1>2, <2>4 DEF T!Idle
 <2>6. T!Mine(page', turn.from, 0) = {turn.from} /\ T!Line(page', turn.from) = T!Line(page, turn.from)
  <3>1. T!Ids(page') = T!Ids(page) /\ \A a : T!Line(page', a) = T!Line(page, a)
   <4>1. Rowed(q) BY <1>2, FormedIs DEF Sound
   <4> QED BY <1>2, <2>4, <4>1, SameRows
  <3> QED BY <2>1, <3>1 DEF T!Mine
 <2>7. /\ Sound(dd, 1) /\ T!Idle(dd) /\ dd.owns = TRUE
       /\ T!Mine(dd, 1, 0) = {1} /\ T!Says(T!Line(dd, 1)) = T!Says(T!Row(0, "user", p))
   BY <1>8, FirstDrawn
 <2>8. T!Says(T!Line(page', turn.from)) = T!Says(T!Line(dd, 1)) /\ page'.owns = dd.owns
   BY <1>6, <2>1, <2>2, <2>6, <2>7
 <2> QED BY <1>6, <2>5, <2>6, <2>7, <2>8, PairFirst
<1>11. ASSUME ~turn.spoilt, ~T!Echoed
       PROVE  Paired(page', turn.from, 0, dd)
 <2>1. turn.log[1].k = "user" BY EventKinds
 <2>2. ~q.skip /\ \A a \in T!Ids(q) : T!Line(q, a).kind = "aside"
   BY <1>1, <1>2, <1>11, <2>1 DEF T!FollowInv
 <2>3. page' = T!addMsg(q, "user", p) BY <1>6, <2>2
 <2>4. T!Mine(q, turn.from, 0) = {} /\ Owning(q) /\ 0 < q.next
   BY <1>2, <2>2, FormedIs DEF T!Mine, Owning, Sound
 <2>5. Paired(q, turn.from, 0, d) BY <1>2, <2>4, PairEmpty
 <2> QED BY <1>8, <2>3, <2>5, PairAdd
<1>12. T!FollowInv(dd)'
 <2>1. ~turn.spoilt => T!Same(page', turn.from, 0, dd) BY <1>6, <1>10, <1>11, SameIs DEF Paired
 <2> QED BY <1>1, <1>9, <2>1 DEF T!FollowInv
<1> QED BY <1>4, <1>7, <1>12 DEF TInv, TornInv, TurnInv

LEMMA DeliverEnd ==
  ASSUME TInv, TornInv', NEW d, T!FollowInv(d), T!Deliver, turn.log[turn.pos + 1] = T!EndEvent,
         NEW dd, dd = T!draw(d, T!EndEvent)
  PROVE  TInv' /\ T!FollowInv(dd)'
<1>1. /\ turn.attached = TRUE /\ page' = T!draw(page, T!EndEvent)
      /\ ask' = ask /\ T!Echo' = T!Echo /\ turn.pos + 1 \in DOMAIN turn.log
      /\ turn'.log = turn.log /\ turn'.pos = turn.pos + 1 /\ turn'.attached = FALSE
      /\ turn'.from = turn.from /\ turn'.spoilt = turn.spoilt
  BY Facts, Delivering DEF TornInv
<1>2. Sound(page, turn.from) /\ turn.pos \in Nat /\ T!Echo \in Nat /\ T!Echo < page.next
  BY Facts, TurnFacts DEF TornInv
<1>3. page' = T!endTurn(page) /\ dd = T!endTurn(d) BY <1>1, EndDrawn
<1> DEFINE f == T!finalizeSeg(T!clearPending(page))
<1>4. /\ Moved(page, turn.from, f) /\ page'.rows = f.rows /\ page'.next = f.next
      /\ Sound(page', turn.from) /\ T!Idle(page') /\ ~page'.owns
      /\ \A a \in T!Ids(page') : T!Line(page', a).kind # "pending"
 <2>1. f = T!finalizeSeg(T!clearPending(page)) OBVIOUS
 <2> HIDE DEF f
 <2> QED BY <1>2, <1>3, <2>1, EndIs
<1> HIDE DEF f
<1>5. T!PageInv' BY <1>1, <1>4 DEF Sound, T!PageInv, T!Idle, TornInv, TurnInv, T!Good
<1>6. T!AskInv' BY <1>1, <1>4, AskKept
<1>7. ASSUME ~turn.spoilt
      PROVE  Paired(page', turn.from, T!Echo, dd)
 <2>1. ~T!Echoed
  <3>1. turn.pos = 0 => turn.log[1] = T!EndEvent OBVIOUS
  <3> QED BY <3>1, EventKinds DEF T!Echoed
 <2>2. T!Same(page, turn.from, T!Echo, d) BY <1>1, <1>7, <2>1 DEF T!FollowInv
 <2>3. Paired(page, turn.from, T!Echo, d) BY <1>2, <2>2, SameIs
 <2> QED BY <1>3, <2>3, PairEnd
<1>8. turn'.pos = Len(turn'.log)
 <2>1. turn.pos + 1 = Len(turn.log) BY <1>1 DEF TInv, T!LogInv
 <2> QED BY <1>1, <2>1
<1>9. T!FollowInv(dd)'
 <2>1. ~turn.spoilt => T!Same(page', turn.from, T!Echo, dd) BY <1>4, <1>7, SameIs DEF Paired
 <2> QED BY <1>1, <1>8, <2>1 DEF T!FollowInv
<1> QED BY <1>1, <1>5, <1>6, <1>9 DEF TInv, TornInv, TurnInv

\* The page draws the next event, and the replay with it.
LEMMA StepDeliver ==
  ASSUME TInv, TornInv', NEW d, T!FollowInv(d), turn.pos = 0 => d = T!Fresh, T!Deliver,
         NEW dd, dd = T!draw(d, turn.log[turn.pos + 1])
  PROVE  TInv' /\ T!FollowInv(dd)' /\ turn'.pos = turn.pos + 1 /\ turn'.log = turn.log
<1> DEFINE e == turn.log[turn.pos + 1]
<1>1. /\ turn.pos + 1 \in DOMAIN turn.log /\ turn'.log = turn.log /\ turn'.pos = turn.pos + 1
  BY Facts, Delivering DEF TornInv
<1>2. turn.pos \in Nat BY Facts, TurnFacts DEF TornInv
<1>3. \/ e \in T!Events \cup {T!EndEvent}
      \/ turn.pos + 1 = 1 /\ e.id \in Nat /\ e = T!UserEvent(e.id)
  BY <1>1 DEF TInv, T!LogInv
<1>4. CASE e \in T!Events BY <1>1, <1>4, DeliverEvent
<1>5. CASE e = T!EndEvent BY <1>1, <1>5, DeliverEnd
<1>6. CASE turn.pos + 1 = 1 /\ e.id \in Nat /\ e = T!UserEvent(e.id)
 <2>1. turn.pos = 0 /\ turn.log[1] = T!UserEvent(e.id) BY <1>2, <1>6
 <2> QED BY <1>1, <1>6, <2>1, DeliverUser
<1> QED BY <1>3, <1>4, <1>5, <1>6

\* A frame paints; no row says anything else.
LEMMA FrameIs ==
  ASSUME TInv, T!Frame
  PROVE  /\ Sound(page', turn.from) /\ page'.next = page.next /\ page'.seg = page.seg
         /\ page'.activity = page.activity /\ page'.turnTop = page.turnTop /\ page'.tools = page.tools
         /\ page'.skip = page.skip /\ page'.owns = page.owns /\ T!Ids(page') = T!Ids(page)
         /\ \A a \in T!Ids(page) : /\ T!Line(page', a).kind = T!Line(page, a).kind
                                   /\ T!Says(T!Line(page', a)) = T!Says(T!Line(page, a))
         /\ \A a, b \in T!Ids(page) : T!Before(page', a, b) <=> T!Before(page, a, b)
         /\ page.seg.kind # "out" => page'.rows = page.rows
<1> DEFINE v == [page EXCEPT !.raf = FALSE]
<1>1. Sound(page, turn.from) /\ page \in T!Pages BY Facts, FormedIs DEF Sound
<1>2. /\ v \in T!Pages /\ v.rows = page.rows /\ v.next = page.next /\ v.seg = page.seg
      /\ v.activity = page.activity /\ v.turnTop = page.turnTop /\ v.tools = page.tools
      /\ v.todo = page.todo /\ v.owns = page.owns /\ v.skip = page.skip
 <2>1. /\ v.rows = page.rows /\ v.next = page.next /\ v.seg = page.seg
       /\ v.activity = page.activity /\ v.turnTop = page.turnTop /\ v.tools = page.tools
       /\ v.todo = page.todo /\ v.owns = page.owns /\ v.skip = page.skip
   BY <1>1 DEF T!Pages
 <2>2. v \in T!Pages BY <1>1 DEF T!Pages
 <2> QED BY <2>1, <2>2
<1>3. page' = IF v.seg.kind = "out" THEN T!painted(v, v.seg.row) ELSE v BY DEF T!Frame
<1> HIDE DEF v
<1>4. /\ Sound(v, turn.from) /\ T!Ids(v) = T!Ids(page) /\ \A a : T!Line(v, a) = T!Line(page, a)
      /\ \A a, b : T!Before(v, a, b) <=> T!Before(page, a, b)
  BY <1>1, <1>2, Flagged
<1>5. CASE v.seg.kind = "out"
 <2> DEFINE l == T!Line(v, v.seg.row)
            r == [l EXCEPT !.painted = l.text]
 <2>1. /\ Sound(page', turn.from) /\ Rest(page') = Rest(v) /\ page'.next = v.next
       /\ v.seg.row \in T!Ids(v) /\ Turned(v, page', r)
   BY <1>3, <1>4, <1>5, PaintIs
 <2>2. l \in T!Lines /\ l.id = v.seg.row BY <1>4, <2>1, FormedIs DEF Sound
 <2>3. r.id = l.id /\ r.kind = l.kind /\ r.prompt = l.prompt /\ r.text = l.text /\ r.tools = l.tools
   BY <2>2 DEF T!Lines
 <2>4. r.kind = l.kind /\ T!Says(r) = T!Says(l) BY <2>3 DEF T!Says
 <2> HIDE DEF l, r
 <2>5. /\ T!Ids(page') = T!Ids(v) /\ T!Line(page', v.seg.row) = r
       /\ \A a \in T!Ids(v) : a # v.seg.row => T!Line(page', a) = T!Line(v, a)
       /\ \A a, b \in T!Ids(v) : T!Before(page', a, b) <=> T!Before(v, a, b)
   BY <2>1, <2>2, <2>3 DEF Turned
 <2>6. \A a \in T!Ids(v) : /\ T!Line(page', a).kind = T!Line(v, a).kind
                           /\ T!Says(T!Line(page', a)) = T!Says(T!Line(v, a))
   BY <2>4, <2>5 DEF l
 <2>7. /\ page'.seg = v.seg /\ page'.activity = v.activity /\ page'.turnTop = v.turnTop
       /\ page'.tools = v.tools /\ page'.skip = v.skip /\ page'.owns = v.owns
   BY <2>1 DEF Rest
 <2> QED BY <1>2, <1>4, <1>5, <2>1, <2>5, <2>6, <2>7
<1>6. CASE v.seg.kind # "out"
 <2>1. page' = v BY <1>3, <1>6
 <2> QED BY <1>2, <1>4, <2>1
<1> QED BY <1>5, <1>6

\* The frame paints.
LEMMA StepFrame ==
  ASSUME TInv, TornInv', NEW d, T!FollowInv(d), T!Frame
  PROVE  TInv' /\ T!FollowInv(d)' /\ turn' = turn
<1>1. turn' = turn /\ ask' = ask BY DEF T!Frame
<1>2. /\ Sound(page, turn.from) /\ T!Echo \in Nat /\ T!Echo < page.next /\ page.owns = turn.attached
      /\ T!Formed(page)
  BY Facts DEF Sound
<1> DEFINE F == T!Mine(page, turn.from, T!Echo)
<1>3. /\ Sound(page', turn.from) /\ page'.next = page.next /\ page'.seg = page.seg
      /\ page'.activity = page.activity /\ page'.turnTop = page.turnTop /\ page'.tools = page.tools
      /\ page'.skip = page.skip /\ page'.owns = page.owns /\ T!Ids(page') = T!Ids(page)
  BY FrameIs
<1>4. /\ \A a \in T!Ids(page) : /\ T!Line(page', a).kind = T!Line(page, a).kind
                                /\ T!Says(T!Line(page', a)) = T!Says(T!Line(page, a))
      /\ \A a, b \in T!Ids(page) : T!Before(page', a, b) <=> T!Before(page, a, b)
  BY FrameIs
<1>5. T!Idle(page) => T!Idle(page') BY <1>3 DEF T!Idle
<1>6. T!Echo' = T!Echo BY <1>1 DEF T!Echo
<1>7. T!PageInv' BY <1>1, <1>3, <1>4, <1>5 DEF TInv, T!PageInv, Sound, T!Good
<1>9. T!AskInv' BY <1>1, <1>3, <1>4 DEF TInv, T!AskInv
<1>10. \A x : T!Mine(page', turn.from, x) = T!Mine(page, turn.from, x) BY <1>3, <1>4 DEF T!Mine
<1>11. ASSUME T!Same(page, turn.from, T!Echo, d)
       PROVE  T!Same(page', turn.from, T!Echo, d)
 <2>1. Paired(page, turn.from, T!Echo, d) /\ Sound(d, 1) BY <1>2, <1>11, SameIs DEF Paired
 <2>2. Keeps(page, page', F) BY <1>3, <1>4, MineIs DEF Keeps
 <2>3. Keeps(d, d, T!Mine(d, 1, 0)) BY MineIs DEF Keeps
 <2>4. page.owns = d.owns BY <2>1, FollowsIs DEF Paired
 <2>5. Paired(page', turn.from, T!Echo, d)
   BY <1>2, <1>3, <1>10, <2>1, <2>2, <2>3, <2>4, PairKept
 <2> QED BY <1>2, <1>3, <2>5, SameIs
<1>12. T!Echoed => T!Echoed'
 <2>1. ASSUME T!Echoed
       PROVE  turn.from \in T!Ids(page)
   BY <2>1 DEF T!Echoed, T!Mine
 <2> QED BY <1>1, <1>3, <1>4, <1>10, <2>1 DEF T!Echoed
<1>14. T!FollowInv(d)' BY <1>1, <1>3, <1>6, <1>4, <1>10, <1>11, <1>12 DEF T!FollowInv
<1> QED BY <1>1, <1>7, <1>9, <1>14 DEF TInv, TornInv, TurnInv

\* A page under no turn is closed, and clean unless its last turn was lost.
LEMMA Between ==
  ASSUME TInv, turn.attached = FALSE
  PROVE  /\ page.owns = FALSE /\ page.seg = T!NoSeg
         /\ ~turn.lost => T!Idle(page) /\ \A a \in T!Ids(page) : T!Line(page, a).kind # "pending"
BY Facts DEF TInv, T!PageInv

\* A turn of another tab begins.
LEMMA StepAnnounced ==
  ASSUME TInv, TornInv', T!Announced
  PROVE  TInv' /\ T!FollowInv(T!Fresh)' /\ turn'.pos = 0
<1> DEFINE f == page.next
<1>1. /\ T!NextTurn(<<NoteEvent>>, TRUE, f, turn.lost)
      /\ page' = [page EXCEPT !.skip = FALSE, !.owns = TRUE]
      /\ ask' = [ask EXCEPT !.crossed = ask.out /\ ~ask.moved]
  BY Zenon DEF T!Announced, NoteEvent, T!None
<1>2. NoteEvent \in T!Events /\ NoteEvent.k = "note" /\ NoteEvent \in T!Logged /\ NoteEvent # T!EndEvent
  BY NoteLogged, LoggedIs, EventKinds
<1>3. Sound(page, turn.from) /\ f \in Nat /\ page \in T!Pages /\ ask \in T!AskStates /\ TurnInv
  BY Facts, FormedIs DEF Sound, TInv, T!AskInv, TornInv
<1>4. /\ turn.attached = FALSE /\ turn' \in T!TurnStates /\ turn'.pos = 0 /\ turn'.attached = TRUE
      /\ turn'.from = f /\ turn'.spoilt = turn.lost /\ turn'.log[1] = NoteEvent
 <2>1. turn.lost \in BOOLEAN BY <1>3, TurnFacts
 <2> QED BY <1>1, <1>2, <1>3, <2>1, Starting
<1>5. FlagsOnly(page, page') /\ page'.skip = FALSE /\ page'.owns = TRUE BY <1>1, <1>3 DEF FlagsOnly, T!Pages
<1>6. \A a \in T!Ids(page) : a \in Nat /\ a < f BY <1>3, FormedIs DEF Sound
<1>7. /\ Sound(page', f) /\ (T!Idle(page) => T!Idle(page')) /\ T!Ids(page') = T!Ids(page)
      /\ \A a : T!Line(page', a) = T!Line(page, a)
      /\ \A a, b : T!Before(page', a, b) <=> T!Before(page, a, b)
 <2>1. f <= page.next /\ \A a \in T!Ids(page) : T!Line(page, a).kind = "bot" => a < f
   BY <1>3, <1>6
 <2> QED BY <1>3, <1>4, <1>5, <2>1, Handed DEF FlagsOnly
<1>8. T!PageInv' BY <1>3, <1>4, <1>5, <1>6, <1>7, Between DEF T!PageInv, Sound, FlagsOnly, T!Good
<1>9. /\ ask' \in T!AskStates /\ ask'.out = ask.out /\ ask'.moved = ask.moved /\ ask'.prompt = ask.prompt
      /\ ask'.crossed = (ask.out /\ ~ask.moved)
 <2>1. (ask.out /\ ~ask.moved) \in BOOLEAN BY <1>3, TurnFacts
 <2> QED BY <1>1, <1>3, <2>1 DEF T!AskStates
<1>10. T!AskInv'
 <2>1. CASE ask.out /\ ~ask.moved
  <3>1. /\ ask.prompt \in T!Ids(page) /\ T!Line(page, ask.prompt).kind = "user"
        /\ \A a \in T!Ids(page) : T!Line(page, a).kind = "user" => ~T!Before(page, ask.prompt, a)
    BY <2>1 DEF TInv, T!AskInv
  <3>2. /\ ask'.prompt \in T!Ids(page') /\ T!Line(page', ask'.prompt).kind = "user"
        /\ \A a \in T!Ids(page') : T!Line(page', a).kind = "user" => ~T!Before(page', ask'.prompt, a)
    BY <1>7, <1>9, <3>1
  <3>3. turn'.log[1].k # "user" /\ ask'.prompt < turn'.from /\ ask'.crossed = TRUE
    BY <1>2, <1>4, <1>6, <1>9, <2>1, <3>1
  <3> QED BY <1>9, <3>2, <3>3 DEF T!AskInv
 <2>2. CASE ~(ask.out /\ ~ask.moved) BY <1>9, <2>2 DEF T!AskInv
 <2> QED BY <2>1, <2>2
<1>11. T!FollowInv(T!Fresh)'
 <2> SUFFICES ASSUME ~turn.lost PROVE T!FollowInv(T!Fresh)' BY <1>4 DEF T!FollowInv
 <2> DEFINE x == T!Echo'
 <2>1. x = T!Echo /\ x \in Nat /\ x < page'.next BY <1>5, <1>9, Facts DEF T!Echo, FlagsOnly
 <2>2. T!Mine(page', f, x) = {} BY <1>3, <1>6, <1>7 DEF T!Mine
 <2> HIDE DEF x, f
 <2>3. Owning(page') BY <1>5 DEF Owning
 <2>4. Paired(page', f, x, T!Fresh) BY <1>4, <1>7, <2>1, <2>2, <2>3, Between, PairEmpty
 <2>5. T!Same(page', f, x, T!Fresh) BY <1>7, <2>1, <2>4, SameIs
 <2>6. turn'.log[1].k # "user" BY <1>2, <1>4
 <2> QED BY <1>4, <2>5, <2>6 DEF T!FollowInv, x
<1> QED BY <1>4, <1>8, <1>10, <1>11 DEF TInv, TornInv, TurnInv

\* The flags of a view say nothing of what its turn has drawn.
LEMMA Reflagged ==
  ASSUME NEW from, NEW x, NEW v, NEW d, Paired(v, from, x, d), NEW u, FlagsOnly(v, u),
         u.owns = v.owns
  PROVE  Paired(u, from, x, d)
<1>1. Sound(v, from) /\ Sound(d, 1) /\ x \in Nat /\ x < v.next /\ v.owns = d.owns
  BY FollowsIs DEF Paired
<1>2. /\ u \in T!Pages /\ u.rows = v.rows /\ u.next = v.next /\ u.seg = v.seg /\ u.activity = v.activity
      /\ u.turnTop = v.turnTop /\ u.tools = v.tools /\ u.todo = v.todo
  BY DEF FlagsOnly
<1>3. /\ Sound(u, from) /\ T!Ids(u) = T!Ids(v) /\ \A a : T!Line(u, a) = T!Line(v, a)
      /\ \A a, b : T!Before(u, a, b) <=> T!Before(v, a, b)
  BY <1>1, <1>2, Flagged
<1>4. T!Mine(u, from, x) = T!Mine(v, from, x) BY <1>3 DEF T!Mine
<1>5. Keeps(v, u, T!Mine(v, from, x)) /\ Keeps(d, d, T!Mine(d, 1, 0)) BY <1>3, MineIs DEF Keeps
<1> QED BY <1>1, <1>2, <1>3, <1>4, <1>5, PairKept

\* The request has been answered.
LEMMA AskDone ==
  ASSUME TInv, ask' = [ask EXCEPT !.out = FALSE]
  PROVE  T!AskInv' /\ T!Echo' = 0 /\ ask'.out = FALSE
<1>1. ask \in T!AskStates BY DEF TInv, T!AskInv
<1>2. ask' \in T!AskStates /\ ask'.out = FALSE BY <1>1 DEF T!AskStates
<1> QED BY <1>2 DEF T!AskInv, T!Echo, T!None

\* The send started its turn elsewhere than in this view, or under an echo that
\* an announced turn had covered, or under its own echo.
LEMMA StartedMoved ==
  ASSUME TInv, TornInv', T!SendStarted, ask.moved
  PROVE  TInv' /\ (\A d : T!FollowInv(d)') /\ turn'.pos = 0
<1> DEFINE f == page.next
           e == T!UserEvent(ask.prompt)
<1>1. /\ T!NextTurn(<<e>>, FALSE, f, ask.crossed)
      /\ page' = [page EXCEPT !.skip = FALSE] /\ ask' = [ask EXCEPT !.out = FALSE]
  BY DEF T!SendStarted
<1>3. Sound(page, turn.from) /\ f \in Nat /\ page \in T!Pages /\ ask.crossed \in BOOLEAN /\ TurnInv
  BY Facts, TurnFacts, FormedIs DEF Sound, TornInv
<1>2. e \in T!Logged /\ e # T!EndEvent /\ e.id \in Nat /\ e = T!UserEvent(e.id)
  BY <1>3, LoggedIs, EventKinds, TurnFacts
<1> HIDE DEF e
<1>4. /\ turn.attached = FALSE /\ turn' \in T!TurnStates /\ turn'.pos = 0 /\ turn'.attached = FALSE
      /\ turn'.from = f /\ (turn'.lost <=> turn.lost)
  BY <1>1, <1>2, <1>3, Starting
<1>11. /\ page.owns = FALSE /\ page.seg = T!NoSeg
       /\ ~turn.lost => T!Idle(page) /\ \A a \in T!Ids(page) : T!Line(page, a).kind # "pending"
  BY <1>4, Between
<1>5. FlagsOnly(page, page') /\ page'.owns = FALSE BY <1>1, <1>3, <1>11 DEF FlagsOnly, T!Pages
<1>6. \A a \in T!Ids(page) : a \in Nat /\ a < f BY <1>3, FormedIs DEF Sound
<1>7. /\ Sound(page', f) /\ (T!Idle(page) => T!Idle(page')) /\ T!Ids(page') = T!Ids(page)
      /\ \A a : T!Line(page', a) = T!Line(page, a)
 <2>1. f <= page.next /\ \A a \in T!Ids(page) : T!Line(page, a).kind = "bot" => a < f
   BY <1>3, <1>6
 <2> QED BY <1>3, <1>4, <1>5, <2>1, Handed DEF FlagsOnly
<1>8. T!PageInv' BY <1>3, <1>4, <1>5, <1>7, <1>11 DEF T!PageInv, Sound, FlagsOnly, T!Good
<1>9. T!AskInv' /\ T!Echo' = 0 BY <1>1, AskDone
<1>10. T!Mine(page', f, 0) = {} BY <1>3, <1>6, <1>7 DEF T!Mine
<1> QED BY <1>4, <1>8, <1>9, <1>10 DEF TInv, TornInv, TurnInv, T!FollowInv

\* The turn of the send begins, on the page it was sent from.
LEMMA StartedHere ==
  ASSUME TInv, TornInv', T!SendStarted, ~ask.moved
  PROVE  TInv' /\ (\A d : T!FollowInv(d)') /\ turn'.pos = 0
<1> DEFINE f == IF ask.crossed THEN page.next ELSE ask.prompt
           e == T!UserEvent(ask.prompt)
           q == [page EXCEPT !.owns = TRUE]
<1>1. /\ T!NextTurn(<<e>>, TRUE, f, ask.crossed) /\ ask.out
      /\ page' = T!showPending(q) /\ ask' = [ask EXCEPT !.out = FALSE]
  BY Facts, TurnFacts DEF T!SendStarted, TornInv
<1>3. /\ Sound(page, turn.from) /\ page \in T!Pages /\ ask.crossed \in BOOLEAN /\ ask.prompt \in Nat
      /\ page.next \in Nat /\ \A a \in T!Ids(page) : a \in Nat /\ 0 < a /\ a < page.next
      /\ TurnInv
  BY Facts, TurnFacts, FormedIs DEF Sound, TornInv
<1>2. e \in T!Logged /\ e # T!EndEvent /\ e.id \in Nat /\ e = T!UserEvent(e.id)
  BY <1>3, LoggedIs, EventKinds
<1>4. /\ ask.prompt \in T!Ids(page) /\ T!Line(page, ask.prompt).kind = "user"
      /\ ~ask.crossed => /\ page.skip /\ \A a \in T!Ids(page) : a <= ask.prompt \/ T!Line(page, a).kind = "aside"
                         /\ T!Says(T!Line(page, ask.prompt)) = T!Says(T!Row(0, "user", ask.prompt))
  BY <1>1 DEF TInv, T!AskInv, T!None
<1>5. f \in Nat /\ f <= page.next /\ f > 0 BY <1>3, <1>4
<1>6. FlagsOnly(page, q) /\ q.skip = page.skip /\ q.owns = TRUE BY <1>3 DEF FlagsOnly, T!Pages
<1> HIDE DEF e, q
<1>7. /\ turn.attached = FALSE /\ turn' \in T!TurnStates /\ turn'.pos = 0 /\ turn'.attached = TRUE
      /\ turn'.from = f /\ turn'.spoilt = ask.crossed /\ turn'.log[1] = e
  BY <1>1, <1>2, <1>3, <1>5, Starting
<1>8. \A a \in T!Ids(page) : T!Line(page, a).kind = "bot" => a < f
 <2>1. CASE ask.crossed BY <1>3, <2>1
 <2>2. CASE ~ask.crossed
  <3>1. ASSUME NEW a \in T!Ids(page), T!Line(page, a).kind = "bot"
        PROVE  a < ask.prompt
   <4>1. a # ask.prompt /\ a <= ask.prompt /\ T!Line(page, a).kind # "aside" BY <1>4, <2>2, <3>1
   <4> QED BY <1>3, <4>1
  <3> QED BY <2>2, <3>1
 <2> QED BY <2>1, <2>2
<1> HIDE DEF f
<1>9. /\ Sound(q, f) /\ T!Ids(q) = T!Ids(page)
      /\ \A a : T!Line(q, a) = T!Line(page, a)
  BY <1>3, <1>5, <1>6, <1>7, <1>8, Handed DEF FlagsOnly
<1>10. /\ Sound(page', f) /\ Rest(page') = Rest(q)
       /\ page' = q \/ (Placed(q, page', T!Row(q.next, "pending", 0), 0) /\ page'.next = q.next + 1)
  BY <1>1, <1>9, ShowIs
<1>11. page'.seg = T!NoSeg /\ page'.owns = TRUE /\ page'.skip = page.skip
  BY <1>6, <1>7, <1>10, Between DEF Rest, FlagsOnly
<1>12. T!PageInv'
 <2>1. \A a \in T!Ids(page') : T!Line(page', a).kind = "bot" => a < f
  <3>1. CASE page' = q BY <1>8, <1>9, <3>1
  <3>2. CASE Placed(q, page', T!Row(q.next, "pending", 0), 0)
   <4> DEFINE r == T!Row(q.next, "pending", 0)
   <4>1. q.next \in Nat \ {0} /\ "pending" \in T!Kinds BY <1>9, FormedIs DEF Sound, T!Kinds
   <4>2. r.id = q.next /\ r.kind = "pending" BY <4>1, RowIs
   <4> HIDE DEF r
   <4> QED BY <1>8, <1>9, <3>2, <4>2 DEF Placed, r
  <3> QED BY <1>10, <3>1, <3>2
 <2>2. e.k = "user" BY EventKinds DEF e
 <2> QED BY <1>7, <1>10, <1>11, <2>1, <2>2 DEF T!PageInv, Sound, T!Good
<1>13. T!AskInv' /\ T!Echo' = 0 /\ ask'.out = FALSE BY <1>1, AskDone
<1>14. ASSUME ~ask.crossed
       PROVE  T!Echoed'
 <2>1. f = ask.prompt BY <1>14 DEF f
 <2>2. T!Mine(q, f, 0) = {f} BY <1>3, <1>4, <1>9, <1>14, <2>1 DEF T!Mine
 <2>3. T!Mine(page', f, 0) = {f} /\ T!Line(page', f) = T!Line(q, f)
  <3>1. CASE page' = q BY <2>2, <3>1
  <3>2. CASE Placed(q, page', T!Row(q.next, "pending", 0), 0)
   <4> DEFINE r == T!Row(q.next, "pending", 0)
   <4>1. q.next \in Nat \ {0} /\ "pending" \in T!Kinds BY <1>9, FormedIs DEF Sound, T!Kinds
   <4>2. r.id = q.next /\ r.kind = "pending" /\ 0 # q.next BY <4>1, RowIs
   <4>3. T!Mine(page', f, 0) = T!Mine(q, f, 0) BY <1>9, <3>2, <4>2, MinePlaced
   <4>4. f \in T!Ids(q) BY <1>4, <1>9, <2>1
   <4> QED BY <2>2, <3>2, <4>3, <4>4 DEF Placed
  <3> QED BY <1>10, <3>1, <3>2
 <2>4. T!Says(T!Line(page', f)) = T!Says(T!Row(0, "user", f)) BY <1>4, <1>9, <1>14, <2>1, <2>3
 <2>5. turn'.log[1] = T!UserEvent(f) BY <1>7, <2>1 DEF e
 <2> QED BY <1>4, <1>5, <1>7, <1>11, <1>13, <1>14, <2>3, <2>4, <2>5 DEF T!Echoed, T!None
<1> QED BY <1>7, <1>12, <1>13, <1>14 DEF TInv, TornInv, TurnInv, T!FollowInv

LEMMA StepSendStarted ==
  ASSUME TInv, TornInv', T!SendStarted
  PROVE  TInv' /\ (\A d : T!FollowInv(d)') /\ turn'.pos = 0
BY StartedMoved, StartedHere

\* The page of a send: the prompt's row at its end, nothing under way unless a turn was
\* lost, the flag up.
LEMMA SendIs ==
  ASSUME TInv, T!Send
  PROVE  /\ turn.attached = FALSE /\ page.owns = FALSE /\ ask.out = FALSE
         /\ Sound(page', turn.from) /\ page'.owns = FALSE /\ page'.skip = TRUE
         /\ page'.next = page.next + 1 /\ page'.seg = T!NoSeg
         /\ ~turn.lost => /\ T!Idle(page) /\ T!Idle(page') /\ page'.seg = page.seg
                          /\ page'.activity = page.activity /\ page'.turnTop = page.turnTop
                          /\ page'.tools = page.tools
         /\ Placed(page, page', T!Row(page.next, "user", page.next), 0)
<1> DEFINE p == page.next
           r == T!Row(p, "user", p)
           q == T!addMsg(page, "user", p)
<1>1. /\ ~ask.out /\ ~page.owns
      /\ page' = [q EXCEPT !.seg = T!NoSeg, !.activity = 0, !.turnTop = 0, !.skip = TRUE]
  BY DEF T!Send, T!None
<1>2. /\ Sound(page, turn.from) /\ T!Formed(page) /\ p \in Nat \ {0} /\ "user" \in T!Kinds
      /\ turn.attached = FALSE /\ page.owns = FALSE /\ ask.out = FALSE
  BY <1>1, Facts, TurnFacts, FormedIs DEF Sound, T!Kinds, TornInv
<1>3. page.seg = T!NoSeg /\ (~turn.lost => T!Idle(page)) /\ T!NoSeg.row = 0 /\ T!NoSeg.kind = "none"
  BY <1>2, Between DEF T!NoSeg, T!None
<1>4. /\ T!Formed(q) /\ Placed(page, q, r, 0) /\ Rest(q) = Rest(page) /\ q.next = p + 1
  BY <1>2, AddMsgIs
<1>5. r.id = page.next /\ r.kind = "user" BY <1>2, RowIs
<1> HIDE DEF q, p, r
<1>6. Sound(q, turn.from)
 <2>1. r.kind \notin {"bot", "pending"} /\ q.next = page.next + 1 BY <1>4, <1>5 DEF p
 <2> QED BY <1>2, <1>4, <1>5, <2>1, Added
<1>7. /\ q.seg = T!NoSeg /\ q.activity = page.activity /\ q.turnTop = page.turnTop /\ q.tools = page.tools
      /\ q.owns = FALSE /\ q \in T!Pages
  BY <1>2, <1>3, <1>4, FormedIs DEF Rest
<1>8. /\ page' \in T!Pages /\ page'.rows = q.rows /\ page'.next = q.next /\ page'.seg = T!NoSeg
      /\ page'.activity = 0 /\ page'.turnTop = 0 /\ page'.tools = q.tools /\ page'.todo = q.todo
 <2>1. T!NoSeg \in [kind : {"none", "think", "out"}, row : Nat, text : Nat]
   BY DEF T!NoSeg, T!None
 <2> QED BY <1>1, <1>7, <2>1 DEF T!Pages
<1>9. page'.owns = FALSE /\ page'.skip = TRUE BY <1>1, <1>7 DEF T!Pages
<1>10. /\ Rowed(q) /\ T!Formed(q) /\ T!Drawn(q) /\ 0 < q.next BY <1>6, FormedIs DEF Sound
<1>11. /\ T!Ids(page') = T!Ids(q) /\ \A a : T!Line(page', a) = T!Line(q, a)
       /\ \A a, b : T!Before(page', a, b) <=> T!Before(q, a, b)
  BY <1>8, <1>10, SameRows
<1>12. Sound(page', turn.from)
 <2>1. 0 \notin T!Ids(page') BY <1>10, <1>11, FormedIs
 <2>2. T!Formed(page') BY <1>3, <1>8, <1>10 DEF T!Formed
 <2>3. T!Drawn(page') BY <1>3, <1>7, <1>8, <1>10, <1>11, <2>1 DEF T!Drawn
 <2>4. T!Topped(page', turn.from) BY <1>8, <1>9, <2>1 DEF T!Topped
 <2> QED BY <1>6, <1>8, <2>2, <2>3, <2>4 DEF Sound
<1>13. Placed(page, page', r, 0) BY <1>4, <1>11 DEF Placed
<1>14. ~turn.lost => /\ T!Idle(page) /\ T!Idle(page') /\ page'.seg = page.seg
                     /\ page'.activity = page.activity /\ page'.turnTop = page.turnTop
                     /\ page'.tools = page.tools
  BY <1>3, <1>7, <1>8 DEF T!Idle, T!None
<1> QED BY <1>2, <1>4, <1>8, <1>9, <1>12, <1>13, <1>14 DEF p, r

\* A prompt is sent.
LEMMA StepSend ==
  ASSUME TInv, TornInv', NEW d, T!FollowInv(d), T!Send
  PROVE  TInv' /\ T!FollowInv(d)' /\ turn' = turn
<1> DEFINE p == page.next
           r == T!Row(p, "user", p)
<1>1. turn' = turn /\ ask' = [out |-> TRUE, moved |-> FALSE, crossed |-> FALSE, prompt |-> p]
  BY DEF T!Send
<1>2. /\ turn.attached = FALSE /\ page.owns = FALSE /\ ask.out = FALSE
      /\ Sound(page', turn.from) /\ page'.owns = FALSE /\ page'.skip = TRUE
      /\ page'.next = page.next + 1 /\ page'.seg = T!NoSeg
      /\ ~turn.lost => /\ T!Idle(page) /\ T!Idle(page') /\ page'.seg = page.seg
                       /\ page'.activity = page.activity /\ page'.turnTop = page.turnTop
                       /\ page'.tools = page.tools
      /\ Placed(page, page', r, 0)
  BY SendIs
<1>3. /\ Sound(page, turn.from) /\ T!Formed(page) /\ p \in Nat \ {0} /\ "user" \in T!Kinds
      /\ 0 \notin T!Ids(page) /\ \A a \in T!Ids(page) : a \in Nat /\ a < p
  BY Facts, FormedIs DEF Sound, T!Kinds
<1>4. r.id = p /\ r.kind = "user" /\ T!Says(r) = T!Says(T!Row(0, "user", p))
  BY <1>3, RowIs, SaysAlike
<1> HIDE DEF r, p
<1>5. /\ T!Ids(page') = T!Ids(page) \cup {p} /\ p \notin T!Ids(page) /\ T!Line(page', p) = r
      /\ \A a \in T!Ids(page) : T!Line(page', a) = T!Line(page, a) /\ ~T!Before(page', p, a)
  BY <1>2, <1>3, <1>4 DEF Placed
<1>6. T!PageInv'
 <2>1. ~turn.lost => \A a \in T!Ids(page') : T!Line(page', a).kind # "pending"
   BY <1>2, <1>4, <1>5 DEF TInv, T!PageInv
 <2> QED BY <1>1, <1>2, <2>1 DEF TInv, T!PageInv, Sound, T!Good
<1>8. ~T!Before(page', p, p) BY <1>2, <1>5, InOrder, FormedIs DEF Sound
<1>9. T!AskInv'
 <2>1. ask' \in T!AskStates /\ ask'.prompt = p /\ ask'.crossed = FALSE
   BY <1>1, <1>3 DEF T!AskStates
 <2>2. \A a \in T!Ids(page') : ~T!Before(page', p, a) /\ a <= p BY <1>3, <1>5, <1>8
 <2>3. p \in T!Ids(page') /\ T!Line(page', p).kind = "user" /\ T!Says(T!Line(page', p)) = T!Says(T!Row(0, "user", p))
   BY <1>4, <1>5
 <2> QED BY <1>1, <1>2, <2>1, <2>2, <2>3 DEF T!AskInv, T!None
<1>10. T!Echo = 0 /\ T!Echo' = p BY <1>1, <1>2 DEF T!Echo, T!None
<1>11. T!Mine(page', turn.from, p) = T!Mine(page, turn.from, 0) /\ Keeps(page, page', T!Mine(page, turn.from, 0))
  BY <1>2, <1>3, <1>4, EchoDrawn DEF p
<1>12. ASSUME ~turn.lost, T!Same(page, turn.from, 0, d)
       PROVE  T!Same(page', turn.from, p, d)
 <2>1. 0 < page.next /\ p < page'.next BY <1>2, <1>3 DEF p
 <2>2. Paired(page, turn.from, 0, d) /\ Sound(d, 1) /\ page.owns = d.owns
   BY <1>3, <1>12, <2>1, SameIs, FollowsIs DEF Paired
 <2>3. Keeps(d, d, T!Mine(d, 1, 0)) BY MineIs DEF Keeps
 <2>4. \A a \in T!Ids(page') : a \in T!Ids(page) \/ a = page.next BY <1>5 DEF p
 <2>5. p \in Nat /\ page'.owns = d.owns BY <1>2, <1>3, <2>2
 <2>7. /\ page'.seg = page.seg /\ page'.activity = page.activity /\ page'.turnTop = page.turnTop
       /\ page'.tools = page.tools
   BY <1>2, <1>12
 <2>6. Paired(page', turn.from, p, d)
   BY <1>2, <1>11, <2>1, <2>2, <2>3, <2>4, <2>5, <2>7, PairKept
 <2> QED BY <1>2, <2>1, <2>5, <2>6, SameIs
<1>13. T!FollowInv(d)'
 <2>1. turn.lost => turn.spoilt \/ turn.pos # Len(turn.log)
   BY Facts, TurnFacts DEF TInv, T!LogInv, TornInv
 <2> QED BY <1>1, <1>2, <1>10, <1>11, <1>12, <2>1 DEF T!FollowInv
<1> QED BY <1>1, <1>6, <1>9, <1>13 DEF TInv, TornInv, TurnInv

\* The undoing of an echo: it takes away a prompt, in the view of the send its own.
LEMMA Undone ==
  ASSUME TInv, ask.out, NEW q, q = T!dropLastUser(page)
  PROVE  /\ Sound(q, turn.from) /\ Rest(q) = Rest(page) /\ q.next = page.next
         /\ \A a \in T!Ids(q) : a \in T!Ids(page) /\ T!Line(q, a) = T!Line(page, a)
         /\ ~ask.moved => /\ T!Mine(q, turn.from, 0) = T!Mine(page, turn.from, T!Echo)
                          /\ Keeps(page, q, T!Mine(page, turn.from, T!Echo))
<1>1. Sound(page, turn.from) /\ Rowed(page) BY Facts, FormedIs DEF Sound
<1>2. Sound(q, turn.from) /\ Rest(q) = Rest(page) /\ q.next = page.next BY <1>1, DropIs
<1>3. PICK x : /\ Gone(page, q, x)
               /\ x \in T!Ids(page) => T!Line(page, x).kind = "user"
               /\ \A a \in T!Ids(page) : T!Line(page, a).kind = "user" =>
                     x \in T!Ids(page) /\ ~T!Before(page, x, a)
  BY <1>1, DropIs
<1>4. \A a \in T!Ids(q) : a \in T!Ids(page) /\ T!Line(q, a) = T!Line(page, a) BY <1>3 DEF Gone
<1>5. ASSUME ~ask.moved
      PROVE  x = T!Echo
 <2>1. /\ T!Echo = ask.prompt /\ ask.prompt \in T!Ids(page) /\ T!Line(page, ask.prompt).kind = "user"
       /\ \A a \in T!Ids(page) : T!Line(page, a).kind = "user" => ~T!Before(page, ask.prompt, a)
   BY <1>5 DEF TInv, T!AskInv, T!Echo
 <2>2. x \in T!Ids(page) /\ ~T!Before(page, x, ask.prompt) /\ ~T!Before(page, ask.prompt, x)
   BY <1>3, <2>1
 <2> QED BY <1>1, <2>1, <2>2, InOrder
<1>6. ASSUME ~ask.moved
      PROVE  /\ T!Mine(q, turn.from, 0) = T!Mine(page, turn.from, T!Echo)
             /\ Keeps(page, q, T!Mine(page, turn.from, T!Echo))
  BY <1>1, <1>3, <1>5, <1>6, EchoDropped
<1> QED BY <1>2, <1>4, <1>6

\* Without its echo the page shows what the replay shows.
LEMMA PairUndone ==
  ASSUME TInv, ask.out, ~ask.moved, NEW d, Paired(page, turn.from, T!Echo, d), NEW q, q = T!dropLastUser(page)
  PROVE  Paired(q, turn.from, 0, d)
<1>1. /\ Sound(q, turn.from) /\ Rest(q) = Rest(page) /\ q.next = page.next
      /\ \A a \in T!Ids(q) : a \in T!Ids(page)
      /\ T!Mine(q, turn.from, 0) = T!Mine(page, turn.from, T!Echo)
      /\ Keeps(page, q, T!Mine(page, turn.from, T!Echo))
  BY Undone
<1>2. Sound(d, 1) /\ page.owns = d.owns BY FollowsIs DEF Paired
<1>3. Keeps(d, d, T!Mine(d, 1, 0)) BY MineIs DEF Keeps
<1>4. 0 \in Nat /\ 0 < q.next BY <1>1, FormedIs DEF Sound
<1>5. /\ q.seg = page.seg /\ q.activity = page.activity /\ q.turnTop = page.turnTop
      /\ q.tools = page.tools /\ q.owns = d.owns
  BY <1>1, <1>2 DEF Rest
<1> QED BY <1>1, <1>2, <1>3, <1>4, <1>5, PairKept

\* What an answered send leaves: a view q with other flags, where the turn has drawn
\* the same.
LEMMA Answered ==
  ASSUME TInv, ask.out, NEW q, Sound(q, turn.from), Rest(q) = Rest(page), q.next = page.next,
         \A a \in T!Ids(q) : a \in T!Ids(page) /\ T!Line(q, a) = T!Line(page, a),
         FlagsOnly(q, page'), page'.owns = q.owns, turn' \in T!TurnStates, turn'.from = turn.from,
         turn'.attached = turn.attached, turn'.pos = turn.pos, turn'.log = turn.log,
         turn'.lost = turn.lost, turn.spoilt => turn'.spoilt
  PROVE  T!PageInv' /\ Sound(page', turn.from)
<1>1. q.activity = page.activity /\ q.seg = page.seg /\ q.turnTop = page.turnTop /\ q.tools = page.tools
      /\ q.owns = page.owns
  BY DEF Rest
<1>2. /\ page' \in T!Pages /\ page'.rows = q.rows /\ page'.next = q.next /\ page'.seg = q.seg
      /\ page'.activity = q.activity /\ page'.turnTop = q.turnTop /\ page'.tools = q.tools /\ page'.todo = q.todo
  BY DEF FlagsOnly
<1>3. /\ Sound(page', turn.from) /\ T!Ids(page') = T!Ids(q) /\ \A a : T!Line(page', a) = T!Line(q, a)
  BY <1>2, Flagged
<1>4. T!Idle(page) => T!Idle(page') BY <1>1, <1>2 DEF T!Idle
<1>5. /\ \A a \in T!Ids(page') : a \in T!Ids(page) /\ T!Line(page', a) = T!Line(page, a)
      /\ page'.seg = page.seg /\ page'.owns = page.owns /\ page'.next = page.next
  BY <1>1, <1>2, <1>3
<1> QED BY <1>3, <1>4, <1>5 DEF TInv, T!PageInv, Sound, T!Good

\* The send is refused.
LEMMA StepSendRefused ==
  ASSUME TInv, TornInv', NEW d, T!FollowInv(d), T!SendRefused
  PROVE  TInv' /\ T!FollowInv(d)' /\ turn' = turn
<1> DEFINE q == IF ask.moved THEN page ELSE T!dropLastUser(page)
<1>1. /\ ask.out /\ turn' = turn /\ page' = [q EXCEPT !.skip = FALSE]
      /\ ask' = [ask EXCEPT !.out = FALSE]
  BY DEF T!SendRefused
<1>2. Sound(page, turn.from) /\ T!Echo \in Nat /\ T!Echo < page.next /\ turn \in T!TurnStates
  BY Facts DEF TInv, T!PageInv
<1>3. /\ Sound(q, turn.from) /\ Rest(q) = Rest(page) /\ q.next = page.next
      /\ \A a \in T!Ids(q) : a \in T!Ids(page) /\ T!Line(q, a) = T!Line(page, a)
  BY <1>1, <1>2, Undone
<1>4. T!Mine(q, turn.from, 0) = T!Mine(page, turn.from, T!Echo)
 <2>1. CASE ask.moved BY <2>1 DEF T!Echo, T!None
 <2>2. CASE ~ask.moved BY <1>1, <2>2, Undone
 <2> QED BY <2>1, <2>2
<1>5. T!Same(page, turn.from, T!Echo, d) => Paired(q, turn.from, 0, d)
 <2>1. T!Same(page, turn.from, T!Echo, d) => Paired(page, turn.from, T!Echo, d) BY <1>2, SameIs
 <2>2. CASE ask.moved BY <2>1, <2>2 DEF T!Echo, T!None
 <2>3. CASE ~ask.moved BY <1>1, <2>1, <2>3, PairUndone
 <2> QED BY <2>2, <2>3
<1>6. ask.moved => q.rows = page.rows OBVIOUS
<1> HIDE DEF q
<1>7. FlagsOnly(q, page') /\ page'.skip = FALSE /\ page'.owns = q.owns
 <2>1. q \in T!Pages BY <1>3, FormedIs DEF Sound
 <2> QED BY <1>1, <2>1 DEF FlagsOnly, T!Pages
<1>8. T!PageInv' /\ Sound(page', turn.from) BY <1>1, <1>2, <1>3, <1>7, Answered
<1>9. T!AskInv' /\ T!Echo' = 0 BY <1>1, AskDone
<1>11. T!Same(page, turn.from, T!Echo, d) => T!Same(page', turn.from, 0, d)
 <2>1. T!Same(page, turn.from, T!Echo, d) => Paired(page', turn.from, 0, d)
   BY <1>5, <1>7, Reflagged
 <2>2. 0 \in Nat /\ 0 < page'.next BY <1>8, FormedIs DEF Sound
 <2> QED BY <1>8, <2>1, <2>2, SameIs
<1>12. T!Mine(page', turn.from, 0) = T!Mine(page, turn.from, T!Echo)
 <2>1. Rowed(q) /\ page'.rows = q.rows BY <1>3, <1>7, FormedIs DEF Sound, FlagsOnly
 <2>2. T!Ids(page') = T!Ids(q) /\ \A a : T!Line(page', a) = T!Line(q, a) BY <2>1, SameRows
 <2>3. T!Mine(page', turn.from, 0) = T!Mine(q, turn.from, 0) BY <2>2 DEF T!Mine
 <2> QED BY <1>4, <2>3
<1>13. ~T!Echoed BY <1>1 DEF T!Echoed
<1>14. ASSUME turn.attached, turn.log[1].k = "user", \A a \in T!Ids(page) : T!Line(page, a).kind = "aside"
       PROVE  ~page'.skip /\ \A a \in T!Ids(page') : T!Line(page', a).kind = "aside"
 <2>1. ask.moved BY <1>1, <1>14 DEF TInv, T!AskInv
 <2>2. Rowed(page) /\ page'.rows = page.rows
   BY <1>2, <1>6, <1>7, <2>1, FormedIs DEF FlagsOnly, Sound
 <2> QED BY <1>7, <1>14, <2>2, SameRows
<1>15. T!FollowInv(d)' BY <1>1, <1>9, <1>11, <1>12, <1>13, <1>14 DEF T!FollowInv
<1> QED BY <1>1, <1>8, <1>9, <1>15 DEF TInv, TornInv, TurnInv

\* The send has failed.
LEMMA StepSendFailed ==
  ASSUME TInv, TornInv', NEW d, T!FollowInv(d), T!SendFailed
  PROVE  TInv' /\ T!FollowInv(d)' /\ turn'.pos = turn.pos /\ turn'.log = turn.log
<1> DEFINE b == turn.spoilt \/ ask.moved
<1>1. /\ ask.out /\ page' = T!dropLastUser(page) /\ ask' = [ask EXCEPT !.out = FALSE]
      /\ turn' = [turn EXCEPT !.spoilt = b]
  BY DEF T!SendFailed
<1>2. /\ Sound(page, turn.from) /\ T!Echo \in Nat /\ T!Echo < page.next /\ turn \in T!TurnStates
      /\ b \in BOOLEAN
  BY Facts, TurnFacts DEF TInv, T!PageInv, TornInv
<1>3. /\ turn'.log = turn.log /\ turn'.pos = turn.pos /\ turn'.lost = turn.lost
      /\ turn'.attached = turn.attached /\ turn'.from = turn.from /\ turn'.spoilt = b
  BY <1>1, <1>2 DEF T!TurnStates
<1>4. turn' \in T!TurnStates /\ (turn.spoilt => turn'.spoilt) BY <1>3 DEF TornInv, TurnInv
<1> HIDE DEF b
<1>5. /\ Sound(page', turn.from) /\ Rest(page') = Rest(page) /\ page'.next = page.next
      /\ \A a \in T!Ids(page') : a \in T!Ids(page) /\ T!Line(page', a) = T!Line(page, a)
      /\ ~ask.moved => T!Mine(page', turn.from, 0) = T!Mine(page, turn.from, T!Echo)
  BY <1>1, Undone
<1>6. T!PageInv'
 <2>1. FlagsOnly(page', page') BY <1>5, FormedIs DEF FlagsOnly, Sound
 <2> QED BY <1>1, <1>3, <1>4, <1>5, <2>1, Answered
<1>7. T!AskInv' /\ T!Echo' = 0 BY <1>1, AskDone
<1>9. ASSUME ~ask.moved, T!Same(page, turn.from, T!Echo, d)
      PROVE  T!Same(page', turn.from, 0, d)
 <2>1. Paired(page', turn.from, 0, d) BY <1>1, <1>2, <1>9, SameIs, PairUndone
 <2>2. 0 \in Nat /\ 0 < page'.next BY <1>5, FormedIs DEF Sound
 <2> QED BY <1>5, <2>1, <2>2, SameIs
<1>10. ~T!Echoed BY <1>1 DEF T!Echoed
<1>11. ~ask.moved /\ turn.attached => turn.log[1].k # "user" BY <1>1 DEF TInv, T!AskInv
<1>12. T!FollowInv(d)' BY <1>3, <1>5, <1>7, <1>9, <1>10, <1>11 DEF T!FollowInv, b
<1> QED BY <1>3, <1>6, <1>7, <1>12 DEF TInv, TornInv, TurnInv

\* The turn is what it was, but for what the server knows of it.
LEMMA TurnKept ==
  ASSUME TInv, TornInv', NEW d, T!FollowInv(d), UNCHANGED <<page, ask>>, SameTurn(turn, turn')
  PROVE  TInv' /\ T!FollowInv(d)'
<1>1. T!PageInv' /\ T!AskInv' BY DEF TInv, T!PageInv, T!AskInv, SameTurn, TornInv, TurnInv
<1>2. T!FollowInv(d)' BY DEF T!FollowInv, T!Echoed, T!Echo, SameTurn
<1> QED BY <1>1, <1>2 DEF TInv, TornInv, TurnInv

\* A row of the moment is drawn.
LEMMA AsideDrawn ==
  ASSUME TInv, TornInv', NEW d, T!FollowInv(d), page' = T!addMsg(page, "aside", 0), ask' = ask,
         SameTurn(turn, turn')
  PROVE  TInv' /\ T!FollowInv(d)'
<1> DEFINE n == page.next
           f == turn.from
<1>1. /\ Sound(page, f) /\ n \in Nat \ {0} /\ \A a \in T!Ids(page) : a \in Nat /\ a < n
      /\ T!Echo \in Nat /\ T!Echo < n /\ page.owns = turn.attached
  BY Facts, FormedIs DEF Sound
<1>2. /\ Moved(page, f, page') /\ Rest(page') = Rest(page) /\ page'.next = n + 1
      /\ \E r : Placed(page, page', r, 0) /\ r.id = page.next /\ r.kind = "aside"
  BY <1>1, NoteIs
<1>3. PICK r : Placed(page, page', r, 0) /\ r.id = page.next /\ r.kind = "aside" BY <1>2
<1>4. /\ page'.seg = page.seg /\ page'.activity = page.activity /\ page'.turnTop = page.turnTop
      /\ page'.tools = page.tools /\ page'.owns = page.owns /\ page'.skip = page.skip
  BY <1>2 DEF Rest
<1>5. /\ T!Ids(page') = T!Ids(page) \cup {n} /\ n \notin T!Ids(page) /\ T!Line(page', n).kind = "aside"
      /\ \A a \in T!Ids(page) : T!Line(page', a) = T!Line(page, a)
      /\ \A a, b \in T!Ids(page) : T!Before(page', a, b) <=> T!Before(page, a, b)
  BY <1>3 DEF Placed
<1>6. \A x \in {0, T!Echo} : /\ T!Mine(page', f, x) = T!Mine(page, f, x)
                             /\ Keeps(page, page', T!Mine(page, f, x))
 <2>1. \A x \in {0, T!Echo} : x # page.next BY <1>1
 <2> QED BY <1>1, <1>3, <2>1, MinePlaced
<1> HIDE DEF n, f
<1>7. T!PageInv'
 <2>1. /\ T!Good(page', f) /\ turn' \in T!TurnStates /\ f <= page'.next /\ (T!Idle(page) => T!Idle(page'))
   BY <1>2, <1>4 DEF Moved, Sound, T!Good, T!Idle, TornInv, TurnInv
 <2> QED BY <1>4, <1>5, <2>1 DEF TInv, T!PageInv, SameTurn, f
<1>8. T!AskInv' BY <1>4, <1>5 DEF TInv, T!AskInv, SameTurn
<1>9. T!Same(page, f, T!Echo, d) => T!Same(page', f, T!Echo, d)
 <2> SUFFICES ASSUME T!Same(page, f, T!Echo, d) PROVE T!Same(page', f, T!Echo, d) OBVIOUS
 <2>1. Paired(page, f, T!Echo, d) /\ Sound(d, 1) /\ page.owns = d.owns
   BY <1>1, SameIs, FollowsIs DEF n, Paired
 <2>2. Keeps(d, d, T!Mine(d, 1, 0)) BY MineIs DEF Keeps
 <2>3. Sound(page', f) /\ T!Echo < page'.next /\ \A a \in T!Ids(page') : a \in T!Ids(page) \/ a = page.next
   BY <1>1, <1>2, <1>5 DEF Moved, n
 <2>4. Paired(page', f, T!Echo, d) BY <1>1, <1>4, <1>6, <2>1, <2>2, <2>3, PairKept
 <2> QED BY <1>1, <2>3, <2>4, SameIs
<1>10. T!Echoed => T!Echoed'
 <2>1. T!Echoed => f \in T!Ids(page) BY DEF T!Echoed, T!Mine, f
 <2>2. T!Mine(page', f, 0) = T!Mine(page, f, 0) BY <1>6
 <2> QED BY <1>4, <1>5, <2>1, <2>2 DEF T!Echoed, T!None, SameTurn, f
<1>11. T!Echo' = T!Echo /\ T!Mine(page', f, T!Echo) = T!Mine(page, f, T!Echo) BY <1>6 DEF T!Echo
<1>12. T!FollowInv(d)'
 <2>1. (\A a \in T!Ids(page) : T!Line(page, a).kind = "aside")
           => \A a \in T!Ids(page') : T!Line(page', a).kind = "aside"
   BY <1>5
 <2> QED BY <1>4, <1>9, <1>10, <1>11, <2>1 DEF T!FollowInv, SameTurn, f
<1> QED BY <1>7, <1>8, <1>12 DEF TInv, TornInv, TurnInv

\* The aside, a stream that vanishes, and a late answer in a view that shows no turn.
LEMMA StepAside ==
  ASSUME TInv, TornInv', NEW d, T!FollowInv(d), T!Aside \/ T!Vanish \/ (T!LateNews /\ ~turn'.torn)
  PROVE  TInv' /\ T!FollowInv(d)' /\ turn'.pos = turn.pos /\ turn'.log = turn.log
<1>1. page \in T!Pages /\ turn \in T!TurnStates /\ turn.attached \in BOOLEAN
  BY Facts, TurnFacts, FormedIs DEF Sound, TornInv, TurnInv
<1>2. SameTurn(turn, turn')
 <2>1. (turn.torn \/ turn.attached) \in BOOLEAN OBVIOUS
 <2> QED BY <1>1, <2>1 DEF T!Aside, T!Vanish, T!LateNews, T!TurnStates, SameTurn
<1>3. CASE T!Vanish BY <1>2, <1>3, TurnKept DEF T!Vanish, SameTurn
<1>4. CASE T!Aside \/ (T!LateNews /\ ~turn'.torn)
 <2>1. page' = T!addMsg(page, "aside", 0) /\ ask' = ask
  <3>1. CASE T!Aside BY <3>1 DEF T!Aside, T!None
  <3>2. CASE T!LateNews /\ ~turn'.torn
   <4>1. turn'.torn = (turn.torn \/ turn.attached)
    <5>1. (turn.torn \/ turn.attached) \in BOOLEAN OBVIOUS
    <5> QED BY <1>1, <3>2, <5>1, Zenon DEF T!LateNews, T!TurnStates
   <4>2. turn.attached = FALSE BY <1>1, <3>2, <4>1
   <4>3. page.owns = FALSE /\ page.seg = T!NoSeg BY <4>2, Between
   <4>4. T!finalizeSeg(page) = page /\ [page EXCEPT !.owns = FALSE] = page
     BY <1>1, <4>3 DEF T!finalizeSeg, T!NoSeg, T!Pages
   <4> QED BY <3>2, <4>4 DEF T!LateNews, T!loseTurn, T!None
  <3> QED BY <1>4, <3>1, <3>2
 <2> QED BY <1>2, <2>1, AsideDrawn DEF SameTurn
<1> QED BY <1>3, <1>4

\* The view learns that the stream is gone: the turn is over here, and excepted.
LEMMA StepStreamGone ==
  ASSUME TInv, TornInv', NEW d, T!StreamGone
  PROVE  TInv' /\ T!FollowInv(d)' /\ turn'.pos = turn.pos /\ turn'.log = turn.log
<1> DEFINE f == turn.from
           p == T!finalizeSeg(page)
           q == T!addMsg(p, "aside", 0)
           g == [p EXCEPT !.owns = FALSE]
<1>1. turn.attached /\ page' = T!addMsg(g, "aside", 0) /\ ask' = ask
  BY DEF T!StreamGone, T!loseTurn, T!None
<1>2. /\ turn'.log = turn.log /\ turn'.pos = turn.pos /\ turn'.from = f /\ turn'.spoilt /\ turn'.lost
      /\ turn'.attached = FALSE
 <2>1. turn \in T!TurnStates /\ \A again \in BOOLEAN : (turn.late \/ again) \in BOOLEAN
   BY Facts DEF TornInv, TurnInv
 <2> QED BY <2>1 DEF T!StreamGone, T!TurnStates
<1>3. Moved(page, f, p) /\ p.seg = T!NoSeg /\ Sound(p, f) /\ p \in T!Pages
  BY Facts, Finalized, FormedIs DEF Moved, Sound
<1> HIDE DEF f, p
<1>4. Moved(p, f, q) BY <1>3, NoteIs
<1>5. FlagsOnly(p, g) /\ g.owns = FALSE BY <1>3 DEF FlagsOnly, T!Pages
<1>6. page'.rows = q.rows
 <2>1. g \in T!Pages /\ g.rows = p.rows /\ g.next = p.next BY <1>5 DEF FlagsOnly
 <2> QED BY <1>1, <1>3, <2>1 DEF T!addMsg, T!Pages
<1>7. Sound(g, f)
 <2>1. T!Formed(p) /\ Rowed(p) /\ g \in T!Pages BY <1>3, <1>5, FormedIs DEF Sound, FlagsOnly
 <2>2. T!Formed(g) BY <1>5, <2>1, Refielded DEF T!Formed, FlagsOnly
 <2>3. /\ T!Ids(g) = T!Ids(p) /\ \A a : T!Line(g, a) = T!Line(p, a)
       /\ \A a, b : T!Before(g, a, b) <=> T!Before(p, a, b)
   BY <1>5, <2>1, SameRows DEF FlagsOnly
 <2>4. T!Drawn(g) /\ T!Topped(g, f) BY <1>3, <1>5, <2>3 DEF Sound, T!Drawn, T!Topped, FlagsOnly
 <2> QED BY <1>3, <1>5, <2>2, <2>4 DEF Sound, FlagsOnly
<1> HIDE DEF q, g
<1>8. Moved(g, f, page') /\ Rest(page') = Rest(g) BY <1>1, <1>7, NoteIs
<1>9. Sound(page', f) /\ page'.seg = T!NoSeg /\ page'.owns = FALSE
  BY <1>3, <1>5, <1>8 DEF Moved, Rest, FlagsOnly
<1>10. T!AskInv'
 <2>1. Moved(page, f, q) BY <1>3, <1>4, MovedTwice
 <2> QED BY <1>1, <1>2, <1>6, <2>1, AskKept DEF f
<1>11. T!PageInv' BY <1>2, <1>9 DEF T!PageInv, Sound, TornInv, TurnInv, T!Good
<1>12. T!FollowInv(d)' BY <1>2 DEF T!FollowInv
<1> QED BY <1>2, <1>10, <1>11, <1>12 DEF TInv, TornInv, TurnInv

\* The page of a reopened conversation is clean.
LEMMA PageReopened ==
  ASSUME NEW v \in T!Pages, NEW n \in Nat \ {0}, NEW t \in Nat, NEW r \in BOOLEAN,
         NEW b \in BOOLEAN,
         NEW s \in BOOLEAN
  PROVE  Clean(Cleaned(v, n, t, r, b, s), v, n, t, b, s)
<1> DEFINE u == Cleaned(v, n, t, r, b, s)
<1>1. u \in T!Pages BY DEF T!Pages, Cleaned
<1>2. u.rows = v.rows /\ u.seg = v.seg /\ u.activity = v.activity /\ u.turnTop = v.turnTop /\ u.tools = v.tools
  BY DEF T!Pages, Cleaned
<1>3. u.next = n /\ u.todo = t /\ u.owns = b /\ u.skip = s BY DEF T!Pages, Cleaned
<1> QED BY <1>1, <1>2, <1>3 DEF Clean

\* The conversation is opened again.
LEMMA StepReopen ==
  ASSUME TornInv, T!Reopen, NEW d, turn.live => d = T!Fresh
  PROVE  TInv' /\ TornInv' /\ T!FollowInv(d)' /\ turn'.log = turn.log
         /\ turn'.pos = IF turn.live THEN 0 ELSE Len(turn.log)
<1> DEFINE n == page.next
           c == IF turn.live THEN 0 ELSE Len(turn.log)
           s == IF turn.live THEN FALSE ELSE page.skip
           b == turn.live
<1>1. PICK a : /\ a \in BOOLEAN
               /\ turn' = [turn EXCEPT !.pos = c, !.attached = b, !.from = n, !.late = a,
                                       !.lost = FALSE, !.torn = FALSE]
 <2>1. \A out \in BOOLEAN : (turn.late \/ (turn.attached /\ turn.gone /\ out)) \in BOOLEAN
   OBVIOUS
 <2> QED BY <2>1 DEF T!Reopen
<1>12. /\ page' = [T!Blank EXCEPT !.next = n, !.todo = page.todo, !.raf = page.raf, !.owns = b, !.skip = s]
       /\ ask' = [ask EXCEPT !.moved = ask.out, !.crossed = FALSE]
  BY DEF T!Reopen
<1>2. /\ n \in Nat \ {0} /\ page.todo \in Nat /\ page.todo < n /\ page.raf \in BOOLEAN /\ s \in BOOLEAN
      /\ c \in Nat /\ b \in BOOLEAN /\ turn \in T!TurnStates /\ ask \in T!AskStates
  BY TurnFacts DEF TornInv, TurnInv, Numbered
<1>3. /\ turn'.log = turn.log /\ turn'.live = turn.live /\ turn'.pos = c /\ turn'.gone = turn.gone
      /\ turn'.attached = b /\ turn'.from = n /\ turn'.spoilt = turn.spoilt /\ ~turn'.lost
 <2> HIDE DEF c, b, n
 <2> QED BY <1>1, <1>2 DEF T!TurnStates
<1>4. turn' \in T!TurnStates
 <2> DEFINE S == Seq(T!Logged)
 <2>1. turn \in TurnsOf(S) /\ turn.log \in S BY <1>2, TurnFacts, TurnsAre DEF TornInv
 <2> HIDE DEF c, b, n, S
 <2>2. [turn EXCEPT !.pos = c, !.attached = b, !.from = n, !.late = a, !.lost = FALSE, !.torn = FALSE]
          \in TurnsOf(S)
  <3>1. c \in Nat /\ n \in Nat /\ b \in BOOLEAN /\ a \in BOOLEAN BY <1>1, <1>2
  <3> QED BY <2>1, <3>1, TurnTyped
 <2> QED BY <1>1, <2>2, TurnsAre DEF S
<1>5. /\ ask' \in T!AskStates /\ ask'.out = ask.out /\ ask'.moved = ask.out
  BY <1>12, <1>2 DEF T!AskStates
<1>6. T!AskInv' /\ T!Echo' = 0 BY <1>5 DEF T!AskInv, T!Echo, T!None
<1>7. /\ page' \in T!Pages /\ page'.rows = <<>> /\ T!Idle(page') /\ page'.next = n /\ page'.todo = page.todo
      /\ page'.owns = b /\ page'.skip = s
 <2> DEFINE v == T!Blank
 <2>1. v \in T!Pages /\ v.rows = <<>> /\ T!Idle(v) BY BlankIs DEF T!Blank, T!Idle
 <2> HIDE DEF v
 <2>2. /\ page' \in T!Pages /\ page'.rows = v.rows /\ page'.seg = v.seg /\ page'.activity = v.activity
       /\ page'.turnTop = v.turnTop /\ page'.tools = v.tools
       /\ page'.next = n /\ page'.todo = page.todo /\ page'.owns = b /\ page'.skip = s
  <3>1. page' = Cleaned(v, n, page.todo, page.raf, b, s) BY <1>12 DEF v, Cleaned
  <3>2. b \in BOOLEAN /\ s \in BOOLEAN /\ n \in Nat \ {0} BY <1>2
  <3> HIDE DEF n, b, s
  <3>3. Clean(page', v, n, page.todo, b, s) BY <1>2, <2>1, <3>1, <3>2, PageReopened
  <3> QED BY <3>3 DEF Clean
 <2> QED BY <2>1, <2>2 DEF T!Idle
<1>8. Sound(page', n) /\ T!Ids(page') = {} /\ \A g, x : T!Mine(page', g, x) = {}
 <2>1. page'.todo < page'.next /\ n \in Nat /\ n <= page'.next BY <1>2, <1>7
 <2> QED BY <1>7, <2>1, EmptyIs
<1>9. T!PageInv'
 <2>1. page'.seg = T!NoSeg /\ turn'.from <= page'.next BY <1>2, <1>3, <1>7 DEF T!Idle
 <2> QED BY <1>3, <1>4, <1>7, <1>8, <2>1 DEF T!PageInv, Sound, T!Good
<1>10. T!LogInv'
 <2>1. Len(turn.log) \in Nat /\ (turn.live => Len(turn.log) > 0 /\ ~turn.gone)
   BY TurnFacts DEF TornInv, TurnInv, T!LogInv
 <2> QED BY <1>3, <2>1 DEF TornInv, TurnInv, T!LogInv
<1>11. T!FollowInv(d)'
 <2>1. CASE turn.live
  <3>1. Owning(page') /\ 0 \in Nat /\ 0 < page'.next /\ page'.skip = FALSE
    BY <1>2, <1>7, <2>1 DEF Owning
  <3>2. Paired(page', n, 0, d) BY <1>7, <1>8, <2>1, <3>1, PairEmpty
  <3>3. T!Same(page', n, 0, d) BY <1>8, <3>1, <3>2, SameIs
  <3> QED BY <1>3, <1>6, <1>8, <2>1, <3>1, <3>3 DEF T!FollowInv
 <2>2. CASE ~turn.live BY <1>3, <1>8, <2>2 DEF T!FollowInv
 <2> QED BY <2>1, <2>2
<1>13. TornInv'
 <2>1. page'.next = n /\ page'.todo = page.todo /\ page' \in T!Pages BY <1>7
 <2> HIDE DEF n
 <2>2. Numbered(page') BY <1>2, <2>1 DEF T!Pages, Numbered
 <2> QED BY <1>4, <1>5, <1>10, <2>2 DEF TornInv, TurnInv
<1> QED BY <1>3, <1>6, <1>9, <1>10, <1>11, <1>13 DEF TInv

------------------------
\* The replay

\* A replay starts fresh and draws event after event,
LEMMA ReplayAt ==
  ASSUME NEW log, Len(log) \in Nat, NEW f, IsReplay(f, log)
  PROVE  /\ f[0] = T!Fresh
         /\ \A i \in 0 .. Len(log) - 1 : f[i + 1] = T!draw(f[i], log[i + 1])
<1> DEFINE g(i) == IF i = 0 THEN T!Fresh ELSE T!draw(f[i - 1], log[i])
<1>1. f = [i \in 0 .. Len(log) |-> g(i)] BY DEF IsReplay
<1>2. \A i \in 0 .. Len(log) : f[i] = g(i)
 <2> HIDE DEF g
 <2> QED BY <1>1
<1>3. f[0] = T!Fresh BY <1>2
<1>4. ASSUME NEW i \in 0 .. Len(log) - 1
      PROVE  f[i + 1] = T!draw(f[i], log[i + 1])
 <2>1. i + 1 \in 0 .. Len(log) /\ i + 1 # 0 /\ (i + 1) - 1 = i OBVIOUS
 <2> QED BY <1>2, <2>1
<1> QED BY <1>3, <1>4

\* and what does so is one.
LEMMA ReplayIs ==
  ASSUME NEW log, Len(log) \in Nat, NEW f, f = [i \in 0 .. Len(log) |-> f[i]], f[0] = T!Fresh,
         \A i \in 1 .. Len(log) : f[i] = T!draw(f[i - 1], log[i])
  PROVE  IsReplay(f, log)
<1>1. \A i \in 0 .. Len(log) : f[i] = IF i = 0 THEN T!Fresh ELSE T!draw(f[i - 1], log[i])
  OBVIOUS
<1>2. [i \in 0 .. Len(log) |-> f[i]]
         = [i \in 0 .. Len(log) |-> IF i = 0 THEN T!Fresh ELSE T!draw(f[i - 1], log[i])]
  BY <1>1
<1> QED BY <1>2 DEF IsReplay

\* There is a replay of nothing,
LEMMA ReplayEmpty ==
  ASSUME NEW log, Len(log) = 0
  PROVE  \E f : IsReplay(f, log)
<1> DEFINE f == [i \in 0 .. Len(log) |-> T!Fresh]
<1>1. f[0] = T!Fresh /\ f = [i \in 0 .. Len(log) |-> f[i]] OBVIOUS
<1> HIDE DEF f
<1>2. IsReplay(f, log) BY <1>1, ReplayIs
<1> QED BY <1>2

\* of one event,
LEMMA ReplayOne ==
  ASSUME NEW e
  PROVE  \E f : IsReplay(f, <<e>>)
<1> DEFINE log == <<e>>
           f == [i \in 0 .. Len(log) |-> IF i = 0 THEN T!Fresh ELSE T!draw(T!Fresh, e)]
<1>1. Len(log) = 1 /\ log[1] = e OBVIOUS
<1> HIDE DEF log
<1>2. f[0] = T!Fresh /\ f[1] = T!draw(T!Fresh, e) /\ f = [i \in 0 .. Len(log) |-> f[i]] BY <1>1
<1> HIDE DEF f
<1>3. \A i \in 1 .. Len(log) : f[i] = T!draw(f[i - 1], log[i])
 <2>1. \A i \in 1 .. Len(log) : i = 1 /\ i - 1 = 0 BY <1>1
 <2> QED BY <1>1, <1>2, <2>1
<1>4. IsReplay(f, log) BY <1>1, <1>2, <1>3, ReplayIs
<1> QED BY <1>4 DEF log

\* A longer log's replay begins as the shorter one's does, and can be had from it.
LEMMA ReplayGrown ==
  ASSUME NEW S, NEW log \in Seq(S), NEW e \in S, NEW f, IsReplay(f, Append(log, e))
  PROVE  \E g : IsReplay(g, log) /\ \A i \in 0 .. Len(log) : g[i] = f[i]
<1> DEFINE n == Len(log)
           more == Append(log, e)
           g == [i \in 0 .. n |-> f[i]]
<1>1. n \in Nat /\ Len(more) = n + 1 /\ \A i \in 1 .. n : more[i] = log[i] OBVIOUS
<1> HIDE DEF more
<1>2. f[0] = T!Fresh /\ \A i \in 0 .. n : f[i + 1] = T!draw(f[i], more[i + 1])
 <2>1. Len(more) \in Nat /\ 0 .. Len(more) - 1 = 0 .. n BY <1>1
 <2> QED BY <2>1, ReplayAt DEF more
<1>3. \A i \in 0 .. n : g[i] = f[i] OBVIOUS
<1>4. g = [i \in 0 .. n |-> g[i]] BY <1>3
<1> HIDE DEF g
<1>5. \A i \in 1 .. n : g[i] = T!draw(g[i - 1], log[i])
 <2> SUFFICES ASSUME NEW i \in 1 .. n PROVE g[i] = T!draw(g[i - 1], log[i]) OBVIOUS
 <2>1. i - 1 \in 0 .. n /\ (i - 1) + 1 = i /\ i \in 0 .. n BY <1>1
 <2>2. f[i] = T!draw(f[i - 1], more[i]) BY <1>2, <2>1
 <2> QED BY <1>1, <1>3, <2>1, <2>2
<1>6. IsReplay(g, log)
 <2>1. g[0] = T!Fresh BY <1>1, <1>2, <1>3
 <2> QED BY <1>1, <1>4, <1>5, <2>1, ReplayIs
<1> QED BY <1>3, <1>6

\* and of one event more.
LEMMA ReplayGrows ==
  ASSUME NEW S, NEW log \in Seq(S), NEW e \in S, NEW g, IsReplay(g, log)
  PROVE  \E f : IsReplay(f, Append(log, e))
<1> DEFINE n == Len(log)
           more == Append(log, e)
           f == [i \in 0 .. Len(more) |-> IF i <= n THEN g[i] ELSE T!draw(g[n], e)]
<1>1. n \in Nat /\ Len(more) = n + 1 /\ more[n + 1] = e /\ \A i \in 1 .. n : more[i] = log[i]
  OBVIOUS
<1> HIDE DEF more
<1>2. g[0] = T!Fresh /\ \A i \in 0 .. n - 1 : g[i + 1] = T!draw(g[i], log[i + 1])
  BY <1>1, ReplayAt
<1>3. (\A i \in 0 .. n : f[i] = g[i]) /\ f[n + 1] = T!draw(g[n], e) /\ f = [i \in 0 .. Len(more) |-> f[i]]
  BY <1>1
<1> HIDE DEF f
<1>4. \A i \in 1 .. n + 1 : f[i] = T!draw(f[i - 1], more[i])
 <2> SUFFICES ASSUME NEW i \in 1 .. n + 1 PROVE f[i] = T!draw(f[i - 1], more[i]) OBVIOUS
 <2>1. CASE i = n + 1
  <3>1. i - 1 = n /\ n \in 0 .. n BY <1>1, <2>1
  <3> QED BY <1>1, <1>3, <2>1, <3>1
 <2>2. CASE i # n + 1
  <3>1. i - 1 \in 0 .. n - 1 /\ i - 1 \in 0 .. n /\ (i - 1) + 1 = i /\ i \in 1 .. n /\ i \in 0 .. n
    BY <1>1, <2>2
  <3>2. g[i] = T!draw(g[i - 1], log[i]) BY <1>2, <3>1
  <3> QED BY <1>1, <1>3, <3>1, <3>2
 <2> QED BY <2>1, <2>2
<1>5. IsReplay(f, more)
 <2>1. f[0] = T!Fresh BY <1>1, <1>2, <1>3
 <2>2. Len(more) \in Nat /\ \A i \in 1 .. Len(more) : f[i] = T!draw(f[i - 1], more[i])
   BY <1>1, <1>4
 <2> QED BY <1>3, <2>1, <2>2, ReplayIs
<1> QED BY <1>5 DEF more

------------------------
\* The invariant of the transcript.

\* At first nothing is logged.
LEMMA TranscriptInit == T!Init => ReplayInv
<1> SUFFICES ASSUME T!Init PROVE ReplayInv OBVIOUS
<1>1. /\ page = T!Blank /\ turn.log = <<>> /\ turn.pos = 0 /\ turn.attached = FALSE /\ turn.live = FALSE
      /\ turn.from = 1 /\ ask.out = FALSE /\ turn.gone = FALSE /\ turn.lost = FALSE
  BY DEF T!Init
<1>2. turn \in T!TurnStates
 <2>1. << >> \in Seq(T!Logged) BY EmptySeq
 <2>2. turn = [n |-> 0, emitted |-> 0, live |-> FALSE, log |-> <<>>, pos |-> 0, attached |-> FALSE,
               from |-> 1, spoilt |-> FALSE, gone |-> FALSE, late |-> FALSE, lost |-> FALSE, torn |-> FALSE]
   BY DEF T!Init
 <2> DEFINE S == Seq(T!Logged)
 <2> HIDE DEF S
 <2>3. turn \in TurnsOf(S) BY <2>1, <2>2 DEF TurnsOf, S
 <2> QED BY <2>3, TurnsAre DEF S
<1>3. ask \in T!AskStates BY DEF T!Init, T!AskStates, T!None
<1>4. /\ page \in T!Pages /\ page.rows = <<>> /\ T!Idle(page) /\ page.todo < page.next /\ page.next = 1
      /\ page.owns = FALSE /\ page.seg = T!NoSeg
  BY <1>1, BlankIs DEF T!Blank, T!Idle, T!None
<1>5. Sound(page, 1) /\ T!Ids(page) = {} /\ \A g, x : T!Mine(page, g, x) = {} BY <1>4, EmptyIs
<1>6. Len(turn.log) = 0 /\ DOMAIN turn.log = {} BY <1>1
<1>7. T!PageInv BY <1>1, <1>2, <1>4, <1>5 DEF T!PageInv, Sound, T!Good
<1>8. T!LogInv BY <1>1, <1>6 DEF T!LogInv
<1>9. T!AskInv BY <1>1, <1>3 DEF T!AskInv
<1>10. \A d : T!FollowInv(d) BY <1>1, <1>5 DEF T!FollowInv
<1>11. TInv /\ TornInv BY <1>7, <1>8, <1>9, Facts DEF TInv
<1> QED BY <1>6, <1>10, <1>11, ReplayEmpty DEF ReplayInv

\* The invariant speaks of these three.
LEMMA TranscriptStutter ==
  ASSUME ReplayInv, UNCHANGED <<page, turn, ask>>
  PROVE  ReplayInv'
<1>1. TInv => TInv' BY DEF TInv, T!PageInv, T!LogInv, T!AskInv
<1>2. ASSUME NEW d, T!FollowInv(d)
      PROVE  T!FollowInv(d)'
  BY <1>2 DEF T!FollowInv, T!Echoed, T!Echo
<1>3. TornInv' BY DEF ReplayInv, TornInv, TurnInv, T!LogInv, Numbered
<1> QED BY <1>1, <1>2, <1>3 DEF ReplayInv

\* A turn's first event is logged with its beginning.
LEMMA LogBegun ==
  ASSUME T!Announced \/ T!SendStarted
  PROVE  \E f : IsReplay(f, turn'.log)
<1>1. \E e, a, b, c : T!NextTurn(<<e>>, a, b, c) BY Zenon DEF T!Announced, T!SendStarted
<1>2. \A e, a, b, c : T!NextTurn(<<e>>, a, b, c) => turn'.log = <<e>> BY DEF T!NextTurn
<1> QED BY <1>1, <1>2, ReplayOne

\* What is logged after a step has a replay.
LEMMA Replayed ==
  ASSUME TornInv, T!Next, NEW g, IsReplay(g, turn.log)
  PROVE  \E f : IsReplay(f, turn'.log)
<1>1. turn \in T!TurnStates /\ turn.log \in Seq(T!Logged) BY TurnFacts DEF TornInv, TurnInv
<1>2. ASSUME NEW e \in T!Events \cup {T!EndEvent}, T!Emit(e)
      PROVE  \E f : IsReplay(f, turn'.log)
 <2>1. turn'.log = Append(turn.log, e) /\ e \in T!Logged BY <1>2, Emitting, LoggedIs DEF TornInv
 <2> QED BY <1>1, <2>1, ReplayGrows
<1>3. CASE T!Deliver \/ T!Frame \/ T!Vanish \/ T!StreamGone \/ T!LateNews \/ T!Aside
  BY <1>1, <1>3 DEF T!Deliver, T!Frame, T!Vanish, T!StreamGone, T!LateNews, T!Aside, T!TurnStates
<1>4. CASE T!Send \/ T!SendRefused \/ T!SendFailed \/ T!Reopen
  BY <1>1, <1>4 DEF T!Send, T!SendRefused, T!SendFailed, T!Reopen, T!TurnStates
<1> QED BY <1>2, <1>3, <1>4, LogBegun DEF T!Next

\* Every step keeps it, and a replay of the log goes with it.
LEMMA TranscriptStep ==
  ASSUME ReplayInv, T!Next
  PROVE  ReplayInv'
<1>1. /\ TornInv /\ turn.log \in Seq(T!Logged) /\ turn.pos \in Nat /\ Len(turn.log) \in Nat
      /\ turn.pos <= Len(turn.log)
  BY TurnFacts DEF ReplayInv, TornInv
<1>2. PICK g : IsReplay(g, turn.log) BY DEF ReplayInv
<1>3. \E f : IsReplay(f, turn'.log) BY <1>1, <1>2, Replayed
<1>4. CASE T!Reopen
 <2>1. ASSUME NEW d, turn.live => d = T!Fresh
       PROVE  TInv' /\ TornInv' /\ T!FollowInv(d)' /\ turn'.log = turn.log
              /\ turn'.pos = IF turn.live THEN 0 ELSE Len(turn.log)
   BY <1>1, <1>4, <2>1, StepReopen
 <2>2. TInv' /\ TornInv' /\ turn'.log = turn.log /\ turn'.pos = IF turn.live THEN 0 ELSE Len(turn.log)
   BY <2>1
 <2>3. ASSUME NEW f, IsReplay(f, turn'.log), NEW d, d = f[turn'.pos]
       PROVE  T!FollowInv(d)'
  <3>1. turn.live => d = T!Fresh BY <1>1, <2>2, <2>3, ReplayAt
  <3> QED BY <2>1, <3>1
 <2> QED BY <1>3, <2>2, <2>3 DEF ReplayInv
<1>5. CASE ~T!Reopen
 <2>1. TornInv' /\ (turn.torn => turn'.torn) BY <1>1, <1>5, TornStep
 <2> SUFFICES ASSUME ~turn'.torn, NEW f, IsReplay(f, turn'.log), NEW d, d = f[turn'.pos]
              PROVE  TInv' /\ T!FollowInv(d)'
   BY <1>3, <2>1 DEF ReplayInv
 <2>2. TInv /\ ~turn.torn BY <2>1 DEF ReplayInv
 <2>3. ASSUME NEW h, IsReplay(h, turn.log), NEW c, c = h[turn.pos]
       PROVE  T!FollowInv(c) /\ (turn.pos = 0 => c = T!Fresh)
  <3>1. h[0] = T!Fresh BY <1>1, <2>3, ReplayAt
  <3> QED BY <2>2, <2>3, <3>1 DEF ReplayInv
 <2>4. ASSUME NEW e \in T!Events \cup {T!EndEvent}, T!Emit(e)
       PROVE  TInv' /\ T!FollowInv(d)'
  <3>1. turn'.pos = turn.pos /\ turn'.log = Append(turn.log, e) /\ e \in T!Logged
    BY <1>1, <2>4, Emitting, LoggedIs DEF TornInv
  <3>2. PICK h : IsReplay(h, turn.log) /\ \A i \in 0 .. Len(turn.log) : h[i] = f[i]
    BY <1>1, <3>1, ReplayGrown
  <3>3. d = h[turn.pos] BY <1>1, <3>1, <3>2
  <3>4. T!FollowInv(d) BY <2>3, <3>2, <3>3
  <3> QED BY <2>1, <2>2, <2>4, <3>4, StepEmit
 <2>5. ASSUME T!Deliver
       PROVE  TInv' /\ T!FollowInv(d)'
  <3> DEFINE c == f[turn.pos]
  <3>1. turn'.pos = turn.pos + 1 /\ turn'.log = turn.log /\ turn.pos \in 0 .. Len(turn.log) - 1
   <4>1. turn.pos \in 0 .. Len(turn.log) - 1 BY <1>1, <2>5 DEF T!Deliver
   <4> QED BY <1>1, <2>5, <4>1, Delivering DEF TornInv
  <3>2. IsReplay(f, turn.log) /\ c = f[turn.pos] BY <3>1
  <3>3. d = T!draw(c, turn.log[turn.pos + 1]) BY <1>1, <3>1, <3>2, ReplayAt
  <3> HIDE DEF c
  <3>4. T!FollowInv(c) /\ (turn.pos = 0 => c = T!Fresh) BY <2>3, <3>2
  <3> QED BY <2>1, <2>2, <2>5, <3>3, <3>4, StepDeliver
 <2>6. ASSUME \/ T!Frame \/ T!Send \/ T!SendRefused \/ T!SendFailed \/ T!StreamGone
              \/ T!Aside \/ T!Vanish \/ T!LateNews
       PROVE  TInv' /\ T!FollowInv(d)'
  <3>1. ASSUME NEW c, T!FollowInv(c)
        PROVE  TInv' /\ T!FollowInv(c)' /\ turn'.pos = turn.pos /\ turn'.log = turn.log
   <4>1. CASE T!Frame \/ T!Send \/ T!SendRefused \/ T!SendFailed
     BY <2>1, <2>2, <3>1, <4>1, StepFrame, StepSend, StepSendRefused, StepSendFailed
   <4>2. CASE T!StreamGone BY <2>1, <2>2, <4>2, StepStreamGone
   <4>3. CASE T!Aside \/ T!Vanish \/ T!LateNews BY <2>1, <2>2, <3>1, <4>3, StepAside
   <4> QED BY <2>6, <4>1, <4>2, <4>3
  <3>2. turn'.pos = turn.pos /\ turn'.log = turn.log BY <1>2, <2>3, <3>1
  <3>3. T!FollowInv(d) BY <2>3, <3>2
  <3> QED BY <3>1, <3>3
 <2>7. ASSUME T!Announced \/ T!SendStarted
       PROVE  TInv' /\ T!FollowInv(d)'
  <3>1. TInv' /\ T!FollowInv(T!Fresh)' /\ turn'.pos = 0
    BY <2>1, <2>2, <2>7, StepAnnounced, StepSendStarted
  <3>2. Len(turn'.log) \in Nat BY <2>1 DEF TornInv, TurnInv, T!TurnStates
  <3>3. d = T!Fresh BY <3>1, <3>2, ReplayAt
  <3> QED BY <3>1, <3>3
 <2> QED BY <1>5, <2>4, <2>5, <2>6, <2>7 DEF T!Next
<1> QED BY <1>4, <1>5

------------------------
\* The property

\* The sizes Transcript counts are those the library's theorems are about.
LEMMA SizeIs ==
  ASSUME NEW S
  PROVE  T!Cardinality(S) = Cardinality(S)
BY DEF T!Cardinality, Cardinality, T!IsFiniteSet, IsFiniteSet

\* Sets that correspond one to one, the first of them finite, are of a size.
LEMMA SameSize ==
  ASSUME NEW S, NEW Q, IsFiniteSet(S), NEW g \in [S -> Q],
         \A i, j \in S : g[i] = g[j] => i = j, \A b \in Q : \E i \in S : g[i] = b
  PROVE  T!Cardinality(S) = T!Cardinality(Q)
<1>1. g \in Bijection(S, Q) BY DEF Bijection, Injection, Surjection, IsInjective
<1>2. ExistsBijection(S, Q) BY <1>1 DEF ExistsBijection
<1>3. Cardinality(Q) = Cardinality(S) BY <1>2, FS_Bijection
<1> QED BY <1>3, SizeIs

\* The places of the turn's rows.
LEMMA OwnIs ==
  ASSUME NEW v, Rowed(v), NEW from
  PROVE  /\ T!Own(v, from) \subseteq DOMAIN v.rows /\ IsFiniteSet(T!Own(v, from))
         /\ \A i \in T!Own(v, from) : v.rows[i].id \in T!Mine(v, from, 0)
         /\ \A a \in T!Mine(v, from, 0) : T!At(v, a) \in T!Own(v, from)
<1>1. T!Own(v, from) \subseteq DOMAIN v.rows BY DEF T!Own
<1>2. IsFiniteSet(T!Own(v, from))
 <2>1. DOMAIN v.rows = 1 .. Len(v.rows) /\ Len(v.rows) \in Nat BY DEF Rowed
 <2>2. IsFiniteSet(1 .. Len(v.rows))
  <3> DEFINE n == Len(v.rows)
  <3>1. 1 \in Int /\ n \in Int BY <2>1
  <3> HIDE DEF n
  <3>2. IsFiniteSet(1 .. n) BY <3>1, FS_Interval
  <3> QED BY <3>2 DEF n
 <2> QED BY <1>1, <2>1, <2>2, FS_Subset
<1>3. ASSUME NEW i \in T!Own(v, from)
      PROVE  v.rows[i].id \in T!Mine(v, from, 0)
 <2>1. i \in DOMAIN v.rows /\ v.rows[i].id >= from /\ v.rows[i].kind \notin {"pending", "todo", "aside"}
   BY <1>3 DEF T!Own
 <2>2. /\ v.rows[i].id \in T!Ids(v) /\ T!Line(v, v.rows[i].id) = v.rows[i] /\ v.rows[i].id # 0
   BY <2>1, AtIs
 <2> QED BY <2>1, <2>2 DEF T!Mine
<1>4. ASSUME NEW a \in T!Mine(v, from, 0)
      PROVE  T!At(v, a) \in T!Own(v, from)
 <2>1. a \in T!Ids(v) /\ a >= from /\ T!Line(v, a).kind \notin {"pending", "todo", "aside"}
   BY <1>4 DEF T!Mine
 <2>2. T!At(v, a) \in DOMAIN v.rows /\ v.rows[T!At(v, a)].id = a /\ T!Line(v, a) = v.rows[T!At(v, a)]
   BY <2>1, IdIs
 <2> QED BY <2>1, <2>2 DEF T!Own
<1> QED BY <1>1, <1>2, <1>3, <1>4

\* Views that draw a turn alike read alike.
LEMMA ReadsAlike ==
  ASSUME NEW from, NEW v, Rowed(v), NEW d, Rowed(d), NEW m,
         T!Alike(m, v, T!Mine(v, from, 0), d, T!Mine(d, 1, 0))
  PROVE  T!ReadsAs(v, T!Own(v, from), d, T!Own(d, 1))
<1> DEFINE S == T!Own(v, from)
           Q == T!Own(d, 1)
           F == T!Mine(v, from, 0)
           G == T!Mine(d, 1, 0)
           g == [i \in S |-> T!At(d, m[v.rows[i].id])]
<1>1. /\ m \in [F -> G] /\ (\A a, b \in F : m[a] = m[b] => a = b)
      /\ (\A b \in G : \E a \in F : m[a] = b)
      /\ (\A a, b \in F : T!Before(v, a, b) <=> T!Before(d, m[a], m[b]))
      /\ (\A a \in F : T!Says(T!Line(v, a)) = T!Says(T!Line(d, m[a])))
  BY DEF T!Alike
<1>2. /\ S \subseteq DOMAIN v.rows /\ IsFiniteSet(S)
      /\ \A i \in S : v.rows[i].id \in F /\ T!At(v, v.rows[i].id) = i /\ T!Line(v, v.rows[i].id) = v.rows[i]
      /\ \A a \in F : T!At(v, a) \in S /\ v.rows[T!At(v, a)].id = a
      /\ \A i \in S : i \in Nat
 <2>1. F \subseteq T!Ids(v) BY MineIs
 <2>2. S \subseteq DOMAIN v.rows /\ IsFiniteSet(S) /\ (\A i \in S : v.rows[i].id \in F)
       /\ (\A a \in F : T!At(v, a) \in S)
   BY OwnIs
 <2>3. \A i \in S : T!At(v, v.rows[i].id) = i /\ T!Line(v, v.rows[i].id) = v.rows[i]
   BY <2>2, AtIs
 <2>4. \A a \in F : v.rows[T!At(v, a)].id = a BY <2>1, IdIs
 <2>5. \A i \in S : i \in Nat BY <2>2 DEF Rowed
 <2> QED BY <2>2, <2>3, <2>4, <2>5
<1>3. /\ Q \subseteq DOMAIN d.rows
      /\ \A j \in Q : d.rows[j].id \in G /\ T!At(d, d.rows[j].id) = j
      /\ \A b \in G : T!At(d, b) \in Q /\ d.rows[T!At(d, b)].id = b /\ T!Line(d, b) = d.rows[T!At(d, b)]
      /\ \A j \in Q : j \in Nat
 <2>1. G \subseteq T!Ids(d) BY MineIs
 <2>2. Q \subseteq DOMAIN d.rows /\ (\A i \in Q : d.rows[i].id \in G)
       /\ (\A a \in G : T!At(d, a) \in Q)
   BY OwnIs
 <2>3. \A j \in Q : T!At(d, d.rows[j].id) = j BY <2>2, AtIs
 <2>4. \A b \in G : d.rows[T!At(d, b)].id = b /\ T!Line(d, b) = d.rows[T!At(d, b)] BY <2>1, IdIs
 <2>5. \A j \in Q : j \in Nat BY <2>2 DEF Rowed
 <2> QED BY <2>2, <2>3, <2>4, <2>5
<1> HIDE DEF S, Q, F, G
<1>4. g \in [S -> Q] /\ \A i \in S : g[i] = T!At(d, m[v.rows[i].id]) BY <1>1, <1>2, <1>3
<1> HIDE DEF g
<1>5. ASSUME NEW i \in S, NEW j \in S
      PROVE  /\ g[i] = g[j] => i = j
             /\ i < j <=> g[i] < g[j]
 <2> DEFINE a == v.rows[i].id
            b == v.rows[j].id
 <2>1. /\ a \in F /\ b \in F /\ T!At(v, a) = i /\ T!At(v, b) = j /\ g[i] = T!At(d, m[a]) /\ g[j] = T!At(d, m[b])
   BY <1>2, <1>4
 <2> HIDE DEF a, b
 <2>2. T!Before(v, a, b) <=> T!Before(d, m[a], m[b]) BY <1>1, <2>1
 <2>3. i < j <=> g[i] < g[j] BY <2>1, <2>2 DEF T!Before
 <2>4. ASSUME g[i] = g[j]
       PROVE  i = j
  <3>1. m[a] \in G /\ m[b] \in G BY <1>1, <2>1
  <3>2. m[a] = m[b]
   <4>1. d.rows[T!At(d, m[a])].id = m[a] /\ d.rows[T!At(d, m[b])].id = m[b] BY <1>3, <3>1
   <4> QED BY <2>1, <2>4, <4>1
  <3> QED BY <1>1, <2>1, <3>2
 <2> QED BY <2>3, <2>4
<1>6. ASSUME NEW j \in Q
      PROVE  \E i \in S : g[i] = j
 <2> DEFINE b == d.rows[j].id
 <2>1. b \in G /\ T!At(d, b) = j BY <1>3
 <2> HIDE DEF b
 <2>2. PICK a \in F : m[a] = b BY <1>1, <2>1
 <2>3. T!At(v, a) \in S /\ v.rows[T!At(v, a)].id = a BY <1>2
 <2>4. g[T!At(v, a)] = j BY <1>4, <2>1, <2>2, <2>3
 <2> QED BY <2>3, <2>4
<1>7. T!Cardinality(S) = T!Cardinality(Q) BY <1>2, <1>4, <1>5, <1>6, SameSize
<1>8. ASSUME NEW i \in S
      PROVE  T!Rank(S, i) = T!Rank(Q, g[i])
 <2> DEFINE P == {j \in S : j <= i}
            Low == {j \in Q : j <= g[i]}
            h == [j \in P |-> g[j]]
 <2>1. P \subseteq S /\ IsFiniteSet(P) BY <1>2, FS_Subset
 <2>2. \A j \in S : j <= i <=> g[j] <= g[i]
  <3> SUFFICES ASSUME NEW j \in S PROVE j <= i <=> g[j] <= g[i] OBVIOUS
  <3>1. i < j <=> g[i] < g[j] BY <1>5
  <3>2. i \in Nat /\ j \in Nat /\ g[i] \in Nat /\ g[j] \in Nat BY <1>2, <1>3, <1>4
  <3> QED BY <3>1, <3>2
 <2>3. h \in [P -> Low] /\ \A j \in P : h[j] = g[j] BY <1>4, <2>2
 <2>4. \A b \in Low : \E j \in P : h[j] = b BY <1>6, <2>2, <2>3
 <2> HIDE DEF h
 <2>5. \A j, k \in P : h[j] = h[k] => j = k BY <1>5, <2>1, <2>3
 <2> HIDE DEF P, Low
 <2>6. T!Cardinality(P) = T!Cardinality(Low) BY <2>1, <2>3, <2>4, <2>5, SameSize
 <2> QED BY <2>6 DEF T!Rank, P, Low
<1>9. ASSUME NEW i \in S
      PROVE  g[i] \in Q /\ T!Says(v.rows[i]) = T!Says(d.rows[g[i]])
 <2> DEFINE a == v.rows[i].id
 <2>1. a \in F /\ T!Line(v, a) = v.rows[i] /\ g[i] = T!At(d, m[a]) BY <1>2, <1>4
 <2> HIDE DEF a
 <2>2. m[a] \in G /\ T!Says(T!Line(v, a)) = T!Says(T!Line(d, m[a])) BY <1>1, <2>1
 <2>3. T!Line(d, m[a]) = d.rows[T!At(d, m[a])] BY <1>3, <2>2
 <2> QED BY <1>4, <2>1, <2>2, <2>3
<1> QED BY <1>7, <1>8, <1>9 DEF T!ReadsAs, S, Q

\* The view that Replay chooses is one of those the invariant speaks of.
LEMMA ReplayIsOne ==
  ASSUME NEW log, NEW g, IsReplay(g, log)
  PROVE  \E f : IsReplay(f, log) /\ T!Replay(log) = f[Len(log)]
<1> DEFINE f == CHOOSE drawn : drawn = [i \in 0 .. Len(log) |-> IF i = 0 THEN T!Fresh
                                                             ELSE T!draw(drawn[i - 1], log[i])]
<1>1. IsReplay(f, log) BY DEF IsReplay
<1>2. T!Replay(log) = f[Len(log)] BY DEF T!Replay
<1> QED BY <1>1, <1>2

\* What the page shows of a turn is what a replay shows.
LEMMA Faithful ==
  ASSUME ReplayInv, ~turn.torn
  PROVE  T!ReplayFaithful
<1> SUFFICES ASSUME turn.pos = Len(turn.log), ~ask.out, ~turn.spoilt, NEW d, d = T!Replay(turn.log),
                    NEW own, own = T!Own(page, turn.from)
             PROVE  own = {} \/ T!ReadsAs(page, own, d, T!Own(d, 1))
  BY DEF T!ReplayFaithful
<1>1. TInv /\ Sound(page, turn.from) /\ Rowed(page) /\ 0 < page.next
  BY Facts, FormedIs DEF ReplayInv, Sound
<1>2. T!FollowInv(d)
 <2>1. PICK g : IsReplay(g, turn.log) BY DEF ReplayInv
 <2>2. PICK f : IsReplay(f, turn.log) /\ d = f[Len(turn.log)] BY <2>1, ReplayIsOne
 <2> QED BY <2>2 DEF ReplayInv
<1>3. T!Echo = 0 BY DEF T!Echo, T!None
<1>4. turn.attached => ~T!Echoed BY <1>1 DEF TInv, T!LogInv, T!Echoed
<1>5. T!Mine(page, turn.from, 0) = {} \/ T!Same(page, turn.from, 0, d)
  BY <1>2, <1>3, <1>4 DEF T!FollowInv
<1>6. CASE T!Mine(page, turn.from, 0) = {} BY <1>1, <1>6, OwnIs
<1>7. CASE T!Same(page, turn.from, 0, d)
 <2>1. Paired(page, turn.from, 0, d) BY <1>1, <1>7, SameIs
 <2>2. Rowed(d) /\ \E m : T!Alike(m, page, T!Mine(page, turn.from, 0), d, T!Mine(d, 1, 0))
   BY <2>1, FollowsIs, FormedIs DEF Paired, Sound
 <2> QED BY <1>1, <2>2, ReadsAlike
<1> QED BY <1>5, <1>6, <1>7

\* The other three hold of every view that is sound.
LEMMA Displayed ==
  ASSUME TInv
  PROVE  T!NothingUnpainted /\ T!WorkAbove /\ T!PendingHonest
<1>1. /\ T!Drawn(page) /\ T!Topped(page, turn.from) /\ Rowed(page) /\ page.owns = turn.attached
      /\ page.owns \in BOOLEAN
  BY Facts, FormedIs DEF Sound
<1>2. \A i \in DOMAIN page.rows : /\ page.rows[i].id \in T!Ids(page) /\ T!At(page, page.rows[i].id) = i
                                  /\ T!Line(page, page.rows[i].id) = page.rows[i] /\ i \in Nat
  BY <1>1, AtIs DEF Rowed
<1>3. T!NothingUnpainted BY <1>1, <1>2 DEF T!NothingUnpainted, T!Kind, T!Drawn
<1>4. T!WorkAbove
 <2> SUFFICES ASSUME T!Has(page, page.activity), T!Has(page, page.turnTop), NEW i \in T!Kind(page, "bot"),
                     page.rows[i].id >= turn.from
              PROVE  T!At(page, page.activity) < i
   BY DEF T!WorkAbove
 <2> DEFINE a == page.activity
            t == page.turnTop
            b == page.rows[i].id
 <2>1. a \in T!Ids(page) /\ t \in T!Ids(page) BY HasIs
 <2>2. i \in DOMAIN page.rows /\ page.rows[i].kind = "bot" BY DEF T!Kind
 <2>3. b \in T!Ids(page) /\ T!Line(page, b).kind = "bot" /\ T!At(page, b) = i BY <1>2, <2>2
 <2>4. T!Before(page, a, t) /\ ~T!Before(page, b, t) BY <1>1, <2>1, <2>3 DEF T!Topped
 <2> HIDE DEF a, b, t
 <2>5. T!Before(page, a, b) BY <1>1, <2>1, <2>3, <2>4, InOrder
 <2> QED BY <2>3, <2>5 DEF T!Before, a
<1>5. T!PendingHonest
 <2> DEFINE K == T!Kind(page, "pending")
 <2>1. \A i, j \in K : i = j BY <1>1, <1>2 DEF T!Kind, T!Drawn
 <2>2. ~page.owns /\ ~turn.lost => K = {} BY <1>1, <1>2 DEF T!Kind, TInv, T!PageInv
 <2> HIDE DEF K
 <2>3. T!Cardinality({}) = 0 BY SizeIs, FS_EmptySet
 <2>4. \A i : T!Cardinality({i}) = 1 BY SizeIs, FS_Singleton
 <2>5. K = {} \/ \E i : K = {i} BY <2>1
 <2>6. T!Cardinality(K) <= 1 /\ (~page.owns /\ ~turn.lost => T!Cardinality(K) <= 0)
  <3>1. CASE K = {} BY <2>3, <3>1
  <3>2. CASE \E i : K = {i}
   <4>1. T!Cardinality(K) = 1 /\ ~(~page.owns /\ ~turn.lost) BY <2>2, <2>4, <3>2, Zenon
   <4> QED BY <4>1
  <3> QED BY <2>5, <3>1, <3>2
 <2>7. turn.attached \/ turn.lost <=> ~(~page.owns /\ ~turn.lost) BY <1>1
 <2> QED BY <2>6, <2>7, Zenon DEF T!PendingHonest, K
<1> QED BY <1>3, <1>4, <1>5

\* A turn reads as a replay of its events does, nothing stays unpainted, its work
\* stands above its answers and its pending row goes with it, for every number of
\* turns, events and moves of the reader (addMsg to endTurn of app.js).  Excepted are
\* the turns TranscriptFaithful names: those an undo, a covered echo or a lost stream has
\* spoilt, the pending row a lost turn leaves, and a view a late answer has torn.
THEOREM TranscriptHolds == Spec => []TranscriptFaithful
<1> DEFINE I == part = "transcript" => ReplayInv
<1>1. Init => I BY TranscriptInit DEF Init
<1>2. I /\ [Next]_vars => I'
 <2>1. CASE part = "transcript" /\ Next BY <2>1, TranscriptStep DEF Next
 <2>2. CASE part # "transcript" /\ Next BY <2>2 DEF Next
 <2>3. CASE UNCHANGED vars BY <2>3, TranscriptStutter DEF vars, OfTranscript
 <2> QED BY <2>1, <2>2, <2>3
<1>3. I => TranscriptFaithful
  BY Faithful, Displayed DEF TranscriptFaithful, T!TranscriptFaithful, ReplayInv
<1> QED BY <1>1, <1>2, <1>3, PTL DEF Spec
=============================================================================
