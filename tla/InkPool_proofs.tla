--------------------------- MODULE InkPool_proofs ----------------------------
(***************************************************************************)
(* Proofs about InkPool: what becomes of commits, for any number of them   *)
(* and any delays, and of the notes, for every depth of the tree.          *)
(***************************************************************************)
EXTENDS InkPool, Integers, MerkleReference_proofs, SequenceTheorems, TLAPS

-----------------------------------------------------------------------------
CommitRecords == [depositor : Accounts, block_number : Nat, revealed : BOOLEAN]

CommitsType ==
    /\ block \in Nat
    /\ pending_commits \in [DOMAIN pending_commits -> CommitRecords]
    /\ fate \in [DOMAIN pending_commits -> {"open", "note", "lost"}]

\* EachCommitOneFate is inductive once records and fates are known to have the
\* same hashes: an open commit is the only one that can still change.
CommitsInv == CommitsType /\ EachCommitOneFate

LEMMA CommitsInit == new => CommitsInv
<1> SUFFICES ASSUME new PROVE CommitsInv OBVIOUS
<1>1. block = 0 /\ pending_commits = << >> /\ fate = << >> BY DEF new
<1>2. DOMAIN pending_commits = {} BY <1>1
<1>3. \A S : << >> \in [{} -> S] OBVIOUS
<1> QED BY <1>1, <1>2, <1>3 DEF CommitsInv, CommitsType, EachCommitOneFate

LEMMA CommitsUnchanged ==
    ASSUME CommitsInv, UNCHANGED <<pending_commits, fate, block>>
    PROVE  CommitsInv'
BY DEF CommitsInv, CommitsType, EachCommitOneFate, Elapsed

\* The record of one commit is marked, and its fate decided.
LEMMA MarkEffect ==
    ASSUME CommitsInv, NEW hash \in DOMAIN pending_commits,
           ~ pending_commits[hash].revealed,
           NEW outcome \in {"note", "lost"},
           outcome = "lost" => Elapsed(hash) > MAX_COMMIT_DELAY,
           pending_commits' = [pending_commits EXCEPT ![hash].revealed = TRUE],
           fate' = [fate EXCEPT ![hash] = IF @ = "open" THEN outcome ELSE "again"],
           block' = block
    PROVE  CommitsInv'
<1>0. CommitsType BY DEF CommitsInv
<1>1. fate[hash] = "open" BY DEF CommitsInv, EachCommitOneFate
<1>2. fate' = [fate EXCEPT ![hash] = outcome] BY <1>0, <1>1 DEF CommitsType
<1>3. DOMAIN pending_commits' = DOMAIN pending_commits OBVIOUS
<1>4. pending_commits' \in [DOMAIN pending_commits -> CommitRecords]
  BY <1>0 DEF CommitsType, CommitRecords
<1>5. fate' \in [DOMAIN pending_commits -> {"open", "note", "lost"}]
  BY <1>0, <1>2 DEF CommitsType
<1>6. CommitsType' BY <1>0, <1>3, <1>4, <1>5 DEF CommitsType
<1>7. ASSUME NEW h \in DOMAIN pending_commits
      PROVE  /\ fate'[h] \in {"open", "note", "lost"}
             /\ fate'[h] = "open" <=> ~ pending_commits'[h].revealed
             /\ fate'[h] = "lost" => Elapsed(h)' > MAX_COMMIT_DELAY
  <2>1. pending_commits'[h].block_number = pending_commits[h].block_number
    BY <1>0 DEF CommitsType, CommitRecords
  <2>2. Elapsed(h)' = Elapsed(h) BY <2>1 DEF Elapsed
  <2>3. CASE h = hash
    <3>1. fate'[h] = outcome BY <1>0, <1>2, <2>3 DEF CommitsType
    <3>2. pending_commits'[h].revealed = TRUE
      BY <1>0, <2>3 DEF CommitsType, CommitRecords
    <3> QED BY <2>2, <2>3, <3>1, <3>2
  <2>4. CASE h # hash
    <3>1. fate'[h] = fate[h] BY <1>0, <1>2, <2>4 DEF CommitsType
    <3>2. pending_commits'[h] = pending_commits[h] BY <2>4
    <3> QED BY <2>2, <3>1, <3>2 DEF CommitsInv, EachCommitOneFate
  <2> QED BY <2>3, <2>4
<1> QED BY <1>3, <1>6, <1>7 DEF CommitsInv, EachCommitOneFate

LEMMA CommitEffect ==
    ASSUME CommitsInv, NEW caller \in Accounts, NEW hash, NEW value,
           commit_deposit(caller, hash, value)
    PROVE  CommitsInv'
<1>0. CommitsType BY DEF CommitsInv
<1> DEFINE record == [depositor |-> caller, block_number |-> block, revealed |-> FALSE]
           D == DOMAIN pending_commits
<1>1. /\ hash \notin D
      /\ pending_commits' = [h \in D \cup {hash} |->
                               IF h = hash THEN record ELSE pending_commits[h]]
      /\ fate' = [h \in DOMAIN fate \cup {hash} |->
                               IF h = hash THEN "open" ELSE fate[h]]
      /\ block' = block
  BY DEF commit_deposit
<1>2. record \in CommitRecords BY <1>0 DEF CommitsType, CommitRecords
<1>3. DOMAIN fate = D BY <1>0 DEF CommitsType
<1>4. DOMAIN pending_commits' = D \cup {hash} BY <1>1
<1>5. CommitsType'
  <2>1. pending_commits' \in [D \cup {hash} -> CommitRecords]
    BY <1>0, <1>1, <1>2 DEF CommitsType
  <2>2. fate' \in [D \cup {hash} -> {"open", "note", "lost"}]
    BY <1>0, <1>1, <1>3 DEF CommitsType
  <2> QED BY <1>0, <1>1, <1>4, <2>1, <2>2 DEF CommitsType
<1>6. ASSUME NEW h \in D \cup {hash}
      PROVE  /\ fate'[h] \in {"open", "note", "lost"}
             /\ fate'[h] = "open" <=> ~ pending_commits'[h].revealed
             /\ fate'[h] = "lost" => Elapsed(h)' > MAX_COMMIT_DELAY
  <2>1. CASE h = hash BY <1>1, <1>3, <2>1
  <2>2. CASE h # hash
    <3>1. h \in D /\ fate'[h] = fate[h] /\ pending_commits'[h] = pending_commits[h]
      BY <1>1, <1>3, <2>2
    <3>2. Elapsed(h)' = Elapsed(h) BY <1>1, <3>1 DEF Elapsed
    <3> QED BY <3>1, <3>2 DEF CommitsInv, EachCommitOneFate
  <2> QED BY <2>1, <2>2
<1> QED BY <1>4, <1>5, <1>6 DEF CommitsInv, EachCommitOneFate

\* Time passes: an expired commit stays expired.
LEMMA TickEffect ==
    ASSUME CommitsInv, Tick PROVE CommitsInv'
<1> USE InkAssumption
<1>0. CommitsType BY DEF CommitsInv
<1>1. block' = block + 1 /\ pending_commits' = pending_commits /\ fate' = fate
  BY DEF Tick
<1>2. CommitsType' BY <1>0, <1>1 DEF CommitsType
<1>3. ASSUME NEW h \in DOMAIN pending_commits, fate[h] = "lost"
      PROVE  Elapsed(h)' > MAX_COMMIT_DELAY
  <2>1. Elapsed(h) > MAX_COMMIT_DELAY BY <1>3 DEF CommitsInv, EachCommitOneFate
  <2>2. pending_commits[h].block_number \in Nat /\ block \in Nat
    BY <1>0 DEF CommitsType, CommitRecords
  <2> QED BY <1>1, <2>1, <2>2 DEF Elapsed
<1> QED BY <1>1, <1>2, <1>3 DEF CommitsInv, EachCommitOneFate

LEMMA CommitsStep == CommitsInv /\ [Next]_vars => CommitsInv'
<1> SUFFICES ASSUME CommitsInv, [Next]_vars PROVE CommitsInv'
  OBVIOUS
<1>1. ASSUME NEW commitment, NEW value, deposit(commitment, value)
      PROVE  CommitsInv'
  BY <1>1, CommitsUnchanged DEF deposit
<1>2. ASSUME NEW proof, NEW root, NEW nfs, NEW outputs,
             transfer(proof, root, nfs, outputs)
      PROVE  CommitsInv'
  BY <1>2, CommitsUnchanged DEF transfer
<1>3. ASSUME NEW proof, NEW root, NEW nfs, NEW outputs, NEW amount,
             withdraw(proof, root, nfs, outputs, amount)
      PROVE  CommitsInv'
  BY <1>3, CommitsUnchanged DEF withdraw
<1>4. ASSUME NEW caller, finalize_epoch(caller)
      PROVE  CommitsInv'
  BY <1>4, CommitsUnchanged DEF finalize_epoch
<1>5. ASSUME NEW caller, NEW key, NEW root, sync_remote_root(caller, key, root)
      PROVE  CommitsInv'
  BY <1>5, CommitsUnchanged DEF sync_remote_root
<1>6. ASSUME NEW caller, pause(caller) \/ unpause(caller)
      PROVE  CommitsInv'
  BY <1>6, CommitsUnchanged DEF pause, unpause, SetPaused
<1>7. ASSUME NEW caller, NEW new_governance, transfer_governance(caller, new_governance)
      PROVE  CommitsInv'
  BY <1>7, CommitsUnchanged DEF transfer_governance
<1>8. ASSUME NEW caller \in Accounts, NEW hash, NEW value,
             commit_deposit(caller, hash, value)
      PROVE  CommitsInv'
  BY <1>8, CommitEffect
<1>9. ASSUME NEW caller, NEW hash, NEW commitment,
             reveal_deposit(caller, hash, commitment)
      PROVE  CommitsInv'
  BY <1>9, MarkEffect DEF reveal_deposit
<1>10. ASSUME NEW hash, reclaim_expired_commit(hash)
       PROVE  CommitsInv'
  BY <1>10, MarkEffect DEF reclaim_expired_commit
<1>11. CASE Tick BY <1>11, TickEffect
<1>12. CASE UNCHANGED vars BY <1>12, CommitsUnchanged DEF vars
<1> QED BY <1>1, <1>2, <1>3, <1>4, <1>5, <1>6, <1>7, <1>8, <1>9, <1>10, <1>11, <1>12
        DEF Next

\* A commit of commit_deposit ends once: as one note of reveal_deposit, or, once
\* it has expired, with none; and its record says that it ended.
THEOREM InkCommitsOneFate == Spec => []EachCommitOneFate
<1>1. CommitsInv => EachCommitOneFate BY DEF CommitsInv
<1> QED BY CommitsInit, CommitsStep, <1>1, PTL DEF Spec

-----------------------------------------------------------------------------
\* While the pool is paused nothing is spent, paid in or paid out, and a note is
\* added only by a reveal_deposit of a commit that was still open.
THEOREM InkPauseFreezes == Spec => PausedPoolOnlyReveals
<1> DEFINE OnlyReveals ==
      paused => /\ UNCHANGED <<nullifiers, pool_balance>>
                /\ tree' # tree => \E hash \in DOMAIN fate :
                                      fate[hash] = "open" /\ fate'[hash] = "note"
<1>1. CommitsInv /\ [Next]_vars => [OnlyReveals]_vars
  <2> SUFFICES ASSUME CommitsInv, [Next]_vars, paused
               PROVE  /\ UNCHANGED <<nullifiers, pool_balance>>
                      /\ tree' # tree => \E hash \in DOMAIN fate :
                                            fate[hash] = "open" /\ fate'[hash] = "note"
    OBVIOUS
  <2>1. ASSUME NEW commitment, NEW value, deposit(commitment, value)
        PROVE  FALSE
    BY <2>1 DEF deposit
  <2>2. ASSUME NEW proof, NEW root, NEW nfs, NEW outputs,
               transfer(proof, root, nfs, outputs)
        PROVE  FALSE
    BY <2>2 DEF transfer, Spend
  <2>3. ASSUME NEW proof, NEW root, NEW nfs, NEW outputs, NEW amount,
               withdraw(proof, root, nfs, outputs, amount)
        PROVE  FALSE
    BY <2>3 DEF withdraw, Spend
  <2>4. ASSUME NEW caller, NEW hash, NEW value, commit_deposit(caller, hash, value)
        PROVE  FALSE
    BY <2>4 DEF commit_deposit
  <2>5. ASSUME NEW caller, NEW hash, NEW commitment,
               reveal_deposit(caller, hash, commitment)
        PROVE  /\ UNCHANGED <<nullifiers, pool_balance>>
               /\ \E h \in DOMAIN fate : fate[h] = "open" /\ fate'[h] = "note"
    <3>1. /\ hash \in DOMAIN pending_commits /\ ~ pending_commits[hash].revealed
          /\ fate' = [fate EXCEPT ![hash] = IF @ = "open" THEN "note" ELSE "again"]
          /\ UNCHANGED <<nullifiers, pool_balance>>
      BY <2>5 DEF reveal_deposit
    <3>2. hash \in DOMAIN fate BY <3>1 DEF CommitsInv, CommitsType
    <3>3. fate[hash] = "open" BY <3>1 DEF CommitsInv, EachCommitOneFate
    <3>4. fate'[hash] = "note" BY <3>1, <3>2, <3>3
    <3> QED BY <3>1, <3>2, <3>3, <3>4
  <2>6. ASSUME NEW hash, reclaim_expired_commit(hash)
        PROVE  UNCHANGED <<nullifiers, pool_balance, tree>>
    BY <2>6 DEF reclaim_expired_commit
  <2>7. ASSUME NEW caller,
               \/ finalize_epoch(caller) \/ pause(caller) \/ unpause(caller)
               \/ \E key \in RemoteKeys, root \in RemoteRoots :
                      sync_remote_root(caller, key, root)
               \/ \E other \in Accounts \cup {ZeroAccount} :
                      transfer_governance(caller, other)
        PROVE  UNCHANGED <<nullifiers, pool_balance, tree>>
    BY <2>7 DEF finalize_epoch, pause, unpause, SetPaused, sync_remote_root,
                transfer_governance
  <2>8. CASE Tick \/ UNCHANGED vars BY <2>8 DEF Tick, vars
  <2> QED BY <2>1, <2>2, <2>3, <2>4, <2>5, <2>6, <2>7, <2>8 DEF Next
<1> QED BY CommitsInit, CommitsStep, <1>1, PTL DEF Spec, PausedPoolOnlyReveals

-----------------------------------------------------------------------------
(* The notes: the contract implements PoolLedger.                          *)

TreeFields == {"leaves", "nodes", "next", "current_root", "cursor", "root_history"}

\* The nodes on the left of the way up from the next leaf.
LeftOf(t) == [level \in 0..(TREE_DEPTH - 1) |->
                Node(t.nodes, level, Up(t.next, level) - 1)]
RightOf(t) == [level \in 0..(TREE_DEPTH - 1) |->
                Node(t.nodes, level, Up(t.next, level) + 1)]

\* The nodes that the next insertion will read belong to the current root.
NodesOK(t) ==
    /\ DOMAIN t = TreeFields
    /\ t.next \in Nat /\ t.next < 2^TREE_DEPTH
    /\ Frontier(t.current_root, TREE_DEPTH, t.next, LeftOf(t))

\* The hashes that update_tree computes.
HashesUp(t, leaf, hash) ==
    hash = [level \in 0..TREE_DEPTH |->
              IF level = 0 THEN leaf
              ELSE IF (t.next \div 2^(level - 1)) % 2 = 0
                   THEN keccak256(hash[level - 1],
                           Node(t.nodes, level - 1, (t.next \div 2^(level - 1)) + 1))
                   ELSE keccak256(
                           Node(t.nodes, level - 1, (t.next \div 2^(level - 1)) - 1),
                           hash[level - 1])]

HashesOf(t, leaf) == CHOOSE hash : HashesUp(t, leaf, hash)

LEMMA HashesClimb ==
    ASSUME NEW t, NEW leaf, NEW hash
    PROVE  HashesUp(t, leaf, hash)
              <=> Climbs(t.next, leaf, LeftOf(t), RightOf(t), TREE_DEPTH, hash)
<1> USE InkAssumption
<1> DEFINE n == t.next
           up(h) == [level \in 0..TREE_DEPTH |->
              IF level = 0 THEN leaf
              ELSE IF (n \div 2^(level - 1)) % 2 = 0
                   THEN <<h[level - 1],
                          Node(t.nodes, level - 1, (n \div 2^(level - 1)) + 1)>>
                   ELSE <<Node(t.nodes, level - 1, (n \div 2^(level - 1)) - 1),
                          h[level - 1]>>]
           climb(h) == [level \in 0..TREE_DEPTH |->
              IF level = 0 THEN leaf
              ELSE IF (n \div 2^(level - 1)) % 2 = 0
                   THEN <<h[level - 1], RightOf(t)[level - 1]>>
                   ELSE <<LeftOf(t)[level - 1], h[level - 1]>>]
<1>1. \A level \in 0..TREE_DEPTH : level # 0 =>
         /\ RightOf(t)[level - 1] = Node(t.nodes, level - 1, (n \div 2^(level - 1)) + 1)
         /\ LeftOf(t)[level - 1] = Node(t.nodes, level - 1, (n \div 2^(level - 1)) - 1)
  BY DEF RightOf, LeftOf, Up
<1>2. \A h : up(h) = climb(h) BY <1>1
<1>3. HashesUp(t, leaf, hash) <=> hash = up(hash) BY Zenon DEF HashesUp, keccak256
<1>4. Climbs(n, leaf, LeftOf(t), RightOf(t), TREE_DEPTH, hash) <=> hash = climb(hash)
  BY Zenon DEF Climbs
<1> HIDE DEF up, climb
<1> QED BY <1>2, <1>3, <1>4

LEMMA HashesExist ==
    ASSUME NEW t, t.next \in Nat, NEW leaf
    PROVE  /\ HashesUp(t, leaf, HashesOf(t, leaf))
           /\ Climbs(t.next, leaf, LeftOf(t), RightOf(t), TREE_DEPTH, HashesOf(t, leaf))
<1>1. \E hash : Climbs(t.next, leaf, LeftOf(t), RightOf(t), TREE_DEPTH, hash)
  BY ClimbExists, InkAssumption
<1>2. \E hash : HashesUp(t, leaf, hash) BY <1>1, HashesClimb
<1>3. HashesUp(t, leaf, HashesOf(t, leaf)) BY <1>2 DEF HashesOf
<1> QED BY <1>3, HashesClimb

\* What update_tree writes, field by field and node by node.
LEMMA UpdateEffect ==
    ASSUME NEW t, DOMAIN t = TreeFields, t.next \in Nat, NEW leaf,
           NEW u, u = update_tree(t, leaf)
    PROVE  /\ DOMAIN u = TreeFields /\ u.next = t.next + 1
           /\ u.current_root = HashesOf(t, leaf)[TREE_DEPTH]
           /\ \A level \in 0..TREE_DEPTH, k \in Int :
                 Node(u.nodes, level, k) = IF k = Up(t.next, level)
                                           THEN HashesOf(t, leaf)[level]
                                           ELSE Node(t.nodes, level, k)
<1> USE InkAssumption
<1> DEFINE hash == HashesOf(t, leaf)
           written == {<<level, t.next \div 2^level>> : level \in 0..TREE_DEPTH}
           nodes == [key \in DOMAIN t.nodes \cup written |->
                       IF key \in written THEN hash[key[1]] ELSE t.nodes[key]]
<1>1. u = [t EXCEPT !.nodes = nodes, !.current_root = hash[TREE_DEPTH],
                    !.leaves = @ \cup {leaf}, !.next = @ + 1]
  BY Zenon DEF update_tree, HashesOf, HashesUp
<1> HIDE DEF hash, nodes
<1>2. /\ DOMAIN u = TreeFields /\ u.next = t.next + 1
      /\ u.current_root = hash[TREE_DEPTH] /\ u.nodes = nodes
  BY <1>1 DEF TreeFields
<1>3. ASSUME NEW level \in 0..TREE_DEPTH, NEW k \in Int
      PROVE  Node(nodes, level, k) = IF k = Up(t.next, level) THEN hash[level]
                                     ELSE Node(t.nodes, level, k)
  <2>1. <<level, k>> \in written <=> k = Up(t.next, level) BY DEF Up
  <2> DEFINE key == <<level, k>>
  <2>2. key[1] = level OBVIOUS
  <2>3. DOMAIN nodes = DOMAIN t.nodes \cup written BY DEF nodes
  <2>4. key \in DOMAIN nodes =>
          nodes[key] = IF key \in written THEN hash[key[1]] ELSE t.nodes[key]
    BY <2>3 DEF nodes
  <2> HIDE DEF key, written
  <2>5. key \in written <=> k = Up(t.next, level) BY <2>1 DEF key
  <2>6. Node(nodes, level, k) = IF key \in DOMAIN nodes THEN nodes[key] ELSE ZERO_VALUE
    BY DEF Node, key
  <2>7. Node(t.nodes, level, k)
          = IF key \in DOMAIN t.nodes THEN t.nodes[key] ELSE ZERO_VALUE
    BY DEF Node, key
  <2> QED BY <2>2, <2>3, <2>4, <2>5, <2>6, <2>7
<1> QED BY <1>2, <1>3 DEF hash

LEMMA UpdateKeeps ==
    ASSUME NEW t, NodesOK(t), t.next + 1 < 2^TREE_DEPTH, NEW leaf,
           NEW u, u = update_tree(t, leaf)
    PROVE  /\ NodesOK(u) /\ u.next = t.next + 1
           /\ Grows(LeavesUnder(t.current_root, TREE_DEPTH, t.next),
                    LeavesUnder(u.current_root, TREE_DEPTH, u.next), leaf)
<1> USE InkAssumption, PowersOfTwo
<1> DEFINE hash == HashesOf(t, leaf)  n == t.next
           left == LeftOf(t)  right == RightOf(t)  next == LeftOf(u)
           root == t.current_root
<1>1. /\ DOMAIN t = TreeFields /\ n \in Nat /\ n < 2^TREE_DEPTH
      /\ Frontier(root, TREE_DEPTH, n, left)
  BY DEF NodesOK
<1>2. /\ DOMAIN u = TreeFields /\ u.next = n + 1
      /\ u.current_root = hash[TREE_DEPTH]
      /\ \A level \in 0..TREE_DEPTH, k \in Int :
            Node(u.nodes, level, k) = IF k = Up(n, level) THEN hash[level]
                                      ELSE Node(t.nodes, level, k)
  BY <1>1, UpdateEffect
<1>3. Climbs(n, leaf, left, right, TREE_DEPTH, hash) BY <1>1, HashesExist
<1>4. ASSUME NEW level \in 0..(TREE_DEPTH - 1), Up(n + 1, level) % 2 = 1
      PROVE  next[level] = IF Up(n, level) % 2 = 0 THEN hash[level] ELSE left[level]
  <2> HIDE DEF hash
  <2>1. level \in 0..TREE_DEPTH OBVIOUS
  <2>2. Up(n, level) \in Nat /\ Up(n, level) % 2 \in {0, 1} BY <1>1, UpHalves
  <2>3. Up(n + 1, level) \in {Up(n, level), Up(n, level) + 1}
    BY <1>1, <2>1, UpNeighbours
  <2>4. next[level] = Node(u.nodes, level, Up(n + 1, level) - 1) BY <1>2 DEF LeftOf
  <2>5. left[level] = Node(t.nodes, level, Up(n, level) - 1) BY DEF LeftOf
  <2>6. CASE Up(n, level) % 2 = 0
    <3>1. Up(n + 1, level) - 1 = Up(n, level) BY <1>4, <2>2, <2>3, <2>6
    <3> QED BY <1>2, <2>1, <2>2, <2>4, <2>6, <3>1
  <2>7. CASE Up(n, level) % 2 = 1
    <3>1. Up(n + 1, level) = Up(n, level) BY <1>4, <2>2, <2>3, <2>7
    <3>2. Up(n, level) - 1 \in Int /\ Up(n, level) - 1 # Up(n, level) BY <2>2
    <3> QED BY <1>2, <2>1, <2>4, <2>5, <2>7, <3>1, <3>2
  <2> QED BY <2>2, <2>6, <2>7
<1> DEFINE grown == hash[TREE_DEPTH]
<1>5. /\ LeafAt(grown, TREE_DEPTH, n) = leaf
      /\ \A j \in 0..(n - 1) : LeafAt(grown, TREE_DEPTH, j) = LeafAt(root, TREE_DEPTH, j)
      /\ Frontier(grown, TREE_DEPTH, n + 1, next)
  <2> HIDE DEF hash, left, right, next, n, root
  <2> QED BY <1>1, <1>3, <1>4, InsertLeaf
<1>6. Grows(LeavesUnder(root, TREE_DEPTH, n), LeavesUnder(grown, TREE_DEPTH, n + 1), leaf)
  <2> HIDE DEF n, root, grown
  <2> QED BY <1>1, <1>5, LeavesGrow
<1>7. NodesOK(u)
  <2> HIDE DEF hash
  <2> QED BY <1>1, <1>2, <1>5 DEF NodesOK
<1> QED BY <1>2, <1>6, <1>7

\* push_root records the root and touches nothing else of the tree.
LEMMA PushKeeps ==
    ASSUME NEW t, NodesOK(t), NEW u, u = push_root(t)
    PROVE  NodesOK(u) /\ u.next = t.next /\ u.current_root = t.current_root
<1>1. /\ DOMAIN u = TreeFields /\ u.next = t.next /\ u.current_root = t.current_root
      /\ u.nodes = t.nodes
  BY DEF push_root, NodesOK, TreeFields
<1>2. LeftOf(u) = LeftOf(t) BY <1>1 DEF LeftOf
<1> QED BY <1>1, <1>2 DEF NodesOK

LEMMA AppendsIsShared ==
    ASSUME NEW k, Appended(CommittedNotes, CommittedNotes', k, 2^TREE_DEPTH, Notes)
    PROVE  Ledger!Appends(k)
BY DEF Appended, Ledger!Appends

LEMMA OneNote ==
    ASSUME NodesOK(tree), NEW note \in Notes, CanInsert(tree, note),
           tree' = push_root(update_tree(tree, note))
    PROVE  NodesOK(tree') /\ Ledger!Appends(1)
<1> USE InkAssumption, PowersOfTwo
<1> DEFINE u == update_tree(tree, note)
<1>1. tree.next \in Nat /\ tree.next + 1 < 2^TREE_DEPTH /\ 2^TREE_DEPTH \in Nat
  BY PowersArePositive DEF NodesOK, CanInsert
<1>2. /\ NodesOK(u) /\ u.next = tree.next + 1
      /\ Grows(LeavesUnder(tree.current_root, TREE_DEPTH, tree.next),
               LeavesUnder(u.current_root, TREE_DEPTH, u.next), note)
  BY <1>1, UpdateKeeps
<1> HIDE DEF u
<1>3. /\ NodesOK(tree') /\ tree'.next = u.next
      /\ tree'.current_root = u.current_root
  BY <1>2, PushKeeps DEF u
<1>4. Grows(CommittedNotes, CommittedNotes', note) BY <1>2, <1>3 DEF CommittedNotes
<1>5. Len(CommittedNotes) = tree.next BY <1>1, LeavesLength DEF CommittedNotes
<1>6. Len(CommittedNotes) + 1 <= 2^TREE_DEPTH BY <1>1, <1>5
<1>7. Appended(CommittedNotes, CommittedNotes', 1, 2^TREE_DEPTH, Notes)
  <2> DEFINE a == CommittedNotes  b == CommittedNotes'
  <2> HIDE DEF a, b
  <2>1. Grows(a, b, note) /\ Len(a) + 1 <= 2^TREE_DEPTH BY <1>4, <1>6 DEF a, b
  <2>2. Appended(a, b, 1, 2^TREE_DEPTH, Notes) BY <1>1, <2>1, OneAppended
  <2> QED BY <2>2 DEF a, b
<1> QED BY <1>3, <1>7, AppendsIsShared

LEMMA TwoNotes ==
    ASSUME NodesOK(tree), NEW nfs, NEW proof, NEW root, NEW outputs \in Outputs,
           Spend(proof, root, nfs, outputs)
    PROVE  NodesOK(tree') /\ Ledger!Appends(2)
<1> USE InkAssumption, PowersOfTwo
<1> DEFINE t1 == update_tree(tree, outputs[1])  t2 == update_tree(t1, outputs[2])
<1>0. outputs[1] \in Notes /\ outputs[2] \in Notes BY DEF Notes
<1>1. /\ tree.next \in Nat /\ tree.next + 1 < 2^TREE_DEPTH /\ 2^TREE_DEPTH \in Nat
      /\ t1.next + 1 < 2^TREE_DEPTH /\ tree' = push_root(t2)
  BY PowersArePositive DEF NodesOK, CanInsert, Spend
<1>2. /\ NodesOK(t1) /\ t1.next = tree.next + 1
      /\ Grows(LeavesUnder(tree.current_root, TREE_DEPTH, tree.next),
               LeavesUnder(t1.current_root, TREE_DEPTH, t1.next), outputs[1])
  BY <1>1, UpdateKeeps
<1> HIDE DEF t1
<1>3. /\ NodesOK(t2) /\ t2.next = t1.next + 1
      /\ Grows(LeavesUnder(t1.current_root, TREE_DEPTH, t1.next),
               LeavesUnder(t2.current_root, TREE_DEPTH, t2.next), outputs[2])
  BY <1>1, <1>2, UpdateKeeps
<1> HIDE DEF t2
<1>4. /\ NodesOK(tree') /\ tree'.next = t2.next
      /\ tree'.current_root = t2.current_root
  BY <1>1, <1>3, PushKeeps
<1> DEFINE a == CommittedNotes  c == CommittedNotes'
           b == LeavesUnder(t1.current_root, TREE_DEPTH, t1.next)
<1>5. Grows(a, b, outputs[1]) BY <1>2 DEF CommittedNotes
<1>6. Grows(b, c, outputs[2]) BY <1>3, <1>4 DEF CommittedNotes
<1>7. Len(a) = tree.next BY <1>1, LeavesLength DEF CommittedNotes
<1>8. Len(a) + 2 <= 2^TREE_DEPTH BY <1>1, <1>2, <1>7
<1>9. Appended(a, c, 2, 2^TREE_DEPTH, Notes)
  <2> HIDE DEF a, b, c
  <2> QED BY <1>0, <1>1, <1>5, <1>6, <1>8, TwoAppended
<1> QED BY <1>4, <1>9, AppendsIsShared

NotesInv == NodesOK(tree) /\ pool_balance \in Nat

LEMMA NotesStart == new => NotesInv /\ Ledger!LedgerInit
<1> SUFFICES ASSUME new PROVE NotesInv /\ Ledger!LedgerInit
  OBVIOUS
<1> USE InkAssumption, PowersOfTwo
<1>1. tree.next = 0 /\ DOMAIN tree = TreeFields BY DEF new, TreeFields
<1>2. 2^TREE_DEPTH \in Nat \ {0} BY PowersArePositive
<1>3. Frontier(tree.current_root, TREE_DEPTH, 0, LeftOf(tree)) BY EmptyFrontier
<1>4. NodesOK(tree) BY <1>1, <1>2, <1>3 DEF NodesOK
<1>5. CommittedNotes = << >> BY <1>1 DEF CommittedNotes, LeavesUnder
<1> QED BY <1>4, <1>5 DEF new, NotesInv, Ledger!LedgerInit

LEMMA SpendJoins ==
    ASSUME NotesInv, NEW nfs \in Nullifiers \X Nullifiers, NEW outputs \in Outputs,
           NEW proof, NEW root, Spend(proof, root, nfs, outputs),
           pool_balance' \in Nat, pool_balance' <= pool_balance
    PROVE  NotesInv' /\ Ledger!Join
<1>1. NodesOK(tree') /\ Ledger!Appends(2) BY TwoNotes DEF NotesInv
<1>2. /\ nfs[1] \in Nullifiers \ nullifiers /\ nfs[2] \in Nullifiers \ nullifiers
      /\ nfs[1] # nfs[2] /\ nullifiers' = nullifiers \cup {nfs[1], nfs[2]}
  BY DEF Spend, verify_proof_structure
<1>3. \E nul1, nul2 \in Nullifiers \ nullifiers :
         nul1 # nul2 /\ nullifiers' = nullifiers \cup {nul1, nul2}
  BY <1>2
<1> QED BY <1>1, <1>3 DEF NotesInv, Ledger!Join

LEMMA NotesStep ==
    ASSUME NotesInv, [Next]_vars
    PROVE  NotesInv' /\ [Ledger!LedgerNext]_(Ledger!ledger)
<1> USE InkAssumption
<1> DEFINE Quiet == UNCHANGED <<tree, nullifiers, pool_balance>>
<1>1. ASSUME NEW commitment \in Notes, NEW value \in 0..MaxAmount,
             deposit(commitment, value)
      PROVE  NotesInv' /\ Ledger!Shield
  <2>1. NodesOK(tree') /\ Ledger!Appends(1) BY <1>1, OneNote DEF deposit, NotesInv
  <2>2. pool_balance' \in Nat /\ pool_balance' > pool_balance
    BY <1>1 DEF deposit, NotesInv
  <2>3. nullifiers' = nullifiers BY <1>1 DEF deposit
  <2> QED BY <2>1, <2>2, <2>3 DEF NotesInv, Ledger!Shield
<1>2. ASSUME NEW nfs \in Nullifiers \X Nullifiers, NEW outputs \in Outputs,
             NEW proof, NEW root, transfer(proof, root, nfs, outputs)
      PROVE  NotesInv' /\ Ledger!Join
  <2>1. Spend(proof, root, nfs, outputs) BY <1>2 DEF transfer
  <2>2. pool_balance' \in Nat /\ pool_balance' <= pool_balance
    BY <1>2 DEF transfer, NotesInv
  <2> QED BY <2>1, <2>2, SpendJoins
<1>3. ASSUME NEW nfs \in Nullifiers \X Nullifiers, NEW outputs \in Outputs,
             NEW proof, NEW root, NEW amount \in 0..MaxAmount,
             withdraw(proof, root, nfs, outputs, amount)
      PROVE  NotesInv' /\ Ledger!Join
  <2>1. Spend(proof, root, nfs, outputs) BY <1>3 DEF withdraw
  <2>2. pool_balance' \in Nat /\ pool_balance' <= pool_balance
    BY <1>3 DEF withdraw, NotesInv
  <2> QED BY <2>1, <2>2, SpendJoins
<1>4. ASSUME NEW caller, NEW hash, NEW value \in 0..MaxAmount,
             commit_deposit(caller, hash, value)
      PROVE  NotesInv' /\ Ledger!Escrow
  <2>1. pool_balance' \in Nat /\ pool_balance' > pool_balance
    BY <1>4 DEF commit_deposit, NotesInv
  <2>2. tree' = tree /\ nullifiers' = nullifiers BY <1>4 DEF commit_deposit
  <2> QED BY <2>1, <2>2 DEF NotesInv, Ledger!Escrow, CommittedNotes
<1>5. ASSUME NEW caller, NEW hash, NEW commitment \in Notes,
             reveal_deposit(caller, hash, commitment)
      PROVE  NotesInv' /\ Ledger!Reveal
  <2>1. NodesOK(tree') /\ Ledger!Appends(1)
    BY <1>5, OneNote DEF reveal_deposit, NotesInv
  <2>2. nullifiers' = nullifiers /\ pool_balance' = pool_balance
    BY <1>5 DEF reveal_deposit
  <2> QED BY <2>1, <2>2 DEF NotesInv, Ledger!Reveal
<1>6. ASSUME Quiet PROVE NotesInv' /\ UNCHANGED Ledger!ledger
  BY <1>6 DEF NotesInv, Ledger!ledger, CommittedNotes
<1>7. \/ \E commitment \in Notes, value \in 0..MaxAmount : deposit(commitment, value)
      \/ \E nfs \in Nullifiers \X Nullifiers, outputs \in Outputs :
            \/ \E proof, root : transfer(proof, root, nfs, outputs)
            \/ \E proof, root : \E amount \in 0..MaxAmount :
                  withdraw(proof, root, nfs, outputs, amount)
      \/ \E caller, hash : \E value \in 0..MaxAmount : commit_deposit(caller, hash, value)
      \/ \E caller, hash : \E commitment \in Notes : reveal_deposit(caller, hash, commitment)
      \/ Quiet
  <2>1. ASSUME NEW caller, finalize_epoch(caller) PROVE Quiet BY <2>1 DEF finalize_epoch
  <2>2. ASSUME NEW caller, NEW key, NEW root, sync_remote_root(caller, key, root)
        PROVE  Quiet
    BY <2>2 DEF sync_remote_root
  <2>3. ASSUME NEW caller, pause(caller) \/ unpause(caller) PROVE Quiet
    BY <2>3 DEF pause, unpause, SetPaused
  <2>4. ASSUME NEW caller, NEW to, transfer_governance(caller, to) PROVE Quiet
    BY <2>4 DEF transfer_governance
  <2>5. ASSUME NEW hash, reclaim_expired_commit(hash) PROVE Quiet
    BY <2>5 DEF reclaim_expired_commit
  <2>6. ASSUME Tick \/ UNCHANGED vars PROVE Quiet BY <2>6 DEF Tick, vars
  <2> HIDE DEF Quiet
  <2> QED BY <2>1, <2>2, <2>3, <2>4, <2>5, <2>6, Zenon DEF Next
<1> HIDE DEF Quiet
<1>8. /\ NotesInv'
      /\ \/ Ledger!Shield \/ Ledger!Join \/ Ledger!Escrow \/ Ledger!Reveal
         \/ UNCHANGED Ledger!ledger
  BY <1>1, <1>2, <1>3, <1>4, <1>5, <1>6, <1>7, Zenon
<1> QED BY <1>8, Zenon DEF Ledger!LedgerNext

\* Every message of the contract is a step of the abstract pool, or none,
\* deposits in two steps included: a commit raises the balance, its reveal
\* appends the note.  The notes are what the current root commits to, so the
\* proof is about update_tree, which reads its siblings from the map of nodes:
\* at every depth an insertion leaves the older notes where they were.
THEOREM InkImplementsLedger == Spec => ImplementsPoolLedger
BY NotesStart, NotesStep, PTL DEF Spec, ImplementsPoolLedger, Ledger!LedgerSpec

-----------------------------------------------------------------------------
(* The snapshots of the epochs.                                            *)

Empty == [level \in 0..TREE_DEPTH |-> ZERO_VALUE]

NotesOf(t) == LeavesUnder(t.current_root, TREE_DEPTH, t.next)

\* The map of nodes is the whole reference tree over the notes, its root
\* included: not only what the next insertion reads.
SparseTree(t) ==
    /\ \A level \in 0..TREE_DEPTH : \A k \in 0..(Width(TREE_DEPTH, level) - 1) :
          Node(t.nodes, level, k) = Cell(NotesOf(t), TREE_DEPTH, Empty, level, k)
    /\ t.current_root = SparseRoot(NotesOf(t))

LEMMA SparseRootIsCell ==
    ASSUME NEW notes
    PROVE  SparseRoot(notes) = Cell(notes, TREE_DEPTH, Empty, TREE_DEPTH, 0)
BY RootIsCell, Zenon DEF SparseRoot, Empty

\* The siblings that update_tree reads are those of the reference tree.
LEMMA SparseSiblings ==
    ASSUME NEW t, NodesOK(t), SparseTree(t)
    PROVE  AreSiblings(NotesOf(t), TREE_DEPTH, Empty, t.next, LeftOf(t), RightOf(t))
<1> USE InkAssumption, PowersOfTwo
<1> DEFINE n == t.next  depth == TREE_DEPTH
<1>1. n \in Nat /\ n < 2^depth BY DEF NodesOK
<1>2. ASSUME NEW l \in 0..(depth - 1)
      PROVE  IF Up(n, l) % 2 = 0
             THEN RightOf(t)[l] = Cell(NotesOf(t), depth, Empty, l, Up(n, l) + 1)
             ELSE LeftOf(t)[l] = Cell(NotesOf(t), depth, Empty, l, Up(n, l) - 1)
  <2>1. l \in 0..depth /\ l + 1 \in 0..depth OBVIOUS
  <2>2. Width(depth, l) = 2 * Width(depth, l + 1) /\ Width(depth, l + 1) \in Nat
    BY WidthDoubles
  <2>3. Up(n, l + 1) \in 0..(Width(depth, l + 1) - 1) BY <1>1, <2>1, UpInWidth
  <2>4. /\ Up(n, l) \in Nat /\ Up(n, l) = 2 * Up(n, l + 1) + (Up(n, l) % 2)
        /\ Up(n, l) % 2 \in {0, 1}
    BY <1>1, UpHalves
  <2>5. /\ RightOf(t)[l] = Node(t.nodes, l, Up(n, l) + 1)
        /\ LeftOf(t)[l] = Node(t.nodes, l, Up(n, l) - 1)
    BY DEF RightOf, LeftOf
  <2>6. \A k \in 0..(Width(depth, l) - 1) :
           Node(t.nodes, l, k) = Cell(NotesOf(t), depth, Empty, l, k)
    BY <2>1 DEF SparseTree
  <2>7. CASE Up(n, l) % 2 = 0
    <3>1. Up(n, l) + 1 \in 0..(Width(depth, l) - 1) BY <2>2, <2>3, <2>4, <2>7
    <3> QED BY <2>5, <2>6, <2>7, <3>1
  <2>8. CASE Up(n, l) % 2 = 1
    <3>1. Up(n, l) - 1 \in 0..(Width(depth, l) - 1) BY <2>2, <2>3, <2>4, <2>8
    <3> QED BY <2>5, <2>6, <2>8, <3>1
  <2> QED BY <2>4, <2>7, <2>8
<1> QED BY <1>2 DEF AreSiblings

LEMMA UpdateSparse ==
    ASSUME NEW t, NodesOK(t), SparseTree(t), t.next + 1 < 2^TREE_DEPTH, NEW leaf,
           NEW u, u = update_tree(t, leaf)
    PROVE  SparseTree(u)
<1> USE InkAssumption, PowersOfTwo
<1> DEFINE n == t.next  depth == TREE_DEPTH  hash == HashesOf(t, leaf)
           old == NotesOf(t)  grown == NotesOf(u)  left == LeftOf(t)  right == RightOf(t)
<1>1. n \in Nat /\ n < 2^depth /\ DOMAIN t = TreeFields BY DEF NodesOK
<1>2. /\ u.current_root = hash[depth]
      /\ \A level \in 0..depth, k \in Int :
            Node(u.nodes, level, k) = IF k = Up(n, level) THEN hash[level]
                                      ELSE Node(t.nodes, level, k)
  BY <1>1, UpdateEffect
<1>3. Grows(old, grown, leaf) BY UpdateKeeps DEF NotesOf
<1>4. Climbs(n, leaf, left, right, depth, hash) BY <1>1, HashesExist
<1>5. Len(old) = n BY <1>1, LeavesLength DEF NotesOf
<1>6. AreSiblings(old, depth, Empty, n, left, right) BY SparseSiblings
<1>7. \A level \in 0..depth : \A k \in 0..(Width(depth, level) - 1) :
         Cell(grown, depth, Empty, level, k) =
            IF k = Up(n, level) THEN hash[level] ELSE Cell(old, depth, Empty, level, k)
  <2> HIDE DEF hash, left, right, old, grown, n
  <2> QED BY <1>1, <1>3, <1>4, <1>5, <1>6, InsertCells
<1> HIDE DEF hash, grown, old
<1>8. ASSUME NEW level \in 0..depth, NEW k \in 0..(Width(depth, level) - 1)
      PROVE  Node(u.nodes, level, k) = Cell(grown, depth, Empty, level, k)
  <2>1. k \in Int OBVIOUS
  <2>2. Node(t.nodes, level, k) = Cell(old, depth, Empty, level, k)
    BY DEF SparseTree, old
  <2>3. Node(u.nodes, level, k) = IF k = Up(n, level) THEN hash[level]
                                  ELSE Node(t.nodes, level, k)
    BY <1>2, <2>1
  <2>4. Cell(grown, depth, Empty, level, k) =
            IF k = Up(n, level) THEN hash[level] ELSE Cell(old, depth, Empty, level, k)
    BY <1>7
  <2> QED BY <2>2, <2>3, <2>4
<1>9. u.current_root = SparseRoot(grown)
  <2>1. depth \in 0..depth /\ Up(n, depth) = 0 BY <1>1, UpNeighbours
  <2>2. 0 \in 0..(Width(depth, depth) - 1)
    <3>1. Up(n, depth) \in 0..(Width(depth, depth) - 1) BY <1>1, <2>1, UpInWidth
    <3> QED BY <2>1, <3>1
  <2>3. Cell(grown, depth, Empty, depth, 0) = hash[depth] BY <1>7, <2>1, <2>2
  <2> QED BY <1>2, <2>3, SparseRootIsCell
<1> QED BY <1>8, <1>9 DEF SparseTree, grown

LEMMA PushSparse ==
    ASSUME NEW t, NodesOK(t), SparseTree(t), NEW u, u = push_root(t)
    PROVE  SparseTree(u)
<1>1. u.next = t.next /\ u.current_root = t.current_root /\ u.nodes = t.nodes
  BY DEF push_root, NodesOK, TreeFields
<1> QED BY <1>1 DEF SparseTree, NotesOf

\* Both ways to insert keep the map of nodes, and the notes before them.
LEMMA OneSparse ==
    ASSUME NodesOK(tree), SparseTree(tree), NEW note, CanInsert(tree, note),
           tree' = push_root(update_tree(tree, note))
    PROVE  SparseTree(tree')
<1> DEFINE u == update_tree(tree, note)
<1>1. tree.next + 1 < 2^TREE_DEPTH BY DEF CanInsert
<1>2. NodesOK(u) BY <1>1, UpdateKeeps
<1>3. SparseTree(u) BY <1>1, UpdateSparse
<1> HIDE DEF u
<1> QED BY <1>2, <1>3, PushSparse DEF u

LEMMA TwoSparse ==
    ASSUME NodesOK(tree), SparseTree(tree), NEW nfs, NEW proof, NEW root, NEW outputs,
           Spend(proof, root, nfs, outputs)
    PROVE  SparseTree(tree')
<1> DEFINE t1 == update_tree(tree, outputs[1])  t2 == update_tree(t1, outputs[2])
<1>1. /\ tree.next + 1 < 2^TREE_DEPTH /\ t1.next + 1 < 2^TREE_DEPTH
      /\ tree' = push_root(t2)
  BY DEF Spend, CanInsert
<1>2. NodesOK(t1) BY <1>1, UpdateKeeps
<1>3. SparseTree(t1) BY <1>1, UpdateSparse
<1> HIDE DEF t1
<1>4. NodesOK(t2) BY <1>1, <1>2, UpdateKeeps
<1>5. SparseTree(t2) BY <1>1, <1>2, <1>3, UpdateSparse
<1> HIDE DEF t2
<1> QED BY <1>1, <1>4, <1>5, PushSparse

Prefix(notes, m) == SubSeq(notes, 1, m)

SnapshotOf(epoch, m) == epochs[epoch].root = SparseRoot(Prefix(CommittedNotes, m))

\* The lengths of the prefixes that the epochs' snapshots commit to.
AreLengths(length) ==
    /\ length \in [0..current_epoch -> 0..tree.next]
    /\ \A epoch \in 0..current_epoch :
          /\ epoch > 0 => length[epoch - 1] <= length[epoch]
          /\ epochs[epoch].finalized => SnapshotOf(epoch, length[epoch])

SnapshotsInv ==
    /\ NodesOK(tree) /\ SparseTree(tree)
    /\ current_epoch \in Nat
    /\ \E length : AreLengths(length)

LEMMA EmptyCell ==
    ASSUME NEW notes, Len(notes) = 0, NEW level \in 0..TREE_DEPTH,
           NEW k \in 0..(Width(TREE_DEPTH, level) - 1)
    PROVE  Cell(notes, TREE_DEPTH, Empty, level, k) = ZERO_VALUE
<1>1. TREE_DEPTH \in Nat /\ Powers(TREE_DEPTH) BY InkAssumption, PowersOfTwo
<1>2. Cell(notes, TREE_DEPTH, Empty, level, k) = Empty[level] BY <1>1, EmptyCells
<1> QED BY <1>2 DEF Empty

LEMMA SnapshotsStart == new => SnapshotsInv
<1> SUFFICES ASSUME new PROVE SnapshotsInv
  OBVIOUS
<1> USE InkAssumption, PowersOfTwo
<1>1. NodesOK(tree) BY NotesStart DEF NotesInv
<1>2. /\ tree.next = 0 /\ tree.nodes = << >> /\ tree.current_root = ZERO_VALUE
      /\ current_epoch = 0 /\ epochs = [epoch \in {0} |-> OpenEpoch]
  BY DEF new
<1> DEFINE notes == NotesOf(tree)
<1>3. Len(notes) = 0 BY <1>2, LeavesLength DEF NotesOf
<1> HIDE DEF notes
<1>4. ASSUME NEW level \in 0..TREE_DEPTH, NEW k \in 0..(Width(TREE_DEPTH, level) - 1)
      PROVE  Cell(notes, TREE_DEPTH, Empty, level, k) = ZERO_VALUE
  BY <1>3, EmptyCell
<1>5. \A level, k : Node(tree.nodes, level, k) = ZERO_VALUE
  <2>1. DOMAIN << >> = {} OBVIOUS
  <2> QED BY <1>2, <2>1 DEF Node
<1>6. SparseRoot(notes) = ZERO_VALUE
  <2>1. TREE_DEPTH \in 0..TREE_DEPTH OBVIOUS
  <2>2. 0 < 2^TREE_DEPTH BY <2>1, PowersArePositive
  <2>3. Up(0, TREE_DEPTH) = 0 BY <2>1, <2>2, UpNeighbours
  <2>4. 0 \in 0..(Width(TREE_DEPTH, TREE_DEPTH) - 1)
    <3>1. Up(0, TREE_DEPTH) \in 0..(Width(TREE_DEPTH, TREE_DEPTH) - 1)
      BY <2>1, <2>2, UpInWidth
    <3> QED BY <2>3, <3>1
  <2> QED BY <1>4, <2>1, <2>4, SparseRootIsCell
<1>7. SparseTree(tree) BY <1>2, <1>4, <1>5, <1>6 DEF SparseTree, notes
<1>8. AreLengths([epoch \in 0..0 |-> 0])
  <2> DEFINE length == [epoch \in 0..0 |-> 0]
  <2>1. length \in [0..current_epoch -> 0..tree.next] BY <1>2
  <2>2. \A epoch \in 0..current_epoch : epoch = 0 /\ ~ epochs[epoch].finalized
    BY <1>2 DEF OpenEpoch
  <2> HIDE DEF length
  <2>3. AreLengths(length) BY <2>1, <2>2 DEF AreLengths
  <2> QED BY <2>3 DEF length
<1> QED BY <1>1, <1>2, <1>7, <1>8 DEF SnapshotsInv

\* Notes are added, and no epoch ends.
LEMMA SnapshotsKeep ==
    ASSUME SnapshotsInv, NodesOK(tree'), SparseTree(tree'), NEW k \in Nat,
           Ledger!Appends(k), UNCHANGED epochVars
    PROVE  SnapshotsInv'
<1>1. tree.next \in Nat /\ tree'.next \in Nat BY DEF SnapshotsInv, NodesOK
<1>2. Len(CommittedNotes) = tree.next /\ Len(CommittedNotes') = tree'.next
  BY <1>1, LeavesLength DEF CommittedNotes
<1>3. /\ Len(CommittedNotes') = Len(CommittedNotes) + k
      /\ \A i \in 1..Len(CommittedNotes) : CommittedNotes'[i] = CommittedNotes[i]
  BY DEF Ledger!Appends
<1>4. tree.next <= tree'.next BY <1>1, <1>2, <1>3
<1>5. ASSUME NEW m \in 0..tree.next
      PROVE  Prefix(CommittedNotes', m) = Prefix(CommittedNotes, m)
  <2> DEFINE a == CommittedNotes  b == CommittedNotes'  n == tree.next
  <2>1. n \in Nat /\ m \in 0..n /\ \A i \in 1..n : b[i] = a[i] BY <1>1, <1>2, <1>3
  <2> HIDE DEF a, b, n
  <2>2. SubSeq(b, 1, m) = SubSeq(a, 1, m) BY <2>1, PrefixesStay
  <2> QED BY <2>2 DEF Prefix, a, b
<1>6. epochs' = epochs /\ current_epoch' = current_epoch BY DEF epochVars
<1>7. PICK length : AreLengths(length) BY DEF SnapshotsInv
<1>8. /\ length \in [0..current_epoch -> 0..tree.next]
      /\ \A epoch \in 0..current_epoch :
            /\ epoch > 0 => length[epoch - 1] <= length[epoch]
            /\ epochs[epoch].finalized =>
                  epochs[epoch].root = SparseRoot(Prefix(CommittedNotes, length[epoch]))
  BY <1>7 DEF AreLengths, SnapshotOf
<1>9. length \in [0..current_epoch -> 0..tree'.next] BY <1>1, <1>4, <1>8
<1>10. ASSUME NEW epoch \in 0..current_epoch
       PROVE  Prefix(CommittedNotes', length[epoch]) = Prefix(CommittedNotes, length[epoch])
  BY <1>5, <1>8
<1>11. AreLengths(length)'
  BY <1>6, <1>8, <1>9, <1>10 DEF AreLengths, SnapshotOf
<1>12. current_epoch' \in Nat BY <1>6 DEF SnapshotsInv
<1> QED BY <1>11, <1>12 DEF SnapshotsInv

\* The epoch that ends takes the root of all notes there are.
LEMMA SnapshotTaken ==
    ASSUME SnapshotsInv, NEW caller, finalize_epoch(caller)
    PROVE  SnapshotsInv'
<1> DEFINE next == current_epoch + 1  notes == CommittedNotes
<1>1. /\ epochs' = [epoch \in 0..next |->
             CASE epoch = current_epoch ->
                    [root |-> tree.current_root, finalized |-> TRUE]
               [] epoch = next -> OpenEpoch
               [] OTHER -> epochs[epoch]]
      /\ current_epoch' = next /\ tree' = tree
  BY DEF finalize_epoch
<1>2. current_epoch \in Nat /\ tree.next \in Nat BY DEF SnapshotsInv, NodesOK
<1>3. /\ epochs'[current_epoch].root = tree.current_root
      /\ ~ epochs'[next].finalized
      /\ \A epoch \in 0..(current_epoch - 1) : epochs'[epoch] = epochs[epoch]
  BY <1>1, <1>2 DEF OpenEpoch
<1>4. notes' = notes BY <1>1 DEF CommittedNotes
<1>5. Prefix(notes, tree.next) = notes
  <2> DEFINE S == {notes[i] : i \in 1..tree.next}
  <2>1. Len(notes) = tree.next BY <1>2, LeavesLength DEF CommittedNotes
  <2>2. notes \in Seq(S)
    <3>1. notes = [i \in 1..tree.next |-> notes[i]] BY DEF CommittedNotes, LeavesUnder
    <3>2. notes \in [1..tree.next -> S]
      <4> HIDE DEF notes
      <4> QED BY <3>1
    <3> HIDE DEF notes, S
    <3> QED BY <1>2, <3>2
  <2> HIDE DEF S, notes
  <2> QED BY <2>1, <2>2, SubSeqFull DEF Prefix
<1>6. tree.current_root = SparseRoot(notes)
  BY DEF SnapshotsInv, SparseTree, NotesOf, CommittedNotes
<1>7. PICK length : AreLengths(length) BY DEF SnapshotsInv
<1>8. /\ length \in [0..current_epoch -> 0..tree.next]
      /\ \A epoch \in 0..current_epoch :
            /\ epoch > 0 => length[epoch - 1] <= length[epoch]
            /\ epochs[epoch].finalized =>
                  epochs[epoch].root = SparseRoot(Prefix(notes, length[epoch]))
  BY <1>7 DEF AreLengths, SnapshotOf
<1> DEFINE longer == [epoch \in 0..next |->
                        IF epoch < current_epoch THEN length[epoch] ELSE tree.next]
<1> HIDE DEF notes
<1>9. longer \in [0..next -> 0..tree.next] BY <1>2, <1>8
<1>10. ASSUME NEW epoch \in 0..next
       PROVE  /\ epoch > 0 => longer[epoch - 1] <= longer[epoch]
              /\ epochs'[epoch].finalized =>
                    epochs'[epoch].root = SparseRoot(Prefix(notes, longer[epoch]))
  <2>1. CASE epoch < current_epoch
    <3>1. epoch \in 0..(current_epoch - 1) /\ epoch \in 0..current_epoch BY <1>2, <2>1
    <3>2. longer[epoch] = length[epoch] BY <2>1
    <3>3. epoch > 0 => longer[epoch - 1] = length[epoch - 1] BY <1>2, <2>1
    <3> QED BY <1>3, <1>8, <3>1, <3>2, <3>3
  <2>2. CASE epoch = current_epoch
    <3>1. longer[epoch] = tree.next BY <1>2, <2>2
    <3>2. epoch > 0 => longer[epoch - 1] \in 0..tree.next BY <1>2, <1>9, <2>2
    <3> HIDE DEF longer
    <3> QED BY <1>2, <1>3, <1>5, <1>6, <2>2, <3>1, <3>2
  <2>3. CASE epoch = next
    <3>1. longer[epoch] = tree.next BY <1>2, <2>3
    <3>2. epoch - 1 \in 0..next BY <1>2, <2>3
    <3>3. longer[epoch - 1] \in 0..tree.next BY <1>9, <3>2
    <3> HIDE DEF longer
    <3> QED BY <1>2, <1>3, <2>3, <3>1, <3>3
  <2> QED BY <1>2, <2>1, <2>2, <2>3
<1> HIDE DEF longer
<1>11. PICK final : final = longer OBVIOUS
<1>12. AreLengths(final)'
  <2>1. /\ final \in [0..current_epoch' -> 0..tree'.next]
        /\ \A epoch \in 0..current_epoch' :
              /\ epoch > 0 => final[epoch - 1] <= final[epoch]
              /\ epochs'[epoch].finalized =>
                    epochs'[epoch].root = SparseRoot(Prefix(notes', final[epoch]))
    <3> HIDE DEF next
    <3> QED BY <1>1, <1>4, <1>9, <1>10, <1>11
  <2> HIDE DEF next
  <2> QED BY <2>1 DEF AreLengths, SnapshotOf, notes
<1>13. NodesOK(tree') /\ SparseTree(tree') /\ current_epoch' \in Nat
  BY <1>1, <1>2 DEF SnapshotsInv
<1> QED BY <1>12, <1>13 DEF SnapshotsInv

LEMMA SnapshotsStep == SnapshotsInv /\ [Next]_vars => SnapshotsInv'
<1> SUFFICES ASSUME SnapshotsInv, [Next]_vars PROVE SnapshotsInv'
  OBVIOUS
<1> DEFINE Quiet == UNCHANGED <<tree, epochVars>>
<1>0. NodesOK(tree) /\ SparseTree(tree) BY DEF SnapshotsInv
<1>1. ASSUME NEW note \in Notes, CanInsert(tree, note), UNCHANGED epochVars,
             tree' = push_root(update_tree(tree, note))
      PROVE  SnapshotsInv'
  <2>1. NodesOK(tree') /\ Ledger!Appends(1) BY <1>0, <1>1, OneNote
  <2>2. SparseTree(tree') BY <1>0, <1>1, OneSparse
  <2> QED BY <1>1, <2>1, <2>2, SnapshotsKeep
<1>2. ASSUME NEW nfs, NEW proof, NEW root, NEW outputs \in Outputs,
             Spend(proof, root, nfs, outputs), UNCHANGED epochVars
      PROVE  SnapshotsInv'
  <2>1. NodesOK(tree') /\ Ledger!Appends(2) BY <1>0, <1>2, TwoNotes
  <2>2. SparseTree(tree') BY <1>0, <1>2, TwoSparse
  <2> QED BY <1>2, <2>1, <2>2, SnapshotsKeep
<1>3. ASSUME Quiet PROVE SnapshotsInv'
  BY <1>3 DEF SnapshotsInv, AreLengths, SnapshotOf, CommittedNotes, epochVars
<1>4. ASSUME NEW note \in Notes, NEW value, deposit(note, value) PROVE SnapshotsInv'
  <2>1. CanInsert(tree, note) /\ tree' = push_root(update_tree(tree, note))
        /\ UNCHANGED epochVars
    BY <1>4 DEF deposit
  <2> QED BY <1>1, <2>1
<1>5. ASSUME NEW caller, NEW hash, NEW note \in Notes, reveal_deposit(caller, hash, note)
      PROVE  SnapshotsInv'
  <2>1. CanInsert(tree, note) /\ tree' = push_root(update_tree(tree, note))
        /\ UNCHANGED epochVars
    BY <1>5 DEF reveal_deposit
  <2> QED BY <1>1, <2>1
<1>6. ASSUME NEW nfs, NEW proof, NEW root, NEW outputs \in Outputs,
             transfer(proof, root, nfs, outputs)
      PROVE  SnapshotsInv'
  BY <1>2, <1>6 DEF transfer
<1>7. ASSUME NEW nfs, NEW proof, NEW root, NEW outputs \in Outputs, NEW amount,
             withdraw(proof, root, nfs, outputs, amount)
      PROVE  SnapshotsInv'
  BY <1>2, <1>7 DEF withdraw
<1>8. ASSUME NEW caller, finalize_epoch(caller) PROVE SnapshotsInv'
  BY <1>8, SnapshotTaken
<1>9. ASSUME NEW caller, NEW key, NEW root, sync_remote_root(caller, key, root)
      PROVE  Quiet
  BY <1>9 DEF sync_remote_root
<1>10. ASSUME NEW caller, pause(caller) \/ unpause(caller) PROVE Quiet
  BY <1>10 DEF pause, unpause, SetPaused
<1>11. ASSUME NEW caller, NEW to, transfer_governance(caller, to) PROVE Quiet
  BY <1>11 DEF transfer_governance
<1>12. ASSUME NEW caller, NEW hash, NEW value, commit_deposit(caller, hash, value)
       PROVE  Quiet
  BY <1>12 DEF commit_deposit
<1>13. ASSUME NEW hash, reclaim_expired_commit(hash) PROVE Quiet
  BY <1>13 DEF reclaim_expired_commit
<1>14. ASSUME Tick \/ UNCHANGED vars PROVE Quiet BY <1>14 DEF Tick, vars
<1> HIDE DEF Quiet
<1> QED
  BY <1>3, <1>4, <1>5, <1>6, <1>7, <1>8, <1>9, <1>10, <1>11, <1>12, <1>13, <1>14, Zenon
  DEF Next

\* The root that finalize_epoch takes for a snapshot is that of all notes up to
\* then, as a tree built from scratch has it, and stays the root of a prefix of
\* the notes whatever update_tree does to its map of nodes later.
THEOREM InkSnapshotsCommit == Spec => []EpochRootsCommitToPrefixes
<1>1. SnapshotsInv => EpochRootsCommitToPrefixes
  <2> SUFFICES ASSUME SnapshotsInv PROVE EpochRootsCommitToPrefixes
    OBVIOUS
  <2>1. PICK length : AreLengths(length) BY DEF SnapshotsInv
  <2> QED BY <2>1 DEF AreLengths, SnapshotOf, Prefix, EpochRootsCommitToPrefixes
<1> QED BY <1>1, SnapshotsStart, SnapshotsStep, PTL DEF Spec
=============================================================================
