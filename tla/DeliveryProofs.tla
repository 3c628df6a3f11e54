---------------------------- MODULE DeliveryProofs ----------------------------
(***************************************************************************)
(* What holds of Delivery for every number of deliveries, of moves of the  *)
(* user and of writes of other programs: its types and the balance of its  *)
(* commits, that a text lands at most once and what the application says   *)
(* of it is true, that the pasteboard is settled, and that nothing changes *)
(* after the quit.                                                         *)
(***************************************************************************)
EXTENDS Delivery, TLAPS

-----------------------------------------------------------------------------
(* The inductive invariant *)

(* The text of the current delivery is nowhere yet. *)
Untouched == landed = 0 /\ keys = Nobody

(* The steps of the chain up to the two that write into a control. *)
BeforeWriting ==
  {"select", "selectRead", "selectCheck", "selected", "copy", "copied", "route",
   "revalidate", "revalidated", "insert", "insertPrecommit", "insertCollapse",
   "insertCollapsed", "insertDispatch", "insertSet", "userDirected",
   "clipboard", "rebind", "rebound", "bind", "paste", "txnSnapshot",
   "txnSelection", "txnCopy", "txnValidate", "txnCommit", "txnStage",
   "txnRecheck", "txnPost"}

(* What a result of a paste says of the text. *)
Claims(result) ==
  /\ result = "Inserted" => landed = 1
  /\ result \notin {"Inserted", "Dispatched", "Indeterminate"} => Untouched

(* The statuses that say that the text is nowhere. *)
Unwritten == {"not_inserted", "llm_fallback"}

(* A text lands once: by the setter or by the shortcut.  Whoever goes on to *)
(* another way of writing knows that it has not landed and will not.        *)
OnceInv ==
  /\ landed \in {0, 1}
  /\ keys # Nobody => keys = current /\ landed = 0
  /\ at \in BeforeWriting => Untouched
  /\ at \in BeforeWriting \cup {"insertVerify", "inserted", "txnVerify"}
       => ledger = "none"
  /\ at = "insertVerify" =>
       keys = Nobody /\ (field.count = "same" => landed = 0)
  /\ at = "inserted" =>
       /\ keys = Nobody
       /\ answer = "Inserted" => landed = 1
       /\ answer = "NotInserted" => landed = 0
  /\ at \in {"txnRestore", "txnWriteBack", "txnRecord"} => Claims(txn.outcome)
  /\ txn.kind = "selection" => Untouched /\ ledger = "none"
  /\ at = "pasted" => Claims(answer)
  /\ at = "finalizeInserted" \/ fate = "inserted" => landed = 1
  /\ field.holds # Nobody => field.holds = current /\ landed = 1
  /\ at = "show" /\ fallback \in Unwritten => Untouched

(* The steps after the current text was given to the window. *)
AfterShow ==
  {"showWindow", "shown", "finalizeBoxed", "autoCopy", "history", "saveHistory",
   "complete", "idle"}

(* The window's text is of a delivery that has started, and if it is the    *)
(* current one's, its chain writes nowhere any more.                        *)
WindowInv ==
  /\ pending = Nobody => status = "none"
  /\ current \notin waiting /\ pending \notin waiting
  /\ at # "idle" => current # Nobody
  /\ pending # Nobody /\ pending = current => at \in AfterShow
  /\ pending = current /\ status \in Unwritten => Untouched

(* The steps of a transaction: before it stages its text, with its text or  *)
(* its remains on the pasteboard, and at the end.                           *)
Unstaged == {"txnValidate", "txnCommit", "txnStage", "txnSelection", "txnCopy"}
Staged == {"txnRecheck", "txnPost", "txnVerify", "txnRestore", "txnWriteBack"}
TxnSteps == Unstaged \cup Staged \cup {"txnSnapshot", "txnRecord"}

(* An undisturbed transaction has changed the pasteboard as often as it     *)
(* knows; a changed count tells the writes of others from its own.          *)
TransactionInv ==
  /\ at \in TxnSteps <=> txn.kind # "none"
  /\ at \in {"txnSelection", "txnCopy"} => txn.kind = "selection"
  /\ at \in {"txnValidate", "txnCommit", "txnStage", "txnRecheck", "txnPost",
             "txnVerify"} => txn.kind # "selection"
  /\ txn.clean /\ at = "txnSnapshot" => pasteboard.changes = 0
  /\ txn.clean /\ (at \in Unstaged \/ (at = "txnRestore" /\ txn.kind = "selection"))
       => pasteboard.content = txn.saved /\ pasteboard.changes = 0
  /\ at \in Staged /\ txn.kind # "selection" =>
       /\ txn.clean => pasteboard.changes = 1
       /\ pasteboard.changes > 0
       /\ pasteboard.changes = 1 => pasteboard.content # "foreign"
  /\ at = "txnRecord" /\ txn.clean => pasteboard.content = txn.saved

(* The steps that hold a CommitGuard. *)
Committing ==
  \/ at \in {"insertCollapse", "insertCollapsed", "insertDispatch", "insertSet",
             "insertVerify", "txnStage", "txnRecheck", "txnPost", "txnVerify",
             "showWindow", "saveHistory"}
  \/ at \in {"txnRestore", "txnWriteBack", "txnRecord"} /\ txn.kind # "selection"

CommitInv ==
  /\ commits = IF Committing THEN 1 ELSE 0
  /\ quit = "done" => at = "idle"

DeliveryInv == TypeOK /\ OnceInv /\ WindowInv /\ TransactionInv /\ CommitInv
-----------------------------------------------------------------------------
(* The steps, by what they touch *)

(* The chain's own decisions between two port calls. *)
ChainStep ==
  \/ Route \/ ChooseInsert \/ ChooseAfterInsert \/ TryClipboard \/ ChooseBound
  \/ TryUserDirected \/ ChooseAfterPaste \/ ChooseAfterShow \/ BeginFinalizing
  \/ OpenHistory \/ SaveHistory \/ Complete \/ ChooseAfterSelection
  \/ ChooseAfterCopy

(* The calls that only look at the target. *)
TargetStep ==
  \/ RevalidateFirst \/ RevalidateAgain
  \/ SelectStep /\ UNCHANGED <<session, bridge, temporary>>

-----------------------------------------------------------------------------
(* Types *)

(* A write of a known text leaves a pasteboard of its type. *)
LEMMA WriteKeepsType ==
  ASSUME TargetTypeOK, NEW content \in Contents, NEW ok \in BOOLEAN,
         WritePasteboard(content, ok)
  PROVE  pasteboard' \in [content : Contents, changes : 0..Uncounted]
<1>1. /\ pasteboard.changes \in 0..3
      /\ pasteboard' = [content |-> IF ok THEN content ELSE "empty",
                        changes |-> IF pasteboard.changes < 2
                                    THEN pasteboard.changes + 1
                                    ELSE pasteboard.changes]
  BY DEF TargetTypeOK, WritePasteboard, Uncounted
<1>2. (IF pasteboard.changes < 2 THEN pasteboard.changes + 1
       ELSE pasteboard.changes) \in 0..3
  BY <1>1
<1>3. (IF ok THEN content ELSE "empty") \in Contents
  BY DEF Contents
<1> QED BY <1>1, <1>2, <1>3 DEF Uncounted

(* A text that lands leaves a control of its type. *)
LEMMA FieldKeepsType ==
  ASSUME NEW d \in Deliveries \cup {Nobody}
  PROVE  FieldWith(d) \in Fields /\ Edited \in Fields
  BY DEF FieldWith, Edited, Fields, Carets, Counts

(* The chain's decisions leave the ports alone. *)
LEMMA ChainKeepsType ==
  ASSUME TypeOK, ChainStep
  PROVE  /\ UNCHANGED <<ports, current, open, waiting, quit>>
         /\ answer' \in Answers /\ fate' \in Fates /\ fallback' \in Statuses
         /\ saved' \in BOOLEAN
<1> USE DEF TypeOK, Answers, Fates, Statuses, Go, Goto, EndAs, IfExpected,
    ShowAs, session
<1>1. CASE Route \/ ChooseInsert \/ ChooseAfterInsert \/ TryClipboard
  BY <1>1 DEF Route, ChooseInsert, ChooseAfterInsert, TryClipboard
<1>2. CASE ChooseBound \/ TryUserDirected \/ ChooseAfterPaste \/ ChooseAfterShow
  BY <1>2 DEF ChooseBound, TryUserDirected, ChooseAfterPaste, ChooseAfterShow
<1>3. CASE BeginFinalizing
  BY <1>3 DEF BeginFinalizing, Finals
<1>4. CASE OpenHistory \/ SaveHistory
  BY <1>4 DEF OpenHistory, SaveHistory, BeginCommit, EndCommit, Return
<1>5. CASE Complete \/ ChooseAfterSelection \/ ChooseAfterCopy
  BY <1>5 DEF Complete, ChooseAfterSelection, ChooseAfterCopy
<1> QED BY <1>1, <1>2, <1>3, <1>4, <1>5 DEF ChainStep

(* So do the calls that only look; a revalidation may mint a capability. *)
LEMMA TargetKeepsType ==
  ASSUME TypeOK, TargetStep
  PROVE  /\ UNCHANGED <<session, temporary, bridge, targetVars, current, open,
                        snapshot, consumed>>
         /\ answer' \in Answers /\ capability' \in {"none", "selected", "anchor"}
<1> USE DEF TypeOK, RegistryTypeOK, Answers, callVars, registry, Goto, Return
<1>1. CASE RevalidateFirst \/ RevalidateAgain
  <2>1. /\ RevalidationOf \in Answers
        /\ RevalidationOf = "Valid" => snapshot \in {"selected", "anchor"}
    BY DEF RevalidationOf, Disposition, Security, Snapshots, TargetTypeOK,
        Fields, Carets
  <2> QED BY <1>1, <2>1 DEF RevalidateFirst, RevalidateAgain, Revalidate
<1>2. CASE SelectStep /\ UNCHANGED <<session, bridge, temporary>>
  BY <1>2 DEF SelectStep, LookAtSelection, ReadSelection, CheckSelection
<1> QED BY <1>1, <1>2 DEF TargetStep

(* An insertion writes into the control and spends the capability. *)
LEMMA InsertKeepsType ==
  ASSUME TypeOK, InsertStep
  PROVE  /\ UNCHANGED <<focus, keys, pasteboard, moves, foreign, snapshot, current,
                        open>>
         /\ field' \in Fields /\ landed' \in Nat /\ answer' \in Answers
         /\ capability' \in {capability, "none"} /\ consumed' \in BOOLEAN
<1> USE DEF TypeOK, TargetTypeOK, RegistryTypeOK, Answers, registry, targetVars,
    Goto, Return, BeginCommit, EndCommit
<1>1. CASE InsertTake \/ InsertPrecommit
  BY <1>1 DEF InsertTake, InsertPrecommit
<1>2. CASE InsertCollapse
  BY <1>2 DEF InsertCollapse, Fields, Carets
<1>3. CASE InsertCollapsed \/ InsertDispatch
  BY <1>3 DEF InsertCollapsed, InsertDispatch
<1>4. CASE InsertSet
  BY <1>4, FieldKeepsType DEF InsertSet, SetSelectedText, Lands
<1>5. CASE InsertVerify
  BY <1>5 DEF InsertVerify, InsertOutcomeOf
<1> QED BY <1>1, <1>2, <1>3, <1>4, <1>5 DEF InsertStep

(* No transaction is one of its type, and so is one that begins. *)
LEMMA TransactionIsTyped ==
  ASSUME ledger' \in Answers,
         \/ txn' = NoTxn
         \/ \E kind \in {"bound", "user", "selection"} :
              txn' = [NoTxn EXCEPT !.kind = kind, !.clean = TRUE]
  PROVE  BridgeTypeOK'
<1>1. CASE txn' = NoTxn
  BY <1>1 DEF NoTxn, BridgeTypeOK, Answers, Contents
<1>2. ASSUME NEW kind \in {"bound", "user", "selection"},
             txn' = [NoTxn EXCEPT !.kind = kind, !.clean = TRUE]
      PROVE  BridgeTypeOK'
  BY <1>2 DEF NoTxn, BridgeTypeOK, Answers, Contents
<1> QED BY <1>1, <1>2

(* So is one that ends or whose outcome is known. *)
LEMMA OutcomeKeepsType ==
  ASSUME BridgeTypeOK, NEW result \in Answers,
         \/ Record(result)
         \/ (OutcomeIs(result) \/ RestoreFailed) /\ ledger' \in Answers
  PROVE  BridgeTypeOK'
<1>1. CASE Record(result)
  BY <1>1, TransactionIsTyped DEF Record, BridgeTypeOK
<1>2. CASE OutcomeIs(result) /\ ledger' \in Answers
  BY <1>2 DEF OutcomeIs, BridgeTypeOK
<1>3. CASE RestoreFailed /\ ledger' \in Answers
  BY <1>3 DEF RestoreFailed, BridgeTypeOK, Answers
<1> QED BY <1>1, <1>2, <1>3

(* A transaction writes the pasteboard and posts a shortcut. *)
LEMMA TransactionKeepsType ==
  ASSUME TypeOK, WindowInv, TransactionStep
  PROVE  /\ UNCHANGED <<focus, field, landed, moves, foreign, registry, current, open>>
         /\ keys' \in Deliveries \cup {Nobody}
         /\ pasteboard' \in [content : Contents, changes : 0..Uncounted]
         /\ BridgeTypeOK' /\ answer' \in Answers
<1> USE DEF TypeOK, TargetTypeOK, Answers, registry, targetVars, bridge, Goto,
    Return, BeginCommit, EndCommit, Pasted, Caller
<1>1. CASE BeginTransaction("bound", "bind") \/ BeginTransaction("user", "paste")
           \/ BeginSelection
  <2>1. BridgeTypeOK'
    BY <1>1, OutcomeKeepsType, TransactionIsTyped DEF BeginTransaction,
        BeginSelection, BridgeTypeOK
  <2>2. pasteboard' \in [content : Contents, changes : 0..Uncounted]
    BY <1>1 DEF BeginTransaction, BeginSelection, Uncounted
  <2>3. answer' \in Answers
    BY <1>1 DEF BeginTransaction, BeginSelection, LedgerAnswer, BridgeTypeOK
  <2> QED BY <1>1, <2>1, <2>2, <2>3 DEF BeginTransaction, BeginSelection
<1>2. CASE ReadContents \/ ValidateSelectionTarget \/ CopySelection
  <2>1. BridgeTypeOK'
    BY <1>2, OutcomeKeepsType, TransactionIsTyped
       DEF ReadContents, ValidateSelectionTarget, CopySelection, BridgeTypeOK
  <2> QED BY <1>2, <2>1 DEF ReadContents, ValidateSelectionTarget, CopySelection
<1>3. CASE ValidateInsertTarget \/ CommitTransaction
  <2>1. BridgeTypeOK'
    BY <1>3, OutcomeKeepsType, TransactionIsTyped
       DEF ValidateInsertTarget, CommitTransaction, BridgeTypeOK
  <2> QED BY <1>3, <2>1 DEF ValidateInsertTarget, CommitTransaction
<1>4. CASE StageText
  <2>1. current \in Contents
    BY <1>4 DEF StageText, WindowInv, Contents
  <2>2. BridgeTypeOK'
    BY <1>4, OutcomeKeepsType, TransactionIsTyped DEF StageText, BridgeTypeOK
  <2>3. pasteboard' \in [content : Contents, changes : 0..Uncounted]
    BY <1>4, <2>1, WriteKeepsType DEF StageText
  <2> QED BY <1>4, <2>2, <2>3 DEF StageText
<1>5. CASE RecheckTarget \/ PostShortcut
  <2>1. BridgeTypeOK'
    BY <1>5, OutcomeKeepsType, TransactionIsTyped DEF RecheckTarget,
        PostShortcut, BridgeTypeOK
  <2> QED BY <1>5, <2>1 DEF RecheckTarget, PostShortcut, PostPaste
<1>6. CASE VerifyPaste \/ CheckOurs
  <2>1. BridgeTypeOK'
    BY <1>6, OutcomeKeepsType, TransactionIsTyped DEF VerifyPaste, PastedAs,
        CheckOurs, BridgeTypeOK
  <2> QED BY <1>6, <2>1 DEF VerifyPaste, CheckOurs
<1>7. CASE WriteBack
  <2>1. BridgeTypeOK'
    BY <1>7, OutcomeKeepsType, TransactionIsTyped DEF WriteBack, BridgeTypeOK
  <2>2. pasteboard' \in [content : Contents, changes : 0..Uncounted]
    BY <1>7, WriteKeepsType DEF WriteBack, BridgeTypeOK
  <2> QED BY <1>7, <2>1, <2>2 DEF WriteBack
<1>8. CASE RecordOutcome \/ EndSelection
  <2>1. BridgeTypeOK'
    BY <1>8, OutcomeKeepsType, TransactionIsTyped DEF RecordOutcome,
        EndSelection, BridgeTypeOK
  <2>2. pasteboard' \in [content : Contents, changes : 0..Uncounted]
    BY <1>8 DEF RecordOutcome, EndSelection, Uncounted
  <2>3. answer' \in Answers
    BY <1>8 DEF RecordOutcome, EndSelection, BridgeTypeOK
  <2> QED BY <1>8, <2>1, <2>2, <2>3 DEF RecordOutcome, EndSelection
<1> QED BY <1>1, <1>2, <1>3, <1>4, <1>5, <1>6, <1>7, <1>8 DEF TransactionStep

(* A step keeps the types. *)
LEMMA NextKeepsType ==
  ASSUME DeliveryInv, [Next]_vars, CommitInv'
  PROVE  TypeOK'
<1> USE DEF DeliveryInv, TypeOK, vars, ports, session, callVars, temporary,
    bridge, registry, targetVars
<1>0. commits' \in 0..1
  BY DEF CommitInv
<1>1. CASE ChainStep
  BY <1>0, <1>1, ChainKeepsType
     DEF TargetTypeOK, RegistryTypeOK, BridgeTypeOK, TemporaryTypeOK
<1>2. CASE TargetStep
  BY <1>0, <1>2, TargetKeepsType
     DEF TargetTypeOK, RegistryTypeOK, BridgeTypeOK, TemporaryTypeOK
<1>3. CASE AutoCopy
  <2>1. /\ pasteboard' \in [content : Contents, changes : 0..Uncounted]
        /\ UNCHANGED <<focus, field, keys, landed, moves, foreign>>
    BY <1>3, WriteKeepsType DEF AutoCopy, WindowInv, Contents
  <2>2. /\ UNCHANGED <<temporary, bridge, registry>>
        /\ UNCHANGED <<current, open, waiting, quit>>
        /\ answer' \in Answers /\ fate' \in Fates /\ fallback' \in Statuses
        /\ saved' \in BOOLEAN
    BY <1>3 DEF AutoCopy, IfExpected, Go, Goto, EndAs, Answers, Fates, Statuses
  <2> QED BY <1>0, <2>1, <2>2
          DEF TargetTypeOK, RegistryTypeOK, BridgeTypeOK, TemporaryTypeOK
<1>4. CASE InsertStep /\ UNCHANGED <<session, bridge, temporary>>
  BY <1>0, <1>4, InsertKeepsType
     DEF TargetTypeOK, RegistryTypeOK, BridgeTypeOK, TemporaryTypeOK
<1>5. CASE TransactionStep /\ UNCHANGED <<session, temporary>>
  BY <1>0, <1>5, TransactionKeepsType
     DEF TargetTypeOK, RegistryTypeOK, TemporaryTypeOK
<1>6. CASE ShowStep(fallback) /\ UNCHANGED session
  <2>1. /\ UNCHANGED <<bridge, registry, targetVars, current, open>>
        /\ answer' \in Answers
    BY <1>6 DEF ShowStep, ShowText, ShowWindow, BeginCommit, EndCommit, Return,
        Answers
  <2>2. TemporaryTypeOK'
    <3>1. pending' \in Deliveries \cup {Nobody} /\ status' \in Statuses
      BY <1>6 DEF ShowStep, ShowText, ShowWindow, TemporaryTypeOK
    <3>2. box' \in [exists : BOOLEAN, shows : Deliveries \cup {Nobody, Loading}]
      <4>1. NewBox \in [exists : BOOLEAN, shows : Deliveries \cup {Nobody, Loading}]
        BY DEF NewBox
      <4>2. box' \in {box, NewBox} \/ box' = [box EXCEPT !.shows = current]
        BY <1>6 DEF ShowStep, ShowText, ShowWindow
      <4> QED BY <4>1, <4>2 DEF TemporaryTypeOK
    <3> QED BY <1>6, <3>1, <3>2 DEF ShowStep, ShowText, ShowWindow,
        TemporaryTypeOK
  <2> QED BY <1>0, <1>6, <2>1, <2>2 DEF TargetTypeOK, RegistryTypeOK,
      BridgeTypeOK
<1>7. ASSUME NEW d \in Deliveries, StartDelivery(d) PROVE TypeOK'
  <2>1. TargetTypeOK' /\ RegistryTypeOK'
    <3>1. PICK caret \in {"selected", "anchor"}, safe \in BOOLEAN :
            /\ field' = [caret |-> caret, count |-> "same", holds |-> Nobody]
            /\ focus' = IF safe THEN "target" ELSE "unknown"
            /\ snapshot' = IF safe THEN caret ELSE "unsafe"
            /\ capability' = "none" /\ consumed' = FALSE /\ landed' = 0
            /\ UNCHANGED <<keys, pasteboard, moves, foreign>>
      BY <1>7 DEF StartDelivery, Capture
    <3>2. field' \in Fields
      BY <3>1 DEF Fields, Carets, Counts
    <3> QED BY <3>1, <3>2 DEF TargetTypeOK, RegistryTypeOK, Foci, Snapshots
  <2>2. BridgeTypeOK' /\ TemporaryTypeOK'
    BY <1>7 DEF StartDelivery, BridgeTypeOK, TemporaryTypeOK, Answers
  <2>3. /\ current' = d /\ answer' = "none" /\ open' = TRUE
        /\ waiting' \subseteq Deliveries /\ fate' = "none" /\ saved' = FALSE
        /\ fallback' \in Statuses /\ quit' = quit
    BY <1>7 DEF StartDelivery, Statuses
  <2> QED BY <1>0, <2>1, <2>2, <2>3 DEF Answers, Fates
<1>8. CASE QuitStep
  <2>1. /\ UNCHANGED <<ports, current, answer, waiting, fate, fallback, saved>>
        /\ open' \in BOOLEAN /\ quit' \in {"idle", "invalidate", "drain", "done"}
    BY <1>8 DEF QuitStep, QuitTake, QuitInvalidate, QuitDrain, Invalidate
  <2> QED BY <1>0, <2>1
          DEF TargetTypeOK, RegistryTypeOK, BridgeTypeOK, TemporaryTypeOK
<1>9. CASE UserStep
  <2>1. UNCHANGED <<session, callVars, bridge, registry>>
    BY <1>9 DEF UserStep, WindowStep, Mount, Dismiss, DestroyWindow, CopyAll,
        ShowPending
  <2>2. TemporaryTypeOK'
    <3>1. box' \in [exists : BOOLEAN, shows : Deliveries \cup {Nobody, Loading}]
      <4>1. /\ NoBox \in [exists : BOOLEAN, shows : Deliveries \cup {Nobody, Loading}]
            /\ NewBox \in [exists : BOOLEAN, shows : Deliveries \cup {Nobody, Loading}]
        BY DEF NoBox, NewBox
      <4>2. \/ box' \in {box, NoBox, NewBox}
            \/ box' = [box EXCEPT !.shows = pending]
        BY <1>9 DEF UserStep, WindowStep, Mount, Dismiss, DestroyWindow,
            CopyAll, ShowPending
      <4> QED BY <4>1, <4>2 DEF TemporaryTypeOK
    <3>2. /\ pending' \in {pending, Nobody} /\ status' \in {status, "none"}
          /\ dismissing' \in BOOLEAN /\ gone' \in BOOLEAN
      BY <1>9 DEF UserStep, WindowStep, Mount, Dismiss, DestroyWindow, CopyAll,
          ShowPending, TemporaryTypeOK
    <3> QED BY <3>1, <3>2 DEF TemporaryTypeOK, Statuses
  <2>3. TargetTypeOK'
    BY <1>9, WriteKeepsType
       DEF UserStep, WindowStep, Mount, Dismiss, DestroyWindow, CopyAll, ShowPending,
           TargetTypeOK, TemporaryTypeOK, Contents
  <2> QED BY <1>0, <2>1, <2>2, <2>3 DEF RegistryTypeOK, BridgeTypeOK
<1>10. CASE EnvironmentStep
  <2>1. UNCHANGED <<session, temporary, callVars>>
    BY <1>10 DEF EnvironmentStep, ForeignWriteSeen, ExpireCapability,
        ExpireSnapshot
  <2>2. RegistryTypeOK' /\ BridgeTypeOK'
    BY <1>10 DEF EnvironmentStep, ForeignWriteSeen, ExpireCapability,
        ExpireSnapshot, RegistryTypeOK, BridgeTypeOK, Snapshots
  <2>3. ASSUME ConsumePaste PROVE TargetTypeOK'
    BY <2>3, FieldKeepsType DEF ConsumePaste, TargetTypeOK
  <2>4. ASSUME UserMoves PROVE TargetTypeOK'
    <3>1. focus' \in Foci /\ moves' \in 0..MaxMoves
      BY <2>4, BoundsAreNatural DEF UserMoves, TargetTypeOK
    <3>2. field' \in Fields
      BY <2>4 DEF UserMoves, TargetTypeOK, Fields, Carets, Counts, Edited
    <3> QED BY <2>4, <3>1, <3>2 DEF UserMoves, TargetTypeOK
  <2>5. ASSUME ForeignWriteSeen PROVE TargetTypeOK'
    <3>1. pasteboard' \in [content : Contents, changes : 0..Uncounted]
      BY <2>5, WriteKeepsType DEF ForeignWriteSeen, ForeignWrite, Contents
    <3>2. foreign' \in 0..MaxForeign
      BY <2>5, BoundsAreNatural DEF ForeignWriteSeen, ForeignWrite, TargetTypeOK
    <3> QED BY <2>5, <3>1, <3>2 DEF ForeignWriteSeen, ForeignWrite, TargetTypeOK
  <2>6. ASSUME ExpireCapability \/ ExpireSnapshot PROVE TargetTypeOK'
    BY <2>6 DEF ExpireCapability, ExpireSnapshot, TargetTypeOK
  <2> QED BY <1>0, <1>10, <2>1, <2>2, <2>3, <2>4, <2>5, <2>6
          DEF EnvironmentStep, TemporaryTypeOK
<1>11. CASE UNCHANGED vars
  BY <1>11 DEF TargetTypeOK, RegistryTypeOK, BridgeTypeOK, TemporaryTypeOK
<1> QED BY <1>1, <1>2, <1>3, <1>4, <1>5, <1>6, <1>7, <1>8, <1>9, <1>10, <1>11
        DEF Next, DeliverStep, ChainStep, TargetStep, Over

-----------------------------------------------------------------------------
(* The invariant is inductive *)

(* A step keeps the text from landing twice. *)
LEMMA NextKeepsOnce ==
  ASSUME DeliveryInv, [Next]_vars
  PROVE  OnceInv'
<1> USE DeliveriesAreOwn DEF OnceInv, TransactionInv, TxnSteps, Unstaged,
    Staged, WindowInv, TypeOK, TargetTypeOK, BridgeTypeOK, Fields,
    BeforeWriting, Claims, Untouched, Unwritten, Finals, DeliveryInv, Go, Goto,
    EndAs, IfExpected, ShowAs, Expected, Return, BeginCommit, EndCommit,
    session, ports, vars, callVars, temporary, bridge, registry, targetVars
<1>1. CASE ChainStep
  <2> USE <1>1
  <2>1. CASE Route
    BY <2>1 DEF Route
  <2>2. CASE ChooseInsert
    BY <2>2 DEF ChooseInsert
  <2>3. CASE ChooseAfterInsert
    BY <2>3 DEF ChooseAfterInsert
  <2>4. CASE TryClipboard
    BY <2>4 DEF TryClipboard
  <2>5. CASE ChooseBound
    BY <2>5 DEF ChooseBound
  <2>6. CASE TryUserDirected
    BY <2>6 DEF TryUserDirected
  <2>7. CASE ChooseAfterPaste
    BY <2>7 DEF ChooseAfterPaste
  <2>8. CASE ChooseAfterShow
    BY <2>8 DEF ChooseAfterShow
  <2>9. CASE BeginFinalizing
    BY <2>9 DEF BeginFinalizing
  <2>10. CASE OpenHistory
    BY <2>10 DEF OpenHistory
  <2>11. CASE SaveHistory
    BY <2>11 DEF SaveHistory
  <2>12. CASE Complete
    BY <2>12 DEF Complete
  <2>13. CASE ChooseAfterSelection
    BY <2>13 DEF ChooseAfterSelection
  <2>14. CASE ChooseAfterCopy
    BY <2>14 DEF ChooseAfterCopy
  <2> QED BY <2>1, <2>2, <2>3, <2>4, <2>5, <2>6, <2>7, <2>8, <2>9, <2>10, <2>11,
      <2>12, <2>13, <2>14 DEF ChainStep
<1>2. CASE TargetStep
  BY <1>2 DEF TargetStep, RevalidateFirst, RevalidateAgain, Revalidate,
      SelectStep, LookAtSelection, ReadSelection, CheckSelection
<1>3. CASE AutoCopy
  BY <1>3 DEF AutoCopy, WritePasteboard
<1>4. CASE InsertStep /\ UNCHANGED <<session, bridge, temporary>>
  <2> USE <1>4
  <2>1. CASE InsertTake
    BY <2>1 DEF InsertTake
  <2>2. CASE InsertPrecommit
    BY <2>2 DEF InsertPrecommit
  <2>3. CASE InsertCollapse
    BY <2>3 DEF InsertCollapse
  <2>4. CASE InsertCollapsed
    BY <2>4 DEF InsertCollapsed
  <2>5. CASE InsertDispatch
    BY <2>5 DEF InsertDispatch
  <2>6. CASE InsertSet
    <3>1. /\ UNCHANGED <<keys, ledger, txn, fate, fallback, current>>
          /\ \/ at' = "insertVerify"
             \/ at' = "inserted" /\ answer' = "Indeterminate"
      BY <2>6 DEF InsertSet, SetSelectedText
    <3>2. landed = 0 /\ keys = Nobody /\ ledger = "none" /\ txn.kind = "none"
      BY <2>6 DEF InsertSet
    <3>3. CASE UNCHANGED <<field, landed>>
      BY <3>1, <3>2, <3>3
    <3>4. CASE Lands(current)
      <4>1. /\ landed' = 1 /\ field'.count = "plus"
            /\ field'.holds \in {current, Nobody}
        BY <3>2, <3>4 DEF Lands, FieldWith
      <4> QED BY <3>1, <3>2, <4>1
    <3> QED BY <2>6, <3>3, <3>4 DEF InsertSet, SetSelectedText
  <2>7. CASE InsertVerify
    BY <2>7 DEF InsertVerify, InsertOutcomeOf, PollMayFind, ReadBack
  <2> QED BY <2>1, <2>2, <2>3, <2>4, <2>5, <2>6, <2>7 DEF InsertStep
<1>5. CASE TransactionStep /\ UNCHANGED <<session, temporary>>
  <2> USE <1>5 DEF Record, OutcomeIs, NoTxn, Pasted, Caller
  <2>1. CASE BeginTransaction("bound", "bind")
    BY <2>1 DEF BeginTransaction, LedgerAnswer, Busy
  <2>2. CASE BeginTransaction("user", "paste")
    BY <2>2 DEF BeginTransaction, LedgerAnswer, Busy
  <2>3. CASE BeginSelection
    BY <2>3 DEF BeginSelection, Busy
  <2>4. CASE ReadContents
    BY <2>4 DEF ReadContents
  <2>5. CASE ValidateSelectionTarget
    BY <2>5 DEF ValidateSelectionTarget
  <2>6. CASE CopySelection
    BY <2>6 DEF CopySelection
  <2>7. CASE ValidateInsertTarget
    BY <2>7 DEF ValidateInsertTarget
  <2>8. CASE CommitTransaction
    BY <2>8 DEF CommitTransaction
  <2>9. CASE StageText
    BY <2>9 DEF StageText, WritePasteboard
  <2>10. CASE RecheckTarget
    BY <2>10 DEF RecheckTarget
  <2>11. CASE PostShortcut
    BY <2>11 DEF PostShortcut, PostPaste
  <2>12. CASE VerifyPaste
    BY <2>12 DEF VerifyPaste, PastedAs, PollMayFind, ReadBack
  <2>13. CASE CheckOurs
    BY <2>13 DEF CheckOurs, Ours
  <2>14. CASE WriteBack
    BY <2>14 DEF WriteBack, WritePasteboard, RestoreFailed
  <2>15. CASE RecordOutcome
    BY <2>15 DEF RecordOutcome
  <2>16. CASE EndSelection
    BY <2>16 DEF EndSelection
  <2> QED BY <2>1, <2>2, <2>3, <2>4, <2>5, <2>6, <2>7, <2>8, <2>9, <2>10, <2>11,
      <2>12, <2>13, <2>14, <2>15, <2>16 DEF TransactionStep
<1>6. CASE ShowStep(fallback) /\ UNCHANGED session
  BY <1>6 DEF ShowStep, ShowText, ShowWindow
<1>7. CASE \E d \in Deliveries : StartDelivery(d)
  BY <1>7 DEF StartDelivery, Capture
<1>8. CASE QuitStep
  BY <1>8 DEF QuitStep, QuitTake, QuitInvalidate, QuitDrain, Invalidate
<1>9. CASE UserStep
  <2> USE <1>9 DEF UserStep
  <2>1. CASE Mount
    BY <2>1 DEF Mount, WritePasteboard, Busy
  <2>2. CASE DestroyWindow
    BY <2>2 DEF DestroyWindow, WritePasteboard, Busy
  <2>3. CASE CopyAll
    BY <2>3 DEF CopyAll, WritePasteboard, Busy
  <2>4. CASE Dismiss
    BY <2>4 DEF Dismiss, WritePasteboard, Busy
  <2>5. CASE ShowPending
    BY <2>5 DEF ShowPending, WritePasteboard, Busy
  <2> QED BY <2>1, <2>2, <2>3, <2>4, <2>5 DEF WindowStep
<1>10. CASE EnvironmentStep
  BY <1>10 DEF EnvironmentStep, ConsumePaste, UserMoves, ForeignWriteSeen,
      ForeignWrite, ExpireCapability, ExpireSnapshot, FieldWith, Edited,
      WritePasteboard
<1>11. CASE UNCHANGED vars
  BY <1>11 DEF vars
<1> QED BY <1>1, <1>2, <1>3, <1>4, <1>5, <1>6, <1>7, <1>8, <1>9, <1>10, <1>11
    DEF Next, DeliverStep, ChainStep, TargetStep, Over

(* A step keeps what the window says true. *)
LEMMA NextKeepsWindow ==
  ASSUME DeliveryInv, [Next]_vars
  PROVE  WindowInv'
<1> USE DeliveriesAreOwn DEF WindowInv, OnceInv, TypeOK, TemporaryTypeOK,
    AfterShow, BeforeWriting, Untouched, Unwritten, Finals, DeliveryInv, Go,
    Goto, EndAs, IfExpected, ShowAs, Expected, Return, BeginCommit, EndCommit,
    session, ports, vars, callVars, temporary, bridge, registry, targetVars
<1>1. CASE ChainStep
  <2> USE <1>1
  <2>1. CASE Route
    BY <2>1 DEF Route
  <2>2. CASE ChooseInsert
    BY <2>2 DEF ChooseInsert
  <2>3. CASE ChooseAfterInsert
    BY <2>3 DEF ChooseAfterInsert
  <2>4. CASE TryClipboard
    BY <2>4 DEF TryClipboard
  <2>5. CASE ChooseBound
    BY <2>5 DEF ChooseBound
  <2>6. CASE TryUserDirected
    BY <2>6 DEF TryUserDirected
  <2>7. CASE ChooseAfterPaste
    BY <2>7 DEF ChooseAfterPaste
  <2>8. CASE ChooseAfterShow
    BY <2>8 DEF ChooseAfterShow
  <2>9. CASE BeginFinalizing
    BY <2>9 DEF BeginFinalizing
  <2>10. CASE OpenHistory
    BY <2>10 DEF OpenHistory
  <2>11. CASE SaveHistory
    BY <2>11 DEF SaveHistory
  <2>12. CASE Complete
    BY <2>12 DEF Complete
  <2>13. CASE ChooseAfterSelection
    BY <2>13 DEF ChooseAfterSelection
  <2>14. CASE ChooseAfterCopy
    BY <2>14 DEF ChooseAfterCopy
  <2> QED BY <2>1, <2>2, <2>3, <2>4, <2>5, <2>6, <2>7, <2>8, <2>9, <2>10, <2>11,
      <2>12, <2>13, <2>14 DEF ChainStep
<1>2. CASE TargetStep
  BY <1>2 DEF TargetStep, RevalidateFirst, RevalidateAgain, Revalidate,
      SelectStep, LookAtSelection, ReadSelection, CheckSelection
<1>3. CASE AutoCopy
  BY <1>3 DEF AutoCopy, WritePasteboard
<1>4. CASE InsertStep /\ UNCHANGED <<session, bridge, temporary>>
  <2>1. UNCHANGED <<pending, status, waiting, current>>
    BY <1>4, InsertKeepsType
  <2>2. at \notin AfterShow
    BY <1>4 DEF InsertStep, InsertTake, InsertPrecommit, InsertCollapse,
        InsertCollapsed, InsertDispatch, InsertSet, InsertVerify
  <2> QED BY <2>1, <2>2
<1>5. CASE TransactionStep /\ UNCHANGED <<session, temporary>>
  <2>1. UNCHANGED <<pending, status, waiting, current>>
    BY <1>5, TransactionKeepsType
  <2>2. at \notin AfterShow
    BY <1>5 DEF TransactionStep, BeginTransaction, BeginSelection, ReadContents,
        ValidateSelectionTarget, CopySelection, ValidateInsertTarget,
        CommitTransaction, StageText, RecheckTarget, PostShortcut, VerifyPaste,
        CheckOurs, WriteBack, RecordOutcome, EndSelection
  <2> QED BY <2>1, <2>2
<1>6. CASE ShowStep(fallback) /\ UNCHANGED session
  BY <1>6 DEF ShowStep, ShowText, ShowWindow
<1>7. CASE \E d \in Deliveries : StartDelivery(d)
  BY <1>7 DEF StartDelivery, Capture
<1>8. CASE QuitStep
  BY <1>8 DEF QuitStep, QuitTake, QuitInvalidate, QuitDrain, Invalidate
<1>9. CASE UserStep
  <2> USE <1>9 DEF UserStep
  <2>1. CASE Mount
    BY <2>1 DEF Mount, WritePasteboard, Busy
  <2>2. CASE DestroyWindow
    BY <2>2 DEF DestroyWindow, WritePasteboard, Busy
  <2>3. CASE CopyAll
    BY <2>3 DEF CopyAll, WritePasteboard, Busy
  <2>4. CASE Dismiss
    BY <2>4 DEF Dismiss, WritePasteboard, Busy
  <2>5. CASE ShowPending
    BY <2>5 DEF ShowPending, WritePasteboard, Busy
  <2> QED BY <2>1, <2>2, <2>3, <2>4, <2>5 DEF WindowStep
<1>10. CASE EnvironmentStep
  BY <1>10 DEF EnvironmentStep, ConsumePaste, UserMoves, ForeignWriteSeen,
      ForeignWrite, ExpireCapability, ExpireSnapshot, FieldWith, Edited,
      WritePasteboard
<1>11. CASE UNCHANGED vars
  BY <1>11 DEF vars
<1> QED BY <1>1, <1>2, <1>3, <1>4, <1>5, <1>6, <1>7, <1>8, <1>9, <1>10, <1>11
    DEF Next, DeliverStep, ChainStep, TargetStep, Over

(* A step keeps the transaction's account of the pasteboard. *)
LEMMA NextKeepsTransaction ==
  ASSUME DeliveryInv, [Next]_vars
  PROVE  TransactionInv'
<1> USE DeliveriesAreOwn DEF TransactionInv, WindowInv, Contents, TypeOK,
    TargetTypeOK, BridgeTypeOK, Unstaged, Staged, TxnSteps, Finals, DeliveryInv,
    Go, Goto, EndAs, IfExpected, ShowAs, Expected, Return, BeginCommit,
    EndCommit, session, ports, vars, callVars, temporary, bridge, registry,
    targetVars
<1>1. CASE ChainStep
  <2> USE <1>1
  <2>1. CASE Route
    BY <2>1 DEF Route
  <2>2. CASE ChooseInsert
    BY <2>2 DEF ChooseInsert
  <2>3. CASE ChooseAfterInsert
    BY <2>3 DEF ChooseAfterInsert
  <2>4. CASE TryClipboard
    BY <2>4 DEF TryClipboard
  <2>5. CASE ChooseBound
    BY <2>5 DEF ChooseBound
  <2>6. CASE TryUserDirected
    BY <2>6 DEF TryUserDirected
  <2>7. CASE ChooseAfterPaste
    BY <2>7 DEF ChooseAfterPaste
  <2>8. CASE ChooseAfterShow
    BY <2>8 DEF ChooseAfterShow
  <2>9. CASE BeginFinalizing
    BY <2>9 DEF BeginFinalizing
  <2>10. CASE OpenHistory
    BY <2>10 DEF OpenHistory
  <2>11. CASE SaveHistory
    BY <2>11 DEF SaveHistory
  <2>12. CASE Complete
    BY <2>12 DEF Complete
  <2>13. CASE ChooseAfterSelection
    BY <2>13 DEF ChooseAfterSelection
  <2>14. CASE ChooseAfterCopy
    BY <2>14 DEF ChooseAfterCopy
  <2> QED BY <2>1, <2>2, <2>3, <2>4, <2>5, <2>6, <2>7, <2>8, <2>9, <2>10, <2>11,
      <2>12, <2>13, <2>14 DEF ChainStep
<1>2. CASE TargetStep
  BY <1>2 DEF TargetStep, RevalidateFirst, RevalidateAgain, Revalidate,
      SelectStep, LookAtSelection, ReadSelection, CheckSelection
<1>3. CASE AutoCopy
  BY <1>3 DEF AutoCopy, WritePasteboard
<1>4. CASE InsertStep /\ UNCHANGED <<session, bridge, temporary>>
  <2> USE <1>4
  <2>1. CASE InsertTake
    BY <2>1 DEF InsertTake
  <2>2. CASE InsertPrecommit
    BY <2>2 DEF InsertPrecommit
  <2>3. CASE InsertCollapse
    BY <2>3 DEF InsertCollapse
  <2>4. CASE InsertCollapsed
    BY <2>4 DEF InsertCollapsed
  <2>5. CASE InsertDispatch
    BY <2>5 DEF InsertDispatch
  <2>6. CASE InsertSet
    BY <2>6 DEF InsertSet, SetSelectedText, Lands, FieldWith
  <2>7. CASE InsertVerify
    BY <2>7 DEF InsertVerify, InsertOutcomeOf, PollMayFind, ReadBack
  <2> QED BY <2>1, <2>2, <2>3, <2>4, <2>5, <2>6, <2>7 DEF InsertStep
<1>5. CASE TransactionStep /\ UNCHANGED <<session, temporary>>
  <2> USE <1>5 DEF Record, OutcomeIs, NoTxn, Pasted, Caller
  <2>1. CASE BeginTransaction("bound", "bind")
    BY <2>1 DEF BeginTransaction, LedgerAnswer, Busy
  <2>2. CASE BeginTransaction("user", "paste")
    BY <2>2 DEF BeginTransaction, LedgerAnswer, Busy
  <2>3. CASE BeginSelection
    BY <2>3 DEF BeginSelection, Busy
  <2>4. CASE ReadContents
    BY <2>4 DEF ReadContents
  <2>5. CASE ValidateSelectionTarget
    BY <2>5 DEF ValidateSelectionTarget
  <2>6. CASE CopySelection
    BY <2>6 DEF CopySelection
  <2>7. CASE ValidateInsertTarget
    BY <2>7 DEF ValidateInsertTarget
  <2>8. CASE CommitTransaction
    BY <2>8 DEF CommitTransaction
  <2>9. CASE StageText
    BY <2>9 DEF StageText, WritePasteboard
  <2>10. CASE RecheckTarget
    BY <2>10 DEF RecheckTarget
  <2>11. CASE PostShortcut
    BY <2>11 DEF PostShortcut, PostPaste
  <2>12. CASE VerifyPaste
    BY <2>12 DEF VerifyPaste, PastedAs, PollMayFind, ReadBack
  <2>13. CASE CheckOurs
    BY <2>13 DEF CheckOurs, Ours
  <2>14. CASE WriteBack
    <3>1. at' = "txnRecord" /\ at = "txnWriteBack"
      BY <2>14 DEF WriteBack
    <3>2. \/ txn' = txn /\ pasteboard'.content = txn.saved
          \/ RestoreFailed
      BY <2>14 DEF WriteBack, WritePasteboard
    <3>3. RestoreFailed => txn'.kind = txn.kind /\ ~txn'.clean
      BY DEF RestoreFailed
    <3> QED BY <3>1, <3>2, <3>3
  <2>15. CASE RecordOutcome
    BY <2>15 DEF RecordOutcome
  <2>16. CASE EndSelection
    BY <2>16 DEF EndSelection
  <2> QED BY <2>1, <2>2, <2>3, <2>4, <2>5, <2>6, <2>7, <2>8, <2>9, <2>10, <2>11,
      <2>12, <2>13, <2>14, <2>15, <2>16 DEF TransactionStep
<1>6. CASE ShowStep(fallback) /\ UNCHANGED session
  BY <1>6 DEF ShowStep, ShowText, ShowWindow
<1>7. CASE \E d \in Deliveries : StartDelivery(d)
  BY <1>7 DEF StartDelivery, Capture
<1>8. CASE QuitStep
  BY <1>8 DEF QuitStep, QuitTake, QuitInvalidate, QuitDrain, Invalidate
<1>9. CASE UserStep
  <2> USE <1>9 DEF UserStep
  <2>1. CASE Mount
    BY <2>1 DEF Mount, WritePasteboard, Busy
  <2>2. CASE DestroyWindow
    BY <2>2 DEF DestroyWindow, WritePasteboard, Busy
  <2>3. CASE CopyAll
    BY <2>3 DEF CopyAll, WritePasteboard, Busy
  <2>4. CASE Dismiss
    BY <2>4 DEF Dismiss, WritePasteboard, Busy
  <2>5. CASE ShowPending
    BY <2>5 DEF ShowPending, WritePasteboard, Busy
  <2> QED BY <2>1, <2>2, <2>3, <2>4, <2>5 DEF WindowStep
<1>10. CASE EnvironmentStep
  BY <1>10 DEF EnvironmentStep, ConsumePaste, UserMoves, ForeignWriteSeen,
      ForeignWrite, ExpireCapability, ExpireSnapshot, FieldWith, Edited,
      WritePasteboard
<1>11. CASE UNCHANGED vars
  BY <1>11 DEF vars
<1> QED BY <1>1, <1>2, <1>3, <1>4, <1>5, <1>6, <1>7, <1>8, <1>9, <1>10, <1>11
    DEF Next, DeliverStep, ChainStep, TargetStep, Over

(* A step keeps the commits balanced, and the drained quit quiet. *)
LEMMA NextKeepsCommits ==
  ASSUME DeliveryInv, [Next]_vars
  PROVE  CommitInv'
<1> USE DeliveriesAreOwn DEF CommitInv, TransactionInv, TypeOK, BridgeTypeOK,
    Committing, Unstaged, Staged, TxnSteps, Finals, DeliveryInv, Go, Goto,
    EndAs, IfExpected, ShowAs, Expected, Return, BeginCommit, EndCommit,
    session, ports, vars, callVars, temporary, bridge, registry, targetVars
<1>1. CASE ChainStep
  <2> USE <1>1
  <2>1. CASE Route
    BY <2>1 DEF Route
  <2>2. CASE ChooseInsert
    BY <2>2 DEF ChooseInsert
  <2>3. CASE ChooseAfterInsert
    BY <2>3 DEF ChooseAfterInsert
  <2>4. CASE TryClipboard
    BY <2>4 DEF TryClipboard
  <2>5. CASE ChooseBound
    BY <2>5 DEF ChooseBound
  <2>6. CASE TryUserDirected
    BY <2>6 DEF TryUserDirected
  <2>7. CASE ChooseAfterPaste
    BY <2>7 DEF ChooseAfterPaste
  <2>8. CASE ChooseAfterShow
    BY <2>8 DEF ChooseAfterShow
  <2>9. CASE BeginFinalizing
    BY <2>9 DEF BeginFinalizing
  <2>10. CASE OpenHistory
    BY <2>10 DEF OpenHistory
  <2>11. CASE SaveHistory
    BY <2>11 DEF SaveHistory
  <2>12. CASE Complete
    BY <2>12 DEF Complete
  <2>13. CASE ChooseAfterSelection
    BY <2>13 DEF ChooseAfterSelection
  <2>14. CASE ChooseAfterCopy
    BY <2>14 DEF ChooseAfterCopy
  <2> QED BY <2>1, <2>2, <2>3, <2>4, <2>5, <2>6, <2>7, <2>8, <2>9, <2>10, <2>11,
      <2>12, <2>13, <2>14 DEF ChainStep
<1>2. CASE TargetStep
  BY <1>2 DEF TargetStep, RevalidateFirst, RevalidateAgain, Revalidate,
      SelectStep, LookAtSelection, ReadSelection, CheckSelection
<1>3. CASE AutoCopy
  BY <1>3 DEF AutoCopy, WritePasteboard
<1>4. CASE InsertStep /\ UNCHANGED <<session, bridge, temporary>>
  <2> USE <1>4
  <2>1. CASE InsertTake
    BY <2>1 DEF InsertTake
  <2>2. CASE InsertPrecommit
    BY <2>2 DEF InsertPrecommit
  <2>3. CASE InsertCollapse
    BY <2>3 DEF InsertCollapse
  <2>4. CASE InsertCollapsed
    BY <2>4 DEF InsertCollapsed
  <2>5. CASE InsertDispatch
    BY <2>5 DEF InsertDispatch
  <2>6. CASE InsertSet
    BY <2>6 DEF InsertSet, SetSelectedText, Lands, FieldWith
  <2>7. CASE InsertVerify
    BY <2>7 DEF InsertVerify, InsertOutcomeOf, PollMayFind, ReadBack
  <2> QED BY <2>1, <2>2, <2>3, <2>4, <2>5, <2>6, <2>7 DEF InsertStep
<1>5. CASE TransactionStep /\ UNCHANGED <<session, temporary>>
  <2> USE <1>5 DEF Record, OutcomeIs, NoTxn, Pasted, Caller
  <2>1. CASE BeginTransaction("bound", "bind")
    BY <2>1 DEF BeginTransaction, LedgerAnswer, Busy
  <2>2. CASE BeginTransaction("user", "paste")
    BY <2>2 DEF BeginTransaction, LedgerAnswer, Busy
  <2>3. CASE BeginSelection
    BY <2>3 DEF BeginSelection, Busy
  <2>4. CASE ReadContents
    BY <2>4 DEF ReadContents
  <2>5. CASE ValidateSelectionTarget
    BY <2>5 DEF ValidateSelectionTarget
  <2>6. CASE CopySelection
    BY <2>6 DEF CopySelection
  <2>7. CASE ValidateInsertTarget
    BY <2>7 DEF ValidateInsertTarget
  <2>8. CASE CommitTransaction
    BY <2>8 DEF CommitTransaction
  <2>9. CASE StageText
    BY <2>9 DEF StageText, WritePasteboard
  <2>10. CASE RecheckTarget
    BY <2>10 DEF RecheckTarget
  <2>11. CASE PostShortcut
    BY <2>11 DEF PostShortcut, PostPaste
  <2>12. CASE VerifyPaste
    BY <2>12 DEF VerifyPaste, PastedAs, PollMayFind, ReadBack
  <2>13. CASE CheckOurs
    BY <2>13 DEF CheckOurs, Ours
  <2>14. CASE WriteBack
    BY <2>14 DEF WriteBack, WritePasteboard, RestoreFailed
  <2>15. CASE RecordOutcome
    BY <2>15 DEF RecordOutcome
  <2>16. CASE EndSelection
    BY <2>16 DEF EndSelection
  <2> QED BY <2>1, <2>2, <2>3, <2>4, <2>5, <2>6, <2>7, <2>8, <2>9, <2>10, <2>11,
      <2>12, <2>13, <2>14, <2>15, <2>16 DEF TransactionStep
<1>6. CASE ShowStep(fallback) /\ UNCHANGED session
  BY <1>6 DEF ShowStep, ShowText, ShowWindow
<1>7. CASE \E d \in Deliveries : StartDelivery(d)
  BY <1>7 DEF StartDelivery, Capture
<1>8. CASE QuitStep
  BY <1>8 DEF QuitStep, QuitTake, QuitInvalidate, QuitDrain, Invalidate
<1>9. CASE UserStep
  <2> USE <1>9 DEF UserStep
  <2>1. CASE Mount
    BY <2>1 DEF Mount, WritePasteboard, Busy
  <2>2. CASE DestroyWindow
    BY <2>2 DEF DestroyWindow, WritePasteboard, Busy
  <2>3. CASE CopyAll
    BY <2>3 DEF CopyAll, WritePasteboard, Busy
  <2>4. CASE Dismiss
    BY <2>4 DEF Dismiss, WritePasteboard, Busy
  <2>5. CASE ShowPending
    BY <2>5 DEF ShowPending, WritePasteboard, Busy
  <2> QED BY <2>1, <2>2, <2>3, <2>4, <2>5 DEF WindowStep
<1>10. CASE EnvironmentStep
  BY <1>10 DEF EnvironmentStep, ConsumePaste, UserMoves, ForeignWriteSeen,
      ForeignWrite, ExpireCapability, ExpireSnapshot, FieldWith, Edited,
      WritePasteboard
<1>11. CASE UNCHANGED vars
  BY <1>11 DEF vars
<1> QED BY <1>1, <1>2, <1>3, <1>4, <1>5, <1>6, <1>7, <1>8, <1>9, <1>10, <1>11
    DEF Next, DeliverStep, ChainStep, TargetStep, Over

(* The invariant holds of every behaviour. *)
LEMMA DeliveryInvariant == Spec => []DeliveryInv
<1>1. Init => DeliveryInv
  <2> SUFFICES ASSUME Init PROVE DeliveryInv
    OBVIOUS
  <2> USE DEF Init, TargetInit, CallInit, RegistryInit, BridgeInit,
      TemporaryInit, NoTxn, NoBox, Uncounted
  <2>1. TargetTypeOK /\ RegistryTypeOK
    <3>1. field \in Fields
      BY DEF Fields, Carets, Counts
    <3>2. pasteboard \in [content : Contents, changes : 0..Uncounted]
      BY DEF Contents
    <3>3. moves \in 0..MaxMoves /\ foreign \in 0..MaxForeign
      BY BoundsAreNatural
    <3> QED BY <3>1, <3>2, <3>3 DEF TargetTypeOK, Foci, RegistryTypeOK,
        Snapshots
  <2>2. BridgeTypeOK /\ TemporaryTypeOK
    BY DEF BridgeTypeOK, TemporaryTypeOK, Answers, Contents, Statuses
  <2>3. TypeOK
    <3>1. /\ answer \in Answers /\ fate \in Fates /\ fallback \in Statuses
          /\ commits \in 0..1 /\ waiting \subseteq Deliveries
      BY DEF Answers, Fates, Statuses
    <3> QED BY <2>1, <2>2, <3>1 DEF TypeOK
  <2>4. OnceInv
    BY DEF OnceInv, BeforeWriting, Unwritten
  <2>5. WindowInv
    BY DeliveriesAreOwn DEF WindowInv, Unwritten
  <2>6. TransactionInv
    BY DEF TransactionInv, TxnSteps, Staged, Unstaged
  <2>7. CommitInv
    BY DEF CommitInv, Committing
  <2> QED BY <2>3, <2>4, <2>5, <2>6, <2>7 DEF DeliveryInv
<1>2. DeliveryInv /\ [Next]_vars => DeliveryInv'
  BY NextKeepsType, NextKeepsOnce, NextKeepsWindow, NextKeepsTransaction,
      NextKeepsCommits DEF DeliveryInv
<1> QED BY <1>1, <1>2, PTL DEF Spec

-----------------------------------------------------------------------------
(* The properties *)

(* Every variable keeps its type; in particular no more than one commit is  *)
(* ever counted, and the count never falls below zero.                      *)
THEOREM TypeCorrect == Spec => []TypeOK
  BY DeliveryInvariant, PTL DEF DeliveryInv

(* The current text enters a document at most once: neither the fallbacks   *)
(* of deliver nor a shortcut consumed late write it a second time.          *)
THEOREM LandsAtMostOnceHolds == Spec => []LandsAtMostOnce
<1>1. DeliveryInv => LandsAtMostOnce
  BY DEF DeliveryInv, OnceInv, LandsAtMostOnce
<1> QED BY <1>1, DeliveryInvariant, PTL

(* A window that says that its text was not inserted is right: the text is  *)
(* in no document, and no shortcut is on its way that would put it there.   *)
THEOREM StatusIsHonestHolds == Spec => []StatusIsHonest
<1>1. DeliveryInv => StatusIsHonest
  <2> SUFFICES ASSUME DeliveryInv, pending = current,
                      status \in {"not_inserted", "llm_fallback"}
               PROVE  landed = 0 /\ keys # current
    BY DEF StatusIsHonest
  <2>1. Untouched /\ current # Nobody
    BY DEF DeliveryInv, WindowInv, Unwritten
  <2> QED BY <2>1 DEF Untouched
<1> QED BY <1>1, DeliveryInvariant, PTL

(* A delivery that deliver reports as inserted is in a document.            *)
THEOREM InsertedIsTrueHolds == Spec => []InsertedIsTrue
<1>1. DeliveryInv => InsertedIsTrue
  BY DEF DeliveryInv, OnceInv, InsertedIsTrue
<1> QED BY <1>1, DeliveryInvariant, PTL

(* An undisturbed transaction restores what the user had on the pasteboard, *)
(* and none restores over what another program wrote after it staged.       *)
THEOREM ClipboardIsSettledHolds == Spec => ClipboardIsSettled
<1>1. DeliveryInv =>
        (at = "txnRecord" /\ txn.clean => pasteboard.content = txn.saved)
  BY DEF DeliveryInv, TransactionInv
<1>2. DeliveryInv /\ [Next]_vars =>
        [at = "txnRestore" /\ at' = "txnWriteBack" /\ txn.kind # "selection"
           => pasteboard.content # "foreign"]_vars
  <2> SUFFICES ASSUME DeliveryInv, [Next]_vars, at = "txnRestore",
                      at' = "txnWriteBack", txn.kind # "selection"
               PROVE  pasteboard.content # "foreign"
    OBVIOUS
  <2>1. pasteboard.changes = 1
    <3>1. DeliverStep
      BY DEF Next, StartDelivery, QuitStep, QuitTake, QuitInvalidate, QuitDrain,
          Invalidate, UserStep, WindowStep, Mount, Dismiss, DestroyWindow,
          CopyAll, ShowPending, EnvironmentStep, ConsumePaste, UserMoves,
          ForeignWriteSeen, ForeignWrite, ExpireCapability, ExpireSnapshot,
          Over, callVars, targetVars, vars
    <3>2. CheckOurs
      BY <3>1 DEF DeliverStep, Finals, Go, Goto, Return, EndCommit, Route,
          RevalidateFirst, ChooseInsert, ChooseAfterInsert, TryClipboard,
          RevalidateAgain, ChooseBound, TryUserDirected, ChooseAfterPaste,
          ChooseAfterShow, BeginFinalizing, AutoCopy, OpenHistory, SaveHistory,
          Complete, ChooseAfterSelection, ChooseAfterCopy, SelectStep,
          LookAtSelection, ReadSelection, CheckSelection, InsertStep,
          InsertTake, InsertPrecommit, InsertCollapse, InsertCollapsed,
          InsertDispatch, InsertSet, InsertVerify, TransactionStep,
          BeginTransaction, BeginSelection, ReadContents,
          ValidateSelectionTarget, CopySelection, ValidateInsertTarget,
          CommitTransaction, StageText, RecheckTarget, PostShortcut,
          VerifyPaste, CheckOurs, WriteBack, RecordOutcome, EndSelection,
          ShowStep, ShowText, ShowWindow
    <3> QED BY <3>2 DEF CheckOurs, Ours, Goto
  <2> QED BY <2>1 DEF DeliveryInv, TransactionInv, Staged
<1> QED BY <1>1, <1>2, DeliveryInvariant, PTL DEF Spec, ClipboardIsSettled

(* Once the quit has drained the deliveries, no step changes the shortcuts, *)
(* the history, the window's text or, on its own account, the pasteboard.   *)
THEOREM NothingAfterExitHolds == Spec => NothingAfterExit
<1>1. DeliveryInv /\ [Next]_vars =>
        [quit = "done" =>
           /\ keys' \in {keys, Nobody} /\ saved' = saved /\ pending' = pending
           /\ pasteboard'.content \in {pasteboard.content, "foreign"}]_vars
  <2> SUFFICES ASSUME DeliveryInv, [Next]_vars, quit = "done"
               PROVE  /\ keys' \in {keys, Nobody} /\ saved' = saved
                      /\ pending' = pending
                      /\ pasteboard'.content \in {pasteboard.content, "foreign"}
    OBVIOUS
  <2>1. at = "idle"
    BY DEF DeliveryInv, CommitInv
  <2>2. EnvironmentStep \/ UNCHANGED vars
    <3>1. ~DeliverStep
      BY <2>1 DEF DeliverStep, Finals, Route, RevalidateFirst, ChooseInsert,
          ChooseAfterInsert, TryClipboard, RevalidateAgain, ChooseBound,
          TryUserDirected, ChooseAfterPaste, ChooseAfterShow, BeginFinalizing,
          AutoCopy, OpenHistory, SaveHistory, Complete, ChooseAfterSelection,
          ChooseAfterCopy, SelectStep, LookAtSelection, ReadSelection,
          CheckSelection, InsertStep, InsertTake, InsertPrecommit,
          InsertCollapse, InsertCollapsed, InsertDispatch, InsertSet,
          InsertVerify, TransactionStep, BeginTransaction, BeginSelection,
          ReadContents, ValidateSelectionTarget, CopySelection,
          ValidateInsertTarget, CommitTransaction, StageText, RecheckTarget,
          PostShortcut, VerifyPaste, CheckOurs, WriteBack, RecordOutcome,
          EndSelection, ShowStep, ShowText, ShowWindow
    <3>2. ~(\E d \in Deliveries : StartDelivery(d)) /\ ~QuitStep /\ ~UserStep
      BY DEF StartDelivery, Expected, QuitStep, QuitTake, QuitInvalidate,
          QuitDrain, UserStep
    <3> QED BY <3>1, <3>2 DEF Next, Over
  <2> QED BY <2>2
        DEF EnvironmentStep, ConsumePaste, UserMoves, ForeignWriteSeen,
            ForeignWrite, ExpireCapability, ExpireSnapshot, WritePasteboard, vars,
            session, callVars, ports, temporary, bridge, registry, targetVars
<1> QED BY <1>1, DeliveryInvariant, PTL DEF Spec, NothingAfterExit
=============================================================================
