\* Two chains, one without an adapter in the dispatcher; three epochs in all and
\* batches of two, so that the last one waits for the timeout.  Channels of one
\* message, so that every sender may find its channel full.  One restart, or
\* failed poll, or reorganisation of the second chain; connections are lost at any
\* time, and confirmations and receipts may never come.
SPECIFICATION FairSpec
CONSTANTS
    avalanche = avalanche
    moonbeam = moonbeam
    chains <- MCChains
    WithAdapter = {moonbeam}
    batching_enabled = TRUE
    batch_size = 2
    confirmation_blocks = 1
    ChannelSize = 1
    MaxBlock <- MCMaxBlock
    MaxEpochs <- MCMaxEpochs
    MayReorg = {moonbeam}
    MaxFaults = 1
INVARIANTS
    
    EpochsAreSubmittedInOrder
PROPERTY SubscribedEpochsAreSubmitted
\* All epochs submitted and MaxBlock reached: the relayer waits for events.
CHECK_DEADLOCK FALSE
