--------------------------- MODULE MCNativeBridge ---------------------------
EXTENDS NativeBridge

\* One object of each type: the wallet (1) and its proving keys (2) share the
\* prover's key they load, and LocalProver (3) has its own.
MCObjects == 1..5
MCKindOf == <<"MobileWallet", "ProvingKeys", "LocalProver", "PreparedTransaction", "CachedOutput">>
MCKeeperOf == <<1, 1, 3, None, None>>

\* Calls of every sort that may wait, for three at a time.
MCCalls == {MobileWallet_prepare_spend, MobileWallet_refresh, LocalProver_prove, LocalProver_close,
            ProvingKeys_clear, ProvingKeys_prefetch, PreparedTransaction_signers}
           \cup {Dispose(kind) : kind \in {"MobileWallet", "ProvingKeys", "LocalProver"}}
=============================================================================
