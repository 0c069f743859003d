--------------------------- MODULE MCBrowserWallet ---------------------------
EXTENDS BrowserWallet

MCModes == {"network", "hardhat", "detect"}
=============================================================================
