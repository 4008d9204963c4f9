SPECIFICATION Spec
CONSTANTS
  Files <- EmbeddedFiles
  Components = {"@owasp_crs", "@recommended-conf", "@demo-conf", "@crs-setup-demo-conf",
                "@ftw-conf", "@crs-setup-conf", "crs", "coraza-demo.conf",
                "REQUEST-901-INITIALIZATION.conf", "", ".", ".."}
  MaxDepth = 3
  Base = 2
  Missing = missing
  NotANumber = text
  Host = host
  AddressPorts = {0, 1, 6, 7, 8, 20}
INVARIANTS ListedIsReadable AliasesAreEmbedded PortIsExact PeerIsReported
CHECK_DEADLOCK FALSE
