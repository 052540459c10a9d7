SPECIFICATION SettingSpec
CONSTANTS
  c1 = c1
  c2 = c2
  url1 = url1
  url2 = url2
  url3 = url3
  Default = Default
  NoUrl = NoUrl
  Urls <- SomeUrls
  Callers <- TwoCallers
  MaxFaults = 1
INVARIANT TakesEffectAlone
